SPECIFICATION ModalSpec
CONSTANTS
  Signatures = {sig, initials}
  Saved = {initials}
  Inline = {text}
  Boxes = {box}
  Dated = {date}
  Required = {sig, text}
  NoField = NoField
  MaxPosts = 2
  Padding = 1
  MinSamples = 8
  Canvas <- ThreePixels
  Photos <- SomePhotos
  NoPhoto = NoPhoto
  Texts = {"", "Al", "Bo"}
  DefaultText = "Al"
  Fonts = {"dancing", "caveat"}
  DefaultFont = "dancing"
  MaxEdits = 5
  MaxJobs = 2
INVARIANTS
  CompleteIsRecorded
  RequiredFilled
  InkWhereAdopted
  InkIsKept
  PreviewIsChosen
CHECK_DEADLOCK FALSE
