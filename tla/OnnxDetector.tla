------------------------------ MODULE OnnxDetector ------------------------------
(***************************************************************************)
(* One OnnxYoloXDetector and the frames it is given: its construction from *)
(* a configuration and a model file, processAnalyticsFrame() and           *)
(* prepareImage(), which turn a frame into the model's input tensor, and   *)
(* the check of what the model returns, up to the call of                  *)
(* decodeDetections(), where module YoloxPostprocessing goes on.           *)
(*                                                                         *)
(* A pixel is its place and its colour, before any interpolation. Lengths  *)
(* are integers and the scale is a fraction; the rounding of the product   *)
(* of a length and the scale matters where it is truncated.                *)
(***************************************************************************)
EXTENDS Integers, Sequences

CONSTANTS
  InputWidth, InputHeight,  \* of the model's input
  Picture,                  \* the frames: [width, height, format]
  NoPicture

ASSUME DetectorAssumption ==
  /\ InputWidth \in Nat \ {0} /\ InputHeight \in Nat \ {0}
  /\ Picture \subseteq [width : Nat, height : Nat, format : {"RGB888", "other"}]
  /\ NoPicture \notin Picture

\* What a floating-point threshold may be.
Threshold == {"notFinite", "negative", "valid", "aboveOne"}

Configuration ==
  [modelFile : BOOLEAN, scoreThreshold : Threshold, nmsThreshold : Threshold,
   intraOpThreads : 0 .. 1]

\* What validateModel() looks for in the file, and detect() in an output.
ModelPart == {"count", "tensors", "float32", "inputShape", "outputShape"}
OutputPart == {"count", "tensors", "float32", "outputShape"}

\* A value of the tensor: of a pixel of the resized image, padding, or the zero
\* that resize() leaves.
Padding == [column |-> InputWidth, row |-> InputHeight, colour |-> "grey"]
Zero == [column |-> InputWidth, row |-> InputHeight, colour |-> "black"]

\* The channels of the image after cvtColor(RGB2BGR).
Bgr == <<"blue", "green", "red">>

VARIABLES
  pc,             \* see Pc
  configuration,  \* m_configuration
  picture,        \* the frame in the detector's hands
  scale,          \* prepared.scale, [num, den]
  resized,        \* resizedWidth and resizedHeight
  x, y,           \* of the copying loop
  pixels          \* prepared.pixels

\* Before construction; waiting for a frame; its checks and the resize; the
\* copying loop; inference; the output; decoding; and after an exception.
Pc == {"new", "idle", "prepare", "copy", "run", "output", "decode", "failed"}

NoScale == [num |-> 0, den |-> 1]

vars == <<pc, configuration, picture, scale, resized, x, y, pixels>>

Init ==
  /\ pc = "new"
  /\ configuration \in Configuration
  /\ picture = NoPicture
  /\ scale = NoScale
  /\ resized = [width |-> 0, height |-> 0]
  /\ x = 0 /\ y = 0
  /\ pixels = [i \in {} |-> Zero]

-----------------------------------------------------------------------------
(* Construction.                                                           *)

ChecksFileOnly(c) == c.modelFile /\ c.intraOpThreads >= 1  \* mutant

\* validateConfiguration.
Valid(c) ==
  /\ c.modelFile
  /\ c.scoreThreshold = "valid" /\ c.nmsThreshold = "valid"
  /\ c.intraOpThreads >= 1

\* The session reads the file, and validateModel looks at the parts it finds.
Construct ==
  /\ pc = "new"
  /\ \E found \in SUBSET ModelPart :
       pc' = IF Valid(configuration) /\ found = ModelPart THEN "idle" ELSE "failed"
  /\ UNCHANGED <<configuration, picture, scale, resized, x, y, pixels>>

-----------------------------------------------------------------------------
(* One frame.                                                              *)

\* processAnalyticsFrame refuses a null image and any other format.
TakeFrame ==
  /\ pc = "idle"
  /\ picture' \in Picture
  /\ pc' = IF picture'.width = 0 \/ picture'.height = 0 \/ picture'.format # "RGB888"
           THEN "failed" ELSE "prepare"
  /\ UNCHANGED <<configuration, scale, resized, x, y, pixels>>

LargerScale(p) ==  \* mutant: std::max
  IF InputWidth * p.height >= InputHeight * p.width
  THEN [num |-> InputWidth, den |-> p.width]
  ELSE [num |-> InputHeight, den |-> p.height]

\* The smaller of the two ratios.
ScaleOf(p) ==
  IF InputWidth * p.height <= InputHeight * p.width
  THEN [num |-> InputWidth, den |-> p.width]
  ELSE [num |-> InputHeight, den |-> p.height]

\* static_cast<int>(length * scale). Where the exact product is an integer, the
\* rounded one may be just below it: 360 * (416.0 / 360) gives 415. A scale that
\* is a whole number is exact.
Truncated(length, s) ==
  LET whole == (length * s.num) \div s.den IN
  {whole} \cup
  (IF (length * s.num) % s.den = 0 /\ s.num % s.den # 0 THEN {whole - 1} ELSE {})

\* The scale and the size of the resized image; none with an empty side.
PrepareImage ==
  /\ pc = "prepare"
  /\ scale' = ScaleOf(picture)
  /\ \E w \in Truncated(picture.width, scale'), h \in Truncated(picture.height, scale') :
       /\ resized' = [width |-> w, height |-> h]
       /\ pc' = IF w < 1 \/ h < 1 THEN "failed" ELSE "copy"
  /\ x' = 0 /\ y' = 0
  /\ pixels' = [i \in 0 .. 3 * InputWidth * InputHeight - 1 |-> Zero]
  /\ UNCHANGED <<configuration, picture>>

\* paddedImage: the resized image in the top left corner of a grey one.
Padded(column, row, channel) ==
  IF column < resized.width /\ row < resized.height
  THEN [column |-> column, row |-> row, colour |-> Bgr[channel + 1]]
  ELSE Padding

ColumnMajor(column, row) == column * InputHeight + row  \* mutant

\* The index of a pixel in its plane.
Index(column, row) == row * InputWidth + column

CopyPixel ==
  /\ pc = "copy"
  /\ y < InputHeight /\ x < InputWidth
  /\ LET plane == InputWidth * InputHeight IN
       pixels' = [pixels EXCEPT ![Index(x, y)] = Padded(x, y, 0),
                                ![plane + Index(x, y)] = Padded(x, y, 1),
                                ![2 * plane + Index(x, y)] = Padded(x, y, 2)]
  /\ x' = x + 1
  /\ UNCHANGED <<pc, configuration, picture, scale, resized, y>>

NextRow ==
  /\ pc = "copy"
  /\ y < InputHeight /\ x = InputWidth
  /\ x' = 0 /\ y' = y + 1
  /\ UNCHANGED <<pc, configuration, picture, scale, resized, pixels>>

EndCopy ==
  /\ pc = "copy"
  /\ y = InputHeight
  /\ pc' = "run"
  /\ UNCHANGED <<configuration, picture, scale, resized, x, y, pixels>>

\* m_session.Run returns outputs or throws.
RunInference ==
  /\ pc = "run"
  /\ pc' \in {"output", "failed"}
  /\ UNCHANGED <<configuration, picture, scale, resized, x, y, pixels>>

CheckOutput ==
  /\ pc = "output"
  /\ \E found \in SUBSET OutputPart :
       pc' = IF found = OutputPart THEN "decode" ELSE "failed"
  /\ UNCHANGED <<configuration, picture, scale, resized, x, y, pixels>>

\* The refusals of decodeDetections and applyNms that are left to be made: the
\* size of the buffer follows from the shape that was checked.
Refused ==
  \/ scale.num <= 0
  \/ configuration.scoreThreshold # "valid"
  \/ configuration.nmsThreshold # "valid"

Decode ==
  /\ pc = "decode"
  /\ pc' = IF Refused THEN "failed" ELSE "idle"
  /\ picture' = NoPicture
  /\ UNCHANGED <<configuration, scale, resized, x, y, pixels>>

Next ==
  \/ Construct \/ TakeFrame \/ PrepareImage
  \/ CopyPixel \/ NextRow \/ EndCopy
  \/ RunInference \/ CheckOutput \/ Decode

Spec == Init /\ [][Next]_vars

-----------------------------------------------------------------------------
(* Properties.                                                             *)

\* A resized image is there, and it was not refused.
Prepared == pc \in {"copy", "run", "output", "decode"}

\* The resized image fits into the input.
PictureFits ==
  Prepared =>
    resized.width \in 1 .. InputWidth /\ resized.height \in 1 .. InputHeight

\* A column c of the resized image shows the picture from c * width / to on, and
\* is reported from c / scale on: not beyond it, and at most one pixel of the
\* input before it.
MapsBack(length, to) ==
  \A c \in 0 .. to :
    LET shown == c * length * scale.num
        reported == c * scale.den * to
    IN  reported <= shown /\ shown <= reported + scale.den * to

\* The decoder divides every position by the one scale, although each side was
\* truncated on its own.
PositionsMapBack ==
  Prepared => MapsBack(picture.width, resized.width)
              /\ MapsBack(picture.height, resized.height)

\* The tensor [1, 3, InputHeight, InputWidth] that the model gets holds in every
\* cell the pixel of the frame, or the padding, that belongs there: blue first.
TensorShowsPicture ==
  pc = "run" =>
    \A i \in 0 .. 3 * InputWidth * InputHeight - 1 :
      LET channel == i \div (InputWidth * InputHeight)
          row == (i \div InputWidth) % InputHeight
          column == i % InputWidth
      IN  pixels[i] =
            IF column < resized.width /\ row < resized.height
            THEN [column |-> column, row |-> row,
                  colour |-> IF channel = 0 THEN "blue"
                             ELSE IF channel = 1 THEN "green" ELSE "red"]
            ELSE Padding

\* What the model sees is the frame, in the right colours and places, and what
\* it finds is reported where it is in the frame.
ModelSeesPicture == PictureFits /\ PositionsMapBack /\ TensorShowsPicture

\* An exception ends analytics for good, so none may come of an ordinary frame:
\* preparing fails only if a side would be no longer than one pixel, and
\* decoding accepts whatever the checks before it let through.
NoNeedlessFailure ==
  [][pc' = "failed" =>
       /\ pc # "decode"
       /\ pc = "prepare" => \/ picture.width * scale'.num <= scale'.den
                            \/ picture.height * scale'.num <= scale'.den]_vars

=============================================================================
