------------------------------ MODULE BleAudio ------------------------------
(***************************************************************************)
(* The audio of a WebRTC peer on its way to the Bluetooth bridge of the    *)
(* app, and back: resampling, the frames that are cut from it, the numbers *)
(* in them, and when a frame that comes back is played.                    *)
(*                                                                         *)
(* Numbers are exact.  A position in the input is counted in BleSampleRate *)
(* parts of a sample, so that one output sample is Rate of them; the       *)
(* volume of a sample is a fraction of Full, whatever Full.  Of pending    *)
(* samples it matters how many there are.                                  *)
(***************************************************************************)
EXTENDS Integers

CONSTANTS
  Rate,     \* sample rate of the audio context
  Full      \* volume 1

ASSUME AudioAssumption == Rate \in Nat \ {0} /\ Full \in Nat \ {0}

BleSampleRate == 8000
BleFrameSamples == 320
Block == 1024            \* samples of one onaudioprocess

\* The chain of one peer: samples kept, where the next block is read first.
NewChain == [pending |-> 0, offset |-> 0]

-----------------------------------------------------------------------------
(* From WebRTC to the bridge *)

\* The output samples of a block: one at offset, and one every Rate until the end.
Resampled(offset) ==
  LET end == Block * BleSampleRate IN
  IF offset < end THEN (end - offset + Rate - 1) \div Rate ELSE 0

\* The samples that output sample k lies between.
ReadAt(offset, k) ==
  LET idx == (offset + k * Rate) \div BleSampleRate
  IN  {idx, IF idx + 1 <= Block - 1 THEN idx + 1 ELSE Block - 1}

\* Too many pending samples are cut.
Capped(pending) ==
  IF pending > BleFrameSamples * 10 THEN BleFrameSamples * 5 ELSE pending

Before(chain) == chain.pending + Resampled(chain.offset)
Frames(chain) == Capped(Before(chain)) \div BleFrameSamples

\* The chain after a block.
OnAudioProcess(chain) ==
  [pending |-> Capped(Before(chain)) % BleFrameSamples,
   offset |-> chain.offset + Resampled(chain.offset) * Rate - Block * BleSampleRate]

\* Math.round of a / b.
Round(a, b) == (2 * a + b) \div (2 * b)

\* floatToInt16 of sample / Full.
FloatToInt16(sample) ==
  LET clamped == IF sample > Full THEN Full ELSE IF sample < -Full THEN -Full ELSE sample
  IN  IF clamped < 0 THEN Round(clamped * 32768, Full) ELSE Round(clamped * 32767, Full)

Int16 == {n \in Int : -32768 <= n /\ n <= 32767}
Byte == {n \in Nat : n <= 255}

\* int16SamplesToBytes, for one sample.
ToBytes(sample) ==
  LET value == IF sample < 0 THEN sample + 65536 ELSE sample
  IN  [lo |-> value % 256, hi |-> (value \div 256) % 256]

-----------------------------------------------------------------------------
(* From the bridge to WebRTC *)

FromBytes(bytes) ==
  LET sample == bytes.hi * 256 + bytes.lo
  IN  IF sample >= 32768 THEN sample - 65536 ELSE sample

=============================================================================
