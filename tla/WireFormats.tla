---------------------------- MODULE WireFormats -----------------------------
(* What the leader writes to its socket and what it computes for display do  *)
(* not depend on the state of a session: the framing of codec.ts and the     *)
(* cache percentage of projection.ts.                                        *)
EXTENDS Frames, Meters

CONSTANTS
    Payloads,   \* sequences of payloads that are sent
    Oversize,   \* lengths that a header can say and the code refuses
    Prompts     \* records of the tokens of a prompt, and of those not in the cache

ASSUME WireFormatsAssumption ==
    /\ \A payloads \in Payloads :
           /\ payloads \in Seq(Seq(Byte))
           /\ \A i \in DOMAIN payloads : Len(payloads[i]) <= MaxPayload
    /\ Oversize \subseteq Nat
    /\ \A length \in Oversize : MaxPayload < length /\ length < Power[HeaderBytes]
    /\ \A prompt \in Prompts : prompt.all \in Nat \ {0} /\ prompt.misses \in 0..prompt.all

\* The framing does not depend on how the network cuts the stream, and a length
\* that is refused closes the connection behind what was sent before it.
FramingExact ==
    \A payloads \in Payloads :
        /\ FramesSurvive(payloads)
        /\ \A length \in Oversize : OversizeRefused(payloads, length)

\* The percentage is the rounding of the rational it stands for.
PercentagesExact == \A prompt \in Prompts : ExactFor(prompt.misses, prompt.all)
=============================================================================
