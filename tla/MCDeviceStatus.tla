---------------------------- MODULE MCDeviceStatus ----------------------------
(***************************************************************************)
(* What the decoding of a status promises, evaluated at the widths of the  *)
(* source over all magnitudes of eight bits and some that are longer.      *)
(***************************************************************************)
EXTENDS DeviceStatus

LOCAL Low == 0..7
LOCAL Texts == {NoNumber} \cup {Text(n, b) : n \in BOOLEAN,
                                  b \in SUBSET {0, 31} \cup SUBSET {32, LongBits - 1, LongBits}}
LOCAL Number(bits) == MapThenSumSet(LAMBDA b : 2 ^ b, bits)
LOCAL NoParameter == [key \in {} |-> NoNumber]

\* The watcher asks for exactly the parameters the getters look for.
ASSUME GettersReadWhatIsAsked ==
  {Getters[g] : g \in DOMAIN Getters} \cup {"status_flags"} = ToSet(Requested)

\* Every query has a bit of its own, and the truncation to 32 bits loses none.
ASSUME FlagsAreIndependent ==
  \A flags \in {{}} \cup {{FlagPositions[q]} : q \in DOMAIN FlagPositions} :
    LET read == getStatusFlags([key \in {"status_flags"} |-> Text(FALSE, flags)])
    IN  /\ read.raised = "nothing"
        /\ {FlagPositions[q] : q \in {q \in DOMAIN FlagPositions : Flag(q, read.bits)}} = flags

\* A magnitude is read as it is, a negative one modulo 2^64: one that fits 63
\* bits, a temperature below zero for example, is given as more than 2^63.
ASSUME NegativesWrap ==
  \A bits \in SUBSET Low :
    /\ stoul(Text(FALSE, bits)) = Value(bits)
    /\ LET negated == stoul(Text(TRUE, bits)).bits
       IN  /\ Number(negated \cap Low) = (256 - Number(bits)) % 256
           /\ negated \ Low = IF bits = Zero THEN {} ELSE Long \ Low

\* What a getter cannot read is the caller's default, but for a parameter that is missing, which is zero.
ASSUME GettersNeverThrow ==
  \A g \in DOMAIN Getters, text \in Texts, otherwise \in {Zero, {0}, Long} :
    /\ Get(g, [key \in {Getters[g]} |-> text], otherwise) =
         IF text.number /\ text.bits \subseteq Long THEN stoul(text).bits ELSE otherwise
    /\ Get(g, NoParameter, otherwise) = Zero

\* The flags of a status throw when the device has left them out of a successful
\* answer, and none is set in a status nobody asked for.
ASSUME FlagsMayThrow ==
  /\ getStatusFlags(StatusOf(NoParameter)).raised = "invalid_argument"
  /\ getStatusFlags(NoParameter) = Value(Zero)
  /\ \A text \in Texts :
       getStatusFlags([key \in {"status_flags"} |-> text]).raised = "nothing"
         <=> text.number /\ text.bits \subseteq Long
=============================================================================
