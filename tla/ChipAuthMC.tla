------------------------------ MODULE ChipAuthMC ------------------------------
(* ChipAuth for model checking. *)
EXTENDS ChipAuth, TLC

\* A key with and without its number for two of the three protocols, the weaker
\* first; the same entries in another order among others; no protocol for the
\* key; an entry that is refused.
Passports ==
    LET key(n) == [kind |-> "key", keyId |-> n]
        protocol(n, length) == [kind |-> "protocol", keyId |-> n, keyLength |-> length]
    IN  ("good" :> <<protocol(0, 128), key(NoKeyId), protocol(NoKeyId, 192), protocol(1, 256)>>
         @@ "padded" :> <<key(0), Skipped, protocol(NoKeyId, 192), key(NoKeyId),
                          protocol(1, 256), protocol(0, 128), key(1), protocol(1, 128)>>
         @@ "lone" :> <<key(1), protocol(0, 256)>>
         @@ "odd" :> <<key(0), protocol(0, 256), Refused>>)

Symmetric == Permutations(Challenges) \cup Permutations(Contributors) \cup
             Permutations(DocumentChallenges) \cup Permutations(Jobs)
=============================================================================
