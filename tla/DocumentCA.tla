------------------------------ MODULE DocumentCA ------------------------------
(***************************************************************************)
(* document_ca.js: which key and algorithm of a DG14 the server uses for   *)
(* chip authentication, and which answers of a chip it accepts.            *)
(*                                                                         *)
(* Keys, MACs and ciphertexts are terms: equal only if they were made from *)
(* the same things.                                                        *)
(*                                                                         *)
(* An operator named X_Y is X with a plausible fault Y, used by no         *)
(* specification.                                                          *)
(***************************************************************************)
EXTENDS Integers, FiniteSets, Sequences

CONSTANT NoKeyId     \* a SecurityInfo without the optional keyId

-----------------------------------------------------------------------------
(* DG14 *)

KeyLengths == {128, 192, 256}      \* of the three CA_PROTOCOLS
KeyIds == {NoKeyId, 0, 1}

\* What reading the DER of an entry yields: a public key, a protocol, or
\* something that is skipped.  An entry that does not parse, a curve or a
\* version that is not supported refuse the whole DG14: "refused".
PublicKeys == [kind : {"key"}, keyId : KeyIds]
Protocols == [kind : {"protocol"}, keyId : KeyIds, keyLength : KeyLengths]
Skipped == [kind |-> "other"]
Refused == [kind |-> "refused"]

\* The entries in the order of the file, which the client chooses.
DG14 == Seq(PublicKeys \cup Protocols \cup {Skipped, Refused})

Number(keyId) == IF keyId = NoKeyId THEN 0 ELSE keyId

Matching(k, p) == Number(k.keyId) = Number(p.keyId)

\* A candidate is a key and a protocol for it, by their places in the file.
Candidates(dg14) ==
    {c \in (DOMAIN dg14) \X (DOMAIN dg14) :
        /\ dg14[c[1]].kind = "key" /\ dg14[c[2]].kind = "protocol"
        /\ Matching(dg14[c[1]], dg14[c[2]])}

\* The nested loops find them key by key, for each the protocols in order.
FoundBefore(c, d) == c[1] < d[1] \/ (c[1] = d[1] /\ c[2] < d[2])

\* The comparator of the sort, which is stable.
Compare_WeakestFirst(dg14, left, right) == dg14[left[2]].keyLength - dg14[right[2]].keyLength
Compare(dg14, left, right) == dg14[right[2]].keyLength - dg14[left[2]].keyLength

SortsBefore(dg14, c, d) ==
    Compare(dg14, c, d) < 0 \/ (Compare(dg14, c, d) = 0 /\ FoundBefore(c, d))

Supported(dg14) ==
    Candidates(dg14) # {} /\ \A i \in DOMAIN dg14 : dg14[i] # Refused

\* The sorted list: in n-th place the candidate that n - 1 others sort before.
parseDG14(dg14) ==
    [n \in 1..Cardinality(Candidates(dg14)) |->
        CHOOSE c \in Candidates(dg14) :
            Cardinality({d \in Candidates(dg14) : SortsBefore(dg14, d, c)}) = n - 1]

\* start takes the first candidate.
ChosenLength(dg14) == dg14[parseDG14(dg14)[1][2]].keyLength

-----------------------------------------------------------------------------
(* The protected GET CHALLENGE *)

\* ECDH of the server's ephemeral key of a session and the chip's static key.
SessionKey(session, chip, keyLength, use) ==
    [session |-> session, chip |-> chip, keyLength |-> keyLength, use |-> use]

Mac(key, ssc, content) == [key |-> key, ssc |-> ssc, content |-> content]

\* A plaintext is told by its length: 8 bytes are a challenge.
Cipher(key, ssc, bytes) == [key |-> key, ssc |-> ssc, bytes |-> bytes]

Protected(session, chip, keyLength, ssc, status, bytes) ==
    LET data == Cipher(SessionKey(session, chip, keyLength, "enc"), ssc, bytes)
    IN  [status |-> status, data |-> data,
         mac |-> Mac(SessionKey(session, chip, keyLength, "mac"), ssc, <<status, data>>)]

\* The command, under the first value of the send sequence counter.
Command(session, chip, keyLength) ==
    Protected(session, chip, keyLength, 1, "command", 0)

\* The chip answers under the next, also when it refuses.
Answer(session, chip, keyLength, status) ==
    Protected(session, chip, keyLength, 2, status, IF status = "9000" THEN 8 ELSE 0)

\* verifyProtectedResponse
Accepts(answer, session, chip, keyLength) ==
    /\ answer.mac = Mac(SessionKey(session, chip, keyLength, "mac"), 2,
                        <<answer.status, answer.data>>)
    /\ answer.status = "9000"
    /\ answer.data = Cipher(SessionKey(session, chip, keyLength, "enc"), 2, 8)
=============================================================================
