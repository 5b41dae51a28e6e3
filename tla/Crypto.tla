-------------------------------- MODULE Crypto --------------------------------
(***************************************************************************)
(* The cryptography of a connection (main/crypto_ecdh_aes.cpp) as the two  *)
(* AES protocols use it: where the key comes from, and the one GCM context *)
(* that the read task decrypts with and the send task encrypts with.       *)
(* PassphraseAes derives the key when it is made; EcdhAes agrees on it in  *)
(* the handshake, which is in the clear and carries the passphrase.        *)
(*                                                                         *)
(* Cryptography is perfect: a frame opens under the key it was sealed with *)
(* if it is intact.  An operation runs on the context from its start to    *)
(* its end.  If two overlap, the frame that is opened may be refused, and  *)
(* the one that is sealed may be of no use to the client, which nothing    *)
(* here looks at.  Bytes, sizes and codes are in WireProtocol.             *)
(***************************************************************************)
EXTENDS Naturals, Sequences

CONSTANTS
    Peers,        \* the clients' keys
    Trusted,      \* those of clients that know the passphrase (EcdhAes), those that
                  \* a passphrase may derive (PassphraseAes)
    Fails,        \* TRUE: mbedtls may fail
    None,         \* no key
    MaxFrames     \* bound: frames in each direction

ASSUME ConstantsAssumption ==
    /\ Trusted \subseteq Peers
    /\ None \notin Peers
    /\ Fails \in BOOLEAN
    /\ MaxFrames \in Nat

VARIABLES
    mode,        \* the protocol: "passphrase" or "ephemeral"
    key,         \* the key of aes_ctx, None before it is set
    handshake,   \* handshakeReceived
    agreed,      \* the client whose handshake was accepted
    sendReady,   \* the semaphore
    count,       \* number of frames read
    frame,       \* the last one
    readPc,      \* where the read task is
    sendPc,      \* where the send task is
    disturbed,   \* the other task used the context during its operation
    inbox,       \* what the application is given: the frame's number, 0 for an
                 \* empty message, and who sent it
    sealed       \* the keys of the frames written

keyVars == <<key, handshake, agreed, sendReady>>
vars == <<mode, keyVars, count, frame, readPc, sendPc, disturbed, inbox, sealed>>

\* A frame: who sent it, what it is, whether it is intact.
Frames == [from : Peers, hello : BOOLEAN, intact : BOOLEAN]
NoFrame == [from |-> None, hello |-> FALSE, intact |-> FALSE]

Underivable == IF Fails THEN {None} ELSE {}

\* The constructor; a derivation that fails goes unnoticed.
Init ==
    /\ mode \in {"passphrase", "ephemeral"}
    /\ key \in IF mode = "passphrase" THEN Trusted \cup Underivable ELSE {None}
    /\ handshake = FALSE /\ agreed = None /\ sendReady = FALSE
    /\ count = 0 /\ frame = NoFrame /\ readPc = "idle" /\ disturbed = FALSE
    /\ sendPc = "idle"
    /\ inbox = <<>> /\ sealed = <<>>

-----------------------------------------------------------------------------
(* The read task: appendReceived() for one frame.                          *)

ReadGoes(from, to) == readPc = from /\ readPc' = to

Clear == mode = "ephemeral" /\ ~handshake

Receive ==
    /\ count < MaxFrames
    /\ count' = count + 1
    /\ frame' \in Frames
    /\ ReadGoes("idle", IF Clear THEN "parse" ELSE "open")
    /\ UNCHANGED <<keyVars, sendPc, disturbed, inbox, sealed>>

\* gcm_auth_decrypt() starts; the send task may be in the middle of its own.
OpenStarts ==
    /\ ReadGoes("open", "opening")
    /\ disturbed' = (sendPc = "sealing")
    /\ UNCHANGED <<keyVars, count, frame, sendPc, inbox, sealed>>

\* It ends: the tag is checked.
AnyTag == TRUE
Genuine == key # None /\ frame.from = key /\ frame.intact

OpenEnds ==
    /\ \/ Genuine /\ ReadGoes("opening", IF handshake THEN "message" ELSE "parse")
       \/ /\ ~Genuine \/ disturbed
          /\ ReadGoes("opening", IF handshake THEN "refused" ELSE "idle")
    /\ UNCHANGED <<keyVars, count, frame, sendPc, disturbed, inbox, sealed>>

\* recvCb(); the empty message of a frame that was refused comes here too.
Deliver ==
    /\ \/ ReadGoes("message", "idle") /\ inbox' = Append(inbox, [n |-> count, from |-> frame.from])
       \/ ReadGoes("refused", "idle") /\ inbox' = Append(inbox, [n |-> 0, from |-> frame.from])
    /\ UNCHANGED <<keyVars, count, frame, sendPc, disturbed, sealed>>

\* parseHandshake(): in the clear the passphrase is compared, and then
\* apply_other_public() sets the key.
PhraseIgnored == TRUE
KnowsPhrase == Clear => frame.from \in Trusted
Acceptable == frame.hello /\ frame.intact /\ KnowsPhrase

ParseHandshake ==
    /\ \/ /\ Acceptable
          /\ ReadGoes("parse", "reply")
          /\ key' = IF Clear THEN frame.from ELSE key
          /\ handshake' = TRUE
          /\ agreed' = frame.from
       \/ /\ ~Acceptable \/ (Clear /\ Fails)
          /\ ReadGoes("parse", "idle")
          /\ UNCHANGED <<key, handshake, agreed>>
    /\ UNCHANGED <<sendReady, count, frame, sendPc, disturbed, inbox, sealed>>

\* sendHandshake(); only then is sendReady given.
Reply ==
    /\ ReadGoes("reply", "idle")
    /\ sendReady' = TRUE
    /\ UNCHANGED <<key, handshake, agreed, count, frame, sendPc, disturbed, inbox, sealed>>

ReadTask == Receive \/ OpenStarts \/ OpenEnds \/ Deliver \/ ParseHandshake \/ Reply

-----------------------------------------------------------------------------
(* The send task: encrypt_data_whole().                                    *)

MaySend == sendReady

SealStarts ==
    /\ MaySend
    /\ sendPc = "idle"
    /\ Len(sealed) < MaxFrames
    /\ sendPc' = "sealing"
    /\ disturbed' = (disturbed \/ readPc = "opening")
    /\ UNCHANGED <<keyVars, count, frame, readPc, inbox, sealed>>

SealEnds ==
    /\ sendPc = "sealing"
    /\ sendPc' = "idle"
    /\ sealed' = Append(sealed, key)
    /\ UNCHANGED <<keyVars, count, frame, readPc, disturbed, inbox>>

SendTask == SealStarts \/ SealEnds

Next == UNCHANGED mode /\ (ReadTask \/ SendTask)

Spec == Init /\ [][Next]_vars
-----------------------------------------------------------------------------
(* Properties.                                                             *)

\* Nothing is sealed without a key (aes_ready is never looked at), nor under one that
\* is not the key of the client whose handshake was accepted and who knows the
\* passphrase, whatever failed and whoever tried before.
KeyAgreed == \A i \in DOMAIN sealed : sealed[i] = agreed /\ agreed \in Trusted

\* The application is given messages of that client only, in order and none twice,
\* even while the two tasks disturb each other; what cannot be opened is empty.
OnlyGenuine ==
    /\ \A i \in DOMAIN inbox : inbox[i].n # 0 => inbox[i].from = agreed
    /\ \A i, j \in DOMAIN inbox : i < j /\ inbox[j].n # 0 => inbox[i].n < inbox[j].n
=============================================================================
