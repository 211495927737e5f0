----------------------------- MODULE Certificate -----------------------------
(***************************************************************************)
(* The TLS certificate manager under hot reload.  A deployment replaces    *)
(* the certificate file and the key file one after the other, in either    *)
(* order; reloaders read the two files, one after the other, and rotate    *)
(* what they have read into the manager; TLS handshakes read the manager   *)
(* at any moment.  A certificate is a generation: its own key and          *)
(* intermediates carry the same number, and it is valid for a span of the  *)
(* clock.  0 stands for none.                                              *)
(***************************************************************************)
EXTENDS Integers, FiniteSets

CONSTANTS
    Reloaders,
    MaxGen, MaxClock,
    Lifetime(_)        \* generation -> the clock values at which it is valid

VARIABLES
    day,        \* the clock
    files,      \* [cert, key: generations on disk, safe: the key file's mode]
    manager,    \* [cert, key, chain]
    reloader, pair,  \* reloader -> control, and the [cert, key] it has read
    served      \* history: what the last handshake got

certVars == <<day, files, manager, reloader, pair, served>>

none == [cert |-> 0, key |-> 0, chain |-> 0]

CertificateInit ==
    /\ day = 0 /\ files = [cert |-> 1, key |-> 1, safe |-> TRUE]
    /\ manager = none
    /\ reloader = [r \in Reloaders |-> "idle"]
    /\ pair = [r \in Reloaders |-> [cert |-> 0, key |-> 0]]
    /\ served = none

ClockTick ==
    /\ day < MaxClock /\ day' = day + 1
    /\ UNCHANGED <<files, manager, reloader, pair, served>>

(* The deployment: one file at a time, the next pair when this one is out. *)
writesCert ==
    /\ files.cert < MaxGen /\ files.cert <= files.key
    /\ files' = [files EXCEPT !.cert = @ + 1]
    /\ UNCHANGED <<day, manager, reloader, pair, served>>
writesKey ==
    /\ files.key < MaxGen /\ files.key <= files.cert
    /\ \E s \in BOOLEAN : files' = [files EXCEPT !.key = @ + 1, !.safe = s]
    /\ UNCHANGED <<day, manager, reloader, pair, served>>
fixesMode ==
    /\ ~files.safe /\ files' = [files EXCEPT !.safe = TRUE]
    /\ UNCHANGED <<day, manager, reloader, pair, served>>

-----------------------------------------------------------------------------
(* Mutant: certificate and key are trusted to belong together.             *)
trustedMatch(c, k) == TRUE

publicKeysMatch(c, k) == c = k

(* parseCertPEM: the leaf must be within its lifetime when it is read.     *)
parseCertPEM(r) ==
    /\ reloader[r] = "idle"
    /\ IF day \in Lifetime(files.cert)
         THEN /\ reloader' = [reloader EXCEPT ![r] = "cert"]
              /\ pair' = [pair EXCEPT ![r].cert = files.cert]
         ELSE UNCHANGED <<reloader, pair>>
    /\ UNCHANGED <<day, files, manager, served>>

(* parseKeyFile: the mode is looked at before the file is read ...         *)
statKeyFile(r) ==
    /\ reloader[r] = "cert"
    /\ reloader' = [reloader EXCEPT ![r] = IF files.safe THEN "key" ELSE "idle"]
    /\ UNCHANGED <<day, files, manager, pair, served>>

(* ... and loadFromFiles compares the pair.                                *)
loadFromFiles(r) ==
    /\ reloader[r] = "key"
    /\ IF publicKeysMatch(pair[r].cert, files.key)
         THEN reloader' = [reloader EXCEPT ![r] = "loaded"] /\ pair' = [pair EXCEPT ![r].key = files.key]
         ELSE reloader' = [reloader EXCEPT ![r] = "idle"] /\ UNCHANGED pair
    /\ UNCHANGED <<day, files, manager, served>>

installs(r) == manager' = [cert |-> pair[r].cert, key |-> pair[r].key, chain |-> pair[r].cert]

(* NewManager: the first load is installed before anyone else sees it.     *)
NewManager(r) ==
    /\ reloader[r] = "loaded" /\ manager = none
    /\ installs(r) /\ reloader' = [reloader EXCEPT ![r] = "idle"]
    /\ UNCHANGED <<day, files, pair, served>>

(* Rotate checks lifetime and pair again: the files were read a while ago. *)
Rotate(r) ==
    /\ reloader[r] = "loaded" /\ manager # none
    /\ IF day \in Lifetime(pair[r].cert) /\ publicKeysMatch(pair[r].cert, pair[r].key)
         THEN installs(r) ELSE UNCHANGED manager
    /\ reloader' = [reloader EXCEPT ![r] = "idle"]
    /\ UNCHANGED <<day, files, pair, served>>

(* A handshake: TLSCertificate under the read lock.                        *)
TLSCertificate ==
    /\ manager # none /\ served' = manager
    /\ UNCHANGED <<day, files, manager, reloader, pair>>

CertificateNext ==
    \/ ClockTick \/ writesCert \/ writesKey \/ fixesMode \/ TLSCertificate
    \/ \E r \in Reloaders :
         parseCertPEM(r) \/ statKeyFile(r) \/ loadFromFiles(r) \/ NewManager(r) \/ Rotate(r)

CertificateSpec == CertificateInit /\ [][CertificateNext]_certVars

-----------------------------------------------------------------------------
(* However file replacement, loading and rotation interleave, a handshake  *)
(* gets a leaf, a chain and a key of one generation, one whose lifetime    *)
(* has begun.                                                              *)
CertificateSound == \A m \in {manager, served} : m # none =>
    /\ m.cert = m.key /\ m.chain = m.cert
    /\ \E t \in 0 .. day : t \in Lifetime(m.cert)
=============================================================================
