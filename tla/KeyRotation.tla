---------------------------- MODULE KeyRotation ----------------------------
(***************************************************************************)
(* Moving stored application credentials to a new encryption key           *)
(* (core/key_rotation.py, core/encryption.py) while the API creates and    *)
(* deletes applications and replaces their credentials.                    *)
(*                                                                         *)
(* The new key is deployed everywhere, with the old one for decryption     *)
(* only.  The operator then runs passes over the applications: a dry run   *)
(* reports, an apply run rewrites.  A pass pages through the table by      *)
(* offset, decides on the envelopes a page was read with, and rewrites one *)
(* row per transaction.  After a dry run with nothing left to rewrite the  *)
(* operator removes the old key.                                           *)
(*                                                                         *)
(* An envelope is the version of its format, the key that sealed it and    *)
(* the secret inside; nonces and tags are left out.                        *)
(***************************************************************************)
EXTENDS Integers, FiniteSets

CONSTANTS
    NumApps,     \* bound: applications ever created
    Initial,     \* how many of them exist when the new key is deployed
    BatchSize,   \* rows of a page
    MaxSecrets,  \* bound: credentials ever set for one application
    MaxCrashes   \* bound: passes that die

\* Applications in the order of (created_at, id).
Apps == 1..NumApps

ASSUME RotationAssumption ==
    /\ NumApps \in Nat /\ Initial \in 0..NumApps
    /\ BatchSize \in Nat \ {0}
    /\ MaxSecrets \in Nat \ {0}
    /\ MaxCrashes \in Nat

VARIABLES
    born,      \* applications created so far
    live,      \* the ones that exist
    envelope,  \* their encrypted_secret
    latest,    \* the secret last set for each application (0: none)
    ring,      \* keys of the deployed keyring
    mode,      \* what the running pass is: "apply", "dry", or "idle" if none runs
    offset,    \* rows before the next page
    page,      \* applications of the page not examined yet
    read,      \* the envelopes the page was read with
    loaded,    \* the pass has loaded its row and not committed
    found,     \* the pass met a row to rewrite
    verified,  \* the last pass was a dry run that found none
    missed,    \* history: rows that the last pass before the removal never reads
    crashes    \* passes that died

store == <<born, live, envelope, latest>>
pass  == <<mode, offset, page, read, loaded, found>>
vars  == <<store, ring, pass, verified, missed, crashes>>

NoSecret == [version |-> "none", key |-> "none", secret |-> 0]
Garbage  == -1

\* encrypt always uses the current key and the current version.
Encrypt(secret) == [version |-> "v2", key |-> "new", secret |-> secret]

\* is_current_envelope.
AnyCurrentVersion(e) == e.version = "v2"
Current(e) == e.version = "v2" /\ e.key = "new"

\* decrypt: v2 looks its key up in the ring, v1 tries the whole ring.
Decryptable(e) == e.key \in ring
PlaintextUnchecked(e) == IF e.version = "v1" /\ e.key # "new" THEN Garbage ELSE e.secret
Plaintext(e) == e.secret

\* Envelopes stored before: of both versions, under both keys (the rotation may
\* have been started before), or under a key that was lost.
Stored == {NoSecret} \cup [version : {"v1", "v2"}, key : {"old", "new", "lost"}, secret : {1}]

Init ==
    /\ born = Initial /\ live = 1..Initial
    /\ envelope \in {f \in [Apps -> Stored] : \A a \in Apps \ live : f[a] = NoSecret}
    /\ latest = [a \in Apps |-> envelope[a].secret]
    /\ ring = {"old", "new"}
    /\ mode = "idle" /\ offset = 0 /\ page = {} /\ read = [a \in Apps |-> NoSecret]
    /\ loaded = FALSE /\ found = FALSE
    /\ verified = FALSE /\ missed = {} /\ crashes = 0

-----------------------------------------------------------------------------
(* The API.                                                                *)

\* create_application, with or without a credential.
Create ==
    /\ born < NumApps
    /\ born' = born + 1 /\ live' = live \cup {born'}
    /\ \E secret \in {0, 1} :
          /\ latest' = [latest EXCEPT ![born'] = secret]
          /\ envelope' = [envelope EXCEPT ![born'] =
                             IF secret = 0 THEN NoSecret ELSE Encrypt(secret)]
    /\ UNCHANGED <<ring, pass, verified, missed, crashes>>

\* rotate_application_secret replaces the envelope, whatever it is.
SetSecret(a) ==
    /\ a \in live /\ latest[a] < MaxSecrets
    /\ latest' = [latest EXCEPT ![a] = @ + 1]
    /\ envelope' = [envelope EXCEPT ![a] = Encrypt(latest'[a])]
    /\ UNCHANGED <<born, live, ring, pass, verified, missed, crashes>>

\* Rows by (created_at, id), as a pass counts them off.
Position(a) == Cardinality({b \in live : b <= a})

\* The row in front of which the next page begins slips into those read
\* already when one before it is deleted.
Slipping(a) == {b \in live : a < b /\ Position(b) = offset + 1}

\* delete_application, of one without runs.
Delete(a) ==
    /\ a \in live
    /\ live' = live \ {a}
    /\ missed' = IF mode # "idle" /\ "old" \in ring THEN missed \cup Slipping(a) ELSE missed
    /\ UNCHANGED <<born, envelope, latest, ring, pass, verified, crashes>>

-----------------------------------------------------------------------------
(* A pass: reencrypt_application_secrets.                                  *)

StartPass(m) ==
    /\ mode = "idle"
    /\ mode' = m /\ offset' = 0 /\ found' = FALSE /\ verified' = FALSE
    /\ missed' = IF "old" \in ring THEN {} ELSE missed
    /\ UNCHANGED <<store, ring, page, read, loaded, crashes>>

\* ORDER BY created_at, id OFFSET offset LIMIT batch_size.
NextRows == {a \in live : Position(a) \in offset + 1 .. offset + BatchSize}

ReadPage ==
    /\ mode # "idle" /\ page = {} /\ NextRows # {}
    /\ page' = NextRows
    /\ read' = [a \in Apps |-> IF a \in NextRows THEN envelope[a] ELSE NoSecret]
    /\ offset' = offset + BatchSize
    /\ UNCHANGED <<store, ring, mode, loaded, found, verified, missed, crashes>>

\* No rows on the next page: the report is complete.
Finish ==
    /\ mode # "idle" /\ page = {} /\ NextRows = {}
    /\ mode' = "idle"
    /\ verified' = (mode = "dry" /\ ~found)
    /\ UNCHANGED <<store, ring, offset, page, read, loaded, found, missed, crashes>>

\* The next row of the page.
IsNext(a) == a \in page /\ \A b \in page : a <= b

\* A row to rewrite, as its page was read.
Candidate(a) == read[a] # NoSecret /\ ~Current(read[a]) /\ Decryptable(read[a])

SkipOrAbort(a) ==
    /\ mode # "idle" /\ IsNext(a) /\ ~Candidate(a)
    /\ IF read[a] = NoSecret \/ Current(read[a])
       THEN page' = page \ {a} /\ UNCHANGED mode
       ELSE page' = {} /\ mode' = "idle"
    /\ UNCHANGED <<store, ring, offset, read, loaded, found, verified, missed, crashes>>

\* No secret, on the current key already, or undecryptable (reported).
Skip(a) ==
    /\ mode # "idle" /\ IsNext(a) /\ ~Candidate(a)
    /\ page' = page \ {a}
    /\ UNCHANGED <<store, ring, mode, offset, read, loaded, found, verified, missed, crashes>>

\* A dry run counts the row and goes on.
Report(a) ==
    /\ mode = "dry" /\ IsNext(a) /\ Candidate(a)
    /\ page' = page \ {a} /\ found' = TRUE
    /\ UNCHANGED <<store, ring, mode, offset, read, loaded, verified, missed, crashes>>

\* session.get: the row may be gone.
Load(a) ==
    /\ mode = "apply" /\ IsNext(a) /\ Candidate(a) /\ ~loaded
    /\ IF a \in live THEN loaded' = TRUE /\ UNCHANGED page
                     ELSE page' = page \ {a} /\ UNCHANGED loaded
    /\ UNCHANGED <<store, ring, mode, offset, read, found, verified, missed, crashes>>

\* The UPDATE by primary key and its commit; one that matches no row raises,
\* and the pass is over.
Write(a) ==
    /\ mode = "apply" /\ IsNext(a) /\ loaded
    /\ loaded' = FALSE
    /\ IF a \in live
       THEN /\ envelope' = [envelope EXCEPT ![a] = Encrypt(Plaintext(read[a]))]
            /\ page' = page \ {a} /\ found' = TRUE
            /\ UNCHANGED mode
       ELSE mode' = "idle" /\ page' = {} /\ UNCHANGED <<envelope, found>>
    /\ UNCHANGED <<born, live, latest, ring, offset, read, verified, missed, crashes>>

\* The process dies, or loses its connection: every committed row stays.
Crash ==
    /\ mode # "idle" /\ crashes < MaxCrashes
    /\ mode' = "idle" /\ page' = {} /\ loaded' = FALSE
    /\ crashes' = crashes + 1
    /\ UNCHANGED <<store, ring, offset, read, found, verified, missed>>

\* The operator removes the old key after a dry run that found nothing.
DropOldKey ==
    /\ verified /\ mode = "idle"
    /\ ring' = {"new"}
    /\ UNCHANGED <<store, pass, verified, missed, crashes>>

-----------------------------------------------------------------------------
PassStep ==
    \/ ReadPage \/ Finish
    \/ \E a \in Apps : Skip(a) \/ Report(a) \/ Load(a) \/ Write(a)

Next ==
    \/ Create \/ \E a \in Apps : SetSecret(a) \/ Delete(a)
    \/ StartPass("apply") \/ StartPass("dry") \/ PassStep \/ Crash \/ DropOldKey

Spec == Init /\ [][Next]_vars

\* The operator keeps running passes, a pass that runs goes on, and the key is
\* removed when that may be done.
Fairness ==
    /\ SF_vars(StartPass("apply")) /\ SF_vars(StartPass("dry"))
    /\ WF_vars(PassStep) /\ SF_vars(DropOldKey)

FairSpec == Spec /\ Fairness

-----------------------------------------------------------------------------
Envelopes == {NoSecret} \cup
    [version : {"v1", "v2"}, key : {"old", "new", "lost"}, secret : 1..MaxSecrets]

TypeOK ==
    /\ born \in 0..NumApps /\ live \subseteq 1..born
    /\ envelope \in [Apps -> Envelopes]
    /\ latest \in [Apps -> 0..MaxSecrets]
    /\ ring \in SUBSET {"old", "new"}
    /\ mode \in {"idle", "apply", "dry"}
    /\ offset \in Nat
    /\ page \subseteq Apps
    /\ read \in [Apps -> Envelopes]
    /\ missed \subseteq Apps
    /\ loaded \in BOOLEAN /\ found \in BOOLEAN /\ verified \in BOOLEAN
    /\ crashes \in 0..MaxCrashes

\* What a credential needs to be found under its key at all.
Sealed(e) == e # NoSecret /\ e.key # "lost"

\* key_rotation.py: the operator verifies (dry-run reports zero remaining) and
\* removes the old key.  That is not always safe: a deletion during the dry run
\* may let a row slip by.  But it is the only way to lose a credential with the
\* key, whatever else is created, rewritten, deleted or dies meanwhile.
OnlyMissedAreLost ==
    \A a \in live \ missed : Sealed(envelope[a]) => Decryptable(envelope[a])

\* Re-encryption preserves the secret of every row that waits for it: what a
\* pass may overwrite with something else is only a row that a request has
\* moved to the current key behind its back.
PlaintextPreserved ==
    [][\A a \in live :
          /\ envelope'[a].secret # envelope[a].secret
          /\ latest' = latest
          => Current(envelope[a])]_vars

\* key_rotation.py: rows already on the current key are never touched, so the
\* stored credential is the one last set.
LastSecretKept == \A a \in live : envelope[a].secret = latest[a]

\* Idempotent and resumable: passes that die or race are made up for by later
\* ones, the old key can be removed, and every credential it was not removed
\* under ends on the new one.
Converges ==
    <>[](/\ ring = {"new"}
         /\ \A a \in live : Sealed(envelope[a]) =>
                Current(envelope[a]) \/ (a \in missed /\ ~Decryptable(envelope[a])))

=============================================================================
