------------------------- MODULE KeyRotationProofs -------------------------
(***************************************************************************)
(* Theorems about module KeyRotation, for any number of applications, page *)
(* size, number of requests and of passes that die.                        *)
(***************************************************************************)
EXTENDS KeyRotation, FiniteSetTheorems, WellFoundedInduction, TLAPS

-----------------------------------------------------------------------------
(* Envelopes.                                                              *)

\* What encrypt returns.
LEMMA EncryptFacts ==
    ASSUME NEW secret \in 1..MaxSecrets
    PROVE  /\ Encrypt(secret) \in Envelopes
           /\ Current(Encrypt(secret))
           /\ Encrypt(secret).secret = secret
           /\ Encrypt(secret).key = "new"
           /\ Encrypt(secret) # NoSecret
BY DEF Encrypt, Envelopes, Current, NoSecret

\* A stored envelope has a secret that was set.
LEMMA EnvelopeSecret ==
    ASSUME NEW e \in Envelopes, e # NoSecret
    PROVE  e.secret \in 1..MaxSecrets
BY DEF Envelopes

\* The row a pass has loaded is the next one, and one to rewrite.
LoadedRow ==
    loaded => /\ mode = "apply" /\ page # {}
              /\ \A a \in Apps : IsNext(a) => Candidate(a)

BasicInv == TypeOK /\ LoadedRow /\ page \subseteq 1..born

\* Write rewrites the row with the secret it was read with.
LEMMA WriteSecret ==
    ASSUME BasicInv, NEW a \in Apps, Write(a)
    PROVE  read[a].secret \in 1..MaxSecrets
<1>1. Candidate(a)
    BY DEF BasicInv, LoadedRow, Write
<1> QED BY <1>1, EnvelopeSecret DEF BasicInv, TypeOK, Candidate

-----------------------------------------------------------------------------
(* Type correctness.                                                       *)

LEMMA BasicStep == BasicInv /\ [Next]_vars => BasicInv'
<1> SUFFICES ASSUME BasicInv, [Next]_vars PROVE BasicInv'
    OBVIOUS
<1> USE DEF BasicInv, TypeOK, store, pass
<1>0. NumApps \in Nat /\ MaxSecrets \in Nat /\ BatchSize \in Nat /\ MaxCrashes \in Nat
      /\ 1 \in 1..MaxSecrets
    BY RotationAssumption
<1>1. CASE Create
    <2>1. PICK secret \in {0, 1} :
             /\ latest' = [latest EXCEPT ![born'] = secret]
             /\ envelope' = [envelope EXCEPT ![born'] =
                                IF secret = 0 THEN NoSecret ELSE Encrypt(secret)]
        BY <1>1 DEF Create
    <2>2. born' \in 1..NumApps /\ live' \subseteq 1..born' /\ page \subseteq 1..born'
        BY <1>0, <1>1 DEF Create
    <2>3. (IF secret = 0 THEN NoSecret ELSE Encrypt(secret)) \in Envelopes
        BY <1>0, EncryptFacts DEF Envelopes
    <2>4. envelope' \in [Apps -> Envelopes]
        BY <2>1, <2>3
    <2>5. latest' \in [Apps -> 0..MaxSecrets]
        <3>1. secret \in 0..MaxSecrets
            BY <1>0
        <3> QED BY <2>1, <3>1
    <2>6. LoadedRow'
        BY <1>1 DEF Create, LoadedRow, IsNext, Candidate, Decryptable
    <2> QED BY <1>1, <2>2, <2>4, <2>5, <2>6 DEF Create
<1>2. ASSUME NEW a \in Apps, SetSecret(a) PROVE BasicInv'
    <2>1. latest[a] + 1 \in 1..MaxSecrets
        BY <1>0, <1>2 DEF SetSecret
    <2>2. latest' = [latest EXCEPT ![a] = latest[a] + 1] /\ latest'[a] = latest[a] + 1
        BY <1>2 DEF SetSecret
    <2>3. latest' \in [Apps -> 0..MaxSecrets]
        BY <1>0, <2>1, <2>2
    <2>4. envelope' = [envelope EXCEPT ![a] = Encrypt(latest[a] + 1)]
        BY <1>2, <2>2 DEF SetSecret
    <2>5. envelope' \in [Apps -> Envelopes]
        BY <2>1, <2>4, EncryptFacts
    <2>6. LoadedRow'
        BY <1>2 DEF SetSecret, LoadedRow, IsNext, Candidate, Decryptable
    <2> QED BY <1>2, <2>3, <2>5, <2>6 DEF SetSecret
<1>3. ASSUME NEW a \in Apps, Delete(a) PROVE BasicInv'
    <2>1. LoadedRow'
        BY <1>3 DEF Delete, LoadedRow, IsNext, Candidate, Decryptable
    <2>2. Slipping(a) \subseteq live /\ live \subseteq 1..born /\ 1..born \subseteq Apps
        BY <1>0 DEF Slipping, Apps
    <2>3. missed' \subseteq Apps
        BY <1>3, <2>2 DEF Delete
    <2> QED BY <1>3, <2>1, <2>3 DEF Delete
<1>4. ASSUME NEW m \in {"apply", "dry"}, StartPass(m) PROVE BasicInv'
    <2>1. LoadedRow'
        BY <1>4 DEF StartPass, LoadedRow
    <2> QED BY <1>4, <2>1 DEF StartPass
<1>5. CASE ReadPage
    <2>1. LoadedRow'
        BY <1>5 DEF ReadPage, LoadedRow
    <2>2. page' \subseteq live /\ live \subseteq 1..born /\ born \in 0..NumApps
        BY <1>5 DEF ReadPage, NextRows
    <2>3. page' \subseteq 1..born /\ page' \subseteq Apps
        BY <1>0, <2>2 DEF Apps
    <2>4. read' \in [Apps -> Envelopes]
        BY <1>5 DEF ReadPage, Envelopes
    <2> QED BY <1>0, <1>5, <2>1, <2>3, <2>4 DEF ReadPage
<1>6. CASE Finish
    <2>1. LoadedRow'
        BY <1>6 DEF Finish, LoadedRow
    <2> QED BY <1>6, <2>1 DEF Finish
<1>7. ASSUME NEW a \in Apps, Skip(a) PROVE BasicInv'
    <2>1. LoadedRow'
        BY <1>7 DEF Skip, LoadedRow
    <2> QED BY <1>7, <2>1 DEF Skip
<1>8. ASSUME NEW a \in Apps, Report(a) PROVE BasicInv'
    <2>1. LoadedRow'
        BY <1>8 DEF Report, LoadedRow
    <2> QED BY <1>8, <2>1 DEF Report
<1>9. ASSUME NEW a \in Apps, Load(a) PROVE BasicInv'
    <2>1. CASE a \in live
        <3>1. \A b \in Apps : IsNext(b) => b = a
            BY <1>0, <1>9 DEF Load, IsNext, Apps
        <3>2. LoadedRow'
            BY <1>9, <2>1, <3>1 DEF Load, LoadedRow, IsNext, Candidate, Decryptable
        <3> QED BY <1>9, <2>1, <3>2 DEF Load
    <2>2. CASE a \notin live
        <3>1. LoadedRow'
            BY <1>9, <2>2 DEF Load, LoadedRow
        <3> QED BY <1>9, <2>2, <3>1 DEF Load
    <2> QED BY <2>1, <2>2
<1>10. ASSUME NEW a \in Apps, Write(a) PROVE BasicInv'
    <2>1. LoadedRow'
        BY <1>10 DEF Write, LoadedRow
    <2>2. Encrypt(Plaintext(read[a])) \in Envelopes
        BY <1>10, WriteSecret, EncryptFacts DEF Plaintext
    <2>3. envelope' \in [Apps -> Envelopes]
        BY <1>10, <2>2 DEF Write
    <2> QED BY <1>10, <2>1, <2>3 DEF Write
<1>11. CASE Crash
    <2>1. LoadedRow'
        BY <1>11 DEF Crash, LoadedRow
    <2>2. crashes' \in 0..MaxCrashes
        BY <1>0, <1>11 DEF Crash
    <2> QED BY <1>11, <2>1, <2>2 DEF Crash
<1>12. CASE DropOldKey
    <2>1. LoadedRow'
        BY <1>12 DEF DropOldKey, LoadedRow
    <2> QED BY <1>12, <2>1 DEF DropOldKey
<1>13. CASE UNCHANGED vars
    <2>1. LoadedRow'
        BY <1>13 DEF vars, LoadedRow, IsNext, Candidate, Decryptable
    <2> QED BY <1>13, <2>1 DEF vars
<1> QED BY <1>1, <1>2, <1>3, <1>4, <1>5, <1>6, <1>7, <1>8, <1>9, <1>10, <1>11, <1>12, <1>13
        DEF Next, PassStep

LEMMA BasicInit == Init => BasicInv
<1> SUFFICES ASSUME Init PROVE BasicInv
    OBVIOUS
<1>0. NumApps \in Nat /\ Initial \in 0..NumApps /\ MaxSecrets \in Nat /\ 1 \in 1..MaxSecrets
      /\ MaxCrashes \in Nat
    BY RotationAssumption
<1>1. Stored \subseteq Envelopes
    BY <1>0 DEF Stored, Envelopes
<1>2. envelope \in [Apps -> Stored]
    BY DEF Init
<1>3. envelope \in [Apps -> Envelopes]
    BY <1>1, <1>2
<1>4. \A a \in Apps : envelope[a].secret \in {0, 1}
    BY <1>2 DEF Stored, NoSecret
<1>5. latest \in [Apps -> 0..MaxSecrets]
    BY <1>0, <1>4 DEF Init
<1>6. born \in 0..NumApps /\ live \subseteq 1..born /\ page \subseteq Apps /\ page \subseteq 1..born
    BY <1>0 DEF Init
<1>7. crashes \in 0..MaxCrashes /\ offset \in Nat /\ ring \in SUBSET {"old", "new"}
    BY <1>0 DEF Init
<1>8. mode \in {"idle", "apply", "dry"} /\ loaded = FALSE /\ found = FALSE /\ verified = FALSE
      /\ read \in [Apps -> Envelopes] /\ missed \subseteq Apps
    BY <1>3 DEF Init, Envelopes
<1> QED BY <1>3, <1>5, <1>6, <1>7, <1>8 DEF BasicInv, TypeOK, LoadedRow

\* Every variable keeps its type.
THEOREM RotationTypeCorrect == Spec => []TypeOK
<1>1. BasicInv => TypeOK
    BY DEF BasicInv
<1> QED BY <1>1, BasicInit, BasicStep, PTL DEF Spec

-----------------------------------------------------------------------------
(* What a pass read of a row is what the row holds, or a request has moved *)
(* the row to the current key since.                                       *)

Snapshot == \A a \in page \cap live : Current(envelope[a]) \/ envelope[a] = read[a]

LEMMA SnapshotStep == BasicInv /\ Snapshot /\ [Next]_vars => Snapshot'
<1> SUFFICES ASSUME BasicInv, Snapshot, [Next]_vars, NEW x \in page' \cap live'
             PROVE  Current(envelope'[x]) \/ envelope'[x] = read'[x]
    BY DEF Snapshot, Current
<1> USE DEF store, pass
<1>0. envelope \in [Apps -> Envelopes] /\ latest \in [Apps -> 0..MaxSecrets] /\ page \subseteq 1..born
      /\ page \subseteq Apps /\ born \in 0..NumApps /\ live \subseteq 1..born /\ 1..born \subseteq Apps
    BY RotationAssumption DEF BasicInv, TypeOK, Apps
<1>1. CASE Create
    <2>1. x \in page /\ x # born' /\ x \in live
        BY <1>0, <1>1 DEF Create
    <2>2. envelope'[x] = envelope[x] /\ read' = read
        BY <1>0, <1>1, <2>1 DEF Create
    <2> QED BY <2>1, <2>2 DEF Snapshot
<1>2. ASSUME NEW a \in Apps, SetSecret(a) PROVE Current(envelope'[x]) \/ envelope'[x] = read'[x]
    <2>1. x \in page /\ x \in live /\ read' = read
        BY <1>2 DEF SetSecret
    <2>2. CASE x = a
        BY <1>0, <1>2, <2>2 DEF SetSecret, Encrypt, Current
    <2>3. CASE x # a
        BY <1>0, <1>2, <2>1, <2>3 DEF SetSecret, Snapshot
    <2> QED BY <2>2, <2>3
<1>3. ASSUME NEW a \in Apps, Write(a) PROVE Current(envelope'[x]) \/ envelope'[x] = read'[x]
    <2>1. x \in page /\ x \in live /\ x # a /\ read' = read
        BY <1>3 DEF Write
    <2>2. envelope'[x] = envelope[x]
        BY <1>0, <1>3, <2>1 DEF Write
    <2> QED BY <2>1, <2>2 DEF Snapshot
<1>4. CASE ReadPage
    BY <1>0, <1>4 DEF ReadPage
<1>5. CASE \/ Finish \/ Crash \/ DropOldKey \/ UNCHANGED vars
           \/ \E m \in {"apply", "dry"} : StartPass(m)
           \/ \E a \in Apps : Delete(a) \/ Skip(a) \/ Report(a) \/ Load(a)
    <2>1. envelope' = envelope /\ read' = read /\ page' \subseteq page /\ live' \subseteq live
        BY <1>5 DEF Finish, Crash, DropOldKey, vars, StartPass, Delete, Skip, Report, Load
    <2> QED BY <2>1 DEF Snapshot
<1> QED BY <1>1, <1>2, <1>3, <1>4, <1>5 DEF Next, PassStep

\* A pass hands on the secret of every row that still waits for it; only the
\* secret of a row that is on the current key already can be overwritten.
THEOREM PlaintextPreservedHolds == Spec => PlaintextPreserved
<1>1. Init => Snapshot
    BY DEF Init, Snapshot
<1>2. BasicInv /\ Snapshot /\ [Next]_vars =>
          [\A a \in live :
              /\ envelope'[a].secret # envelope[a].secret
              /\ latest' = latest
              => Current(envelope[a])]_vars
    <2> SUFFICES ASSUME BasicInv, Snapshot, Next, NEW a \in live,
                        envelope'[a].secret # envelope[a].secret, latest' = latest
                 PROVE  Current(envelope[a])
        OBVIOUS
    <2> USE DEF store, pass
    <2>0. envelope \in [Apps -> Envelopes] /\ latest \in [Apps -> 0..MaxSecrets]
          /\ born \in 0..NumApps /\ live \subseteq 1..born /\ a \in Apps
        BY RotationAssumption DEF BasicInv, TypeOK, Apps
    <2>1. CASE Create
        <3>1. a # born'
            BY <2>0, <2>1 DEF Create
        <3> QED BY <2>0, <2>1, <3>1 DEF Create
    <2>2. ASSUME NEW b \in Apps, SetSecret(b) PROVE FALSE
        <3>1. latest'[b] = latest[b] + 1 /\ latest[b] \in Int
            BY <2>0, <2>2 DEF SetSecret
        <3> QED BY <3>1
    <2>3. ASSUME NEW b \in Apps, Write(b) PROVE Current(envelope[a])
        <3>1. a = b /\ a \in page /\ envelope'[a] = Encrypt(Plaintext(read[a]))
            BY <2>0, <2>3 DEF Write, IsNext
        <3>2. envelope'[a].secret = read[a].secret
            BY <3>1 DEF Encrypt, Plaintext
        <3> QED BY <3>1, <3>2 DEF Snapshot
    <2>4. CASE envelope' = envelope
        BY <2>4
    <2> QED BY <2>1, <2>2, <2>3, <2>4
            DEF Next, PassStep, Delete, StartPass, ReadPage, Finish, Skip, Report, Load, Crash,
                DropOldKey
<1> QED BY <1>1, <1>2, BasicInit, BasicStep, SnapshotStep, PTL DEF Spec, PlaintextPreserved

-----------------------------------------------------------------------------
(* Removing the old key.                                                   *)

Old(e) == e # NoSecret /\ e.key = "old"

\* A dry run that has found nothing has every old envelope still before it,
\* but for those that slipped by.
Scanned ==
    mode = "dry" /\ ~found =>
        \A a \in live \ missed :
            Old(envelope[a]) => Position(a) > offset \/ (a \in page /\ Old(read[a]))

\* Nothing is left under the old key but what slipped by.
NothingOld == \A a \in live \ missed : ~Old(envelope[a])

DropInv ==
    /\ Scanned
    /\ verified => NothingOld /\ mode = "idle"
    /\ "new" \in ring /\ ("old" \in ring \/ NothingOld)

\* An envelope that is rewritten or created is not under the old key.
LEMMA OldShrinks ==
    ASSUME BasicInv, [Next]_vars, NEW a \in Apps, Old(envelope'[a])
    PROVE  envelope'[a] = envelope[a]
<1>0. envelope \in [Apps -> Envelopes] /\ NoSecret.key # "old"
    BY DEF BasicInv, TypeOK, NoSecret
<1> USE DEF store, pass
<1>1. CASE Create
    BY <1>0, <1>1 DEF Create, Encrypt, Old
<1>2. ASSUME NEW b \in Apps, SetSecret(b) PROVE envelope'[a] = envelope[a]
    BY <1>0, <1>2 DEF SetSecret, Encrypt, Old
<1>3. ASSUME NEW b \in Apps, Write(b) PROVE envelope'[a] = envelope[a]
    BY <1>0, <1>3 DEF Write, Encrypt, Old
<1>4. CASE envelope' = envelope
    BY <1>4
<1> QED BY <1>1, <1>2, <1>3, <1>4
        DEF Next, PassStep, Delete, StartPass, ReadPage, Finish, Skip, Report, Load, Crash,
            DropOldKey, vars

\* An application that comes to exist holds nothing under the old key.
LEMMA LiveStep ==
    ASSUME BasicInv, [Next]_vars, NEW a \in live', Old(envelope'[a])
    PROVE  a \in live
<1>0. envelope \in [Apps -> Envelopes] /\ NoSecret.key # "old" /\ live \subseteq Apps
    BY RotationAssumption DEF BasicInv, TypeOK, NoSecret, Apps
<1> USE DEF store, pass
<1>1. CASE Create
    <2>1. a \in live \/ a = born'
        BY <1>1 DEF Create
    <2>2. born' \in Apps
        BY <1>1, RotationAssumption DEF Create, BasicInv, TypeOK, Apps
    <2>3. a # born'
        BY <1>0, <1>1, <2>2 DEF Create, Encrypt, Old
    <2> QED BY <2>1, <2>3
<1>2. CASE live' \subseteq live
    BY <1>2
<1> QED BY <1>1, <1>2
        DEF Next, PassStep, SetSecret, Delete, StartPass, ReadPage, Finish, Skip, Report, Load,
            Write, Crash, DropOldKey, vars

\* What is missed stays missed, until another pass begins with both keys.
LEMMA MissedStep ==
    ASSUME [Next]_vars, "old" \notin ring \/ mode = "idle",
           "old" \in ring => \A m \in {"apply", "dry"} : ~StartPass(m)
    PROVE  missed' = missed
BY DEF Next, PassStep, Create, SetSecret, Delete, StartPass, ReadPage, Finish, Skip, Report, Load,
       Write, Crash, DropOldKey, vars, store, pass

LEMMA NothingOldStep ==
    ASSUME BasicInv, NothingOld, [Next]_vars, missed \subseteq missed'
    PROVE  NothingOld'
<1> SUFFICES ASSUME NEW a \in live', a \notin missed', Old(envelope'[a])
             PROVE  FALSE
    BY DEF NothingOld, Old
<1>1. a \in live
    BY LiveStep
<1>2. a \in Apps
    BY <1>1, RotationAssumption DEF BasicInv, TypeOK, Apps
<1>3. envelope'[a] = envelope[a]
    BY <1>2, OldShrinks
<1> QED BY <1>1, <1>3 DEF NothingOld

\* Rows to rewrite are candidates as long as the old key is there.
LEMMA OldIsCandidate ==
    ASSUME "old" \in ring, NEW a, Old(read[a])
    PROVE  Candidate(a)
BY DEF Old, Candidate, Current, Decryptable

\* Rows in front of a row are finitely many, itself among them.
LEMMA PositionFacts ==
    ASSUME TypeOK, NEW a \in live
    PROVE  /\ IsFiniteSet({b \in live : b <= a})
           /\ Position(a) \in Nat \ {0}
<1>1. IsFiniteSet(live)
    <2>1. IsFiniteSet(1..born) /\ live \subseteq 1..born
        BY RotationAssumption, FS_Interval DEF TypeOK
    <2> QED BY <2>1, FS_Subset
<1>2. IsFiniteSet({b \in live : b <= a})
    BY <1>1, FS_Subset
<1>3. a \in {b \in live : b <= a}
    BY RotationAssumption DEF TypeOK
<1> QED BY <1>2, <1>3, FS_CardinalityType, FS_EmptySet DEF Position

\* A deletion moves the rows behind it one forward, and no other.
LEMMA DeleteShifts ==
    ASSUME TypeOK, NEW d \in live, live' = live \ {d}, NEW a \in live, a # d
    PROVE  Position(a)' = IF d < a THEN Position(a) - 1 ELSE Position(a)
<1> DEFINE F == {b \in live : b <= a}
<1>1. a \in Int /\ d \in Int
    BY RotationAssumption DEF TypeOK
<1>2. IsFiniteSet(F) /\ Cardinality(F) \in Nat
    BY PositionFacts, FS_CardinalityType
<1>3. Position(a)' = Cardinality(F \ {d})
    <2>1. {b \in live' : b <= a} = F \ {d}
        OBVIOUS
    <2> QED BY <2>1 DEF Position
<1>4. CASE d < a
    <2>1. d \in F
        BY <1>1, <1>4
    <2> QED BY <1>2, <1>3, <1>4, <2>1, FS_RemoveElement DEF Position
<1>5. CASE ~(d < a)
    <2>1. F \ {d} = F
        BY <1>1, <1>5
    <2> QED BY <1>3, <1>5, <2>1 DEF Position
<1> QED BY <1>4, <1>5

\* A new row comes last.
LEMMA CreateAppends ==
    ASSUME TypeOK, Create, NEW a \in live
    PROVE  Position(a)' = Position(a)
<1>1. a \in Int /\ a <= born /\ born \in Int /\ live' = live \cup {born + 1}
    BY RotationAssumption DEF TypeOK, Create
<1>2. {b \in live' : b <= a} = {b \in live : b <= a}
    BY <1>1
<1> QED BY <1>2 DEF Position

\* A non-empty set of rows has a first and a last one.
LEMMA FirstOf ==
    ASSUME NEW S \in SUBSET Nat, S # {}
    PROVE  \E m \in S : \A k \in S : m <= k
<1>1. IsWellFoundedOn(OpToRel(<, Nat), Nat)
    BY NatLessThanWellFounded
<1>2. PICK m \in S : \A k \in S : ~(<<k, m>> \in OpToRel(<, Nat))
    BY <1>1, WFMin
<1>3. \A k \in S : ~(k < m)
    BY <1>2 DEF OpToRel
<1> QED BY <1>3

LEMMA LastOf ==
    ASSUME NEW n \in Nat, NEW S \in SUBSET (1..n), S # {}
    PROVE  \E m \in S : \A k \in S : k <= m
<1> DEFINE T == {n - k : k \in S}
<1>1. T \in SUBSET Nat /\ T # {}
    <2>1. \A k \in S : n - k \in Nat
        OBVIOUS
    <2>2. \E k \in S : n - k \in T
        OBVIOUS
    <2> QED BY <2>1, <2>2
<1>2. PICK t \in T : \A u \in T : t <= u
    BY <1>1, FirstOf
<1>3. PICK m \in S : t = n - m
    BY <1>2
<1>4. \A k \in S : n - m <= n - k
    BY <1>2, <1>3
<1>5. \A k \in S : k <= m
    BY <1>4
<1> QED BY <1>5

\* Positions have no gaps: if a row is behind the pages read so far, the next
\* page is not empty.
LEMMA NoGaps ==
    ASSUME TypeOK, NEW a \in live, Position(a) > offset
    PROVE  NextRows # {}
<1>0. offset \in Nat /\ BatchSize \in Nat /\ BatchSize >= 1 /\ born \in Nat
      /\ live \subseteq 1..born /\ \A b \in live : b \in Nat
    BY RotationAssumption DEF TypeOK
<1> DEFINE Behind == {b \in live : Position(b) > offset}
<1>1. PICK b \in Behind : \A c \in Behind : b <= c
    <2>1. Behind \in SUBSET Nat /\ Behind # {}
        BY <1>0
    <2> HIDE DEF Behind
    <2> QED BY <2>1, FirstOf
<1>2. b \in live /\ b \in Nat /\ Position(b) > offset /\ Position(b) \in Nat
    BY <1>0, <1>1, PositionFacts
<1> DEFINE Upto == {c \in live : c <= b}
           Before == Upto \ {b}
<1>3. Cardinality(Before) = Position(b) - 1 /\ IsFiniteSet(Before)
    <2>1. b \in Upto /\ IsFiniteSet(Upto) /\ Cardinality(Upto) = Position(b)
        BY <1>2, PositionFacts DEF Position
    <2> QED BY <2>1, FS_RemoveElement
<1>4. Position(b) <= offset + 1
    <2>1. CASE Before = {}
        BY <1>0, <1>2, <1>3, <2>1, FS_EmptySet
    <2>2. CASE Before # {}
        <3>1. Before \in SUBSET (1..born)
            BY <1>0
        <3>2. PICK m \in Before : \A c \in Before : c <= m
            BY <1>0, <2>2, <3>1, LastOf
        <3>3. m \in live /\ m < b
            BY <1>0, <1>2, <3>2
        <3>4. {c \in live : c <= m} = Before
            <4>1. \A c \in live : c <= m <=> c <= b /\ c # b
                <5> SUFFICES ASSUME NEW c \in live PROVE c <= m <=> c <= b /\ c # b
                    OBVIOUS
                <5>1. c <= b /\ c # b => c <= m
                    BY <3>2
                <5> QED BY <1>0, <1>2, <3>3, <5>1
            <4> QED BY <4>1
        <3>5. Position(m) = Position(b) - 1
            BY <1>3, <3>4 DEF Position
        <3>6. ~(Position(m) > offset)
            BY <1>0, <1>1, <1>2, <3>3
        <3> QED BY <1>0, <1>2, <3>5, <3>6
    <2> QED BY <2>1, <2>2
<1> QED BY <1>0, <1>2, <1>4 DEF NextRows

LEMMA ScannedStep ==
    ASSUME BasicInv, DropInv, [Next]_vars
    PROVE  Scanned'
<1> SUFFICES ASSUME mode' = "dry", ~found', NEW a \in live', a \notin missed', Old(envelope'[a])
             PROVE  Position(a)' > offset' \/ (a \in page' /\ Old(read'[a]))
    BY DEF Scanned, Old
<1> DEFINE Goal == Position(a)' > offset' \/ (a \in page' /\ Old(read'[a]))
<1>1. a \in live
    BY LiveStep
<1>2. a \in Apps /\ a \in Nat /\ TypeOK
    BY <1>1, RotationAssumption DEF BasicInv, TypeOK, Apps
<1>3. Old(envelope[a])
    BY <1>2, OldShrinks
<1>4. Position(a) \in Nat \ {0}
    BY <1>1, <1>2, PositionFacts
<1>5. offset \in Nat /\ BatchSize \in Nat
    BY RotationAssumption DEF BasicInv, TypeOK
<1> USE DEF store, pass
<1>6. ASSUME NEW m \in {"apply", "dry"}, StartPass(m) PROVE Goal
    <2>1. live' = live /\ offset' = 0
        BY <1>6 DEF StartPass
    <2>2. Position(a)' = Position(a)
        BY <2>1 DEF Position
    <2> QED BY <1>4, <2>1, <2>2
<1>7. ASSUME mode = "dry", ~found, a \notin missed
      PROVE  Position(a) > offset \/ (a \in page /\ Old(read[a]))
    BY <1>1, <1>3, <1>7 DEF DropInv, Scanned
<1>8. CASE mode = "dry" /\ ~found /\ a \notin missed /\ "old" \in ring
    <2>1. ASSUME NEW d \in Apps, Delete(d) PROVE Goal
        <3>1. d \in live /\ live' = live \ {d} /\ a # d /\ UNCHANGED <<offset, page, read>>
            BY <2>1 DEF Delete
        <3>2. a \notin Slipping(d)
            BY <1>8, <2>1 DEF Delete
        <3>3. ~(d < a /\ Position(a) = offset + 1)
            BY <1>1, <3>2 DEF Slipping
        <3>4. Position(a)' = IF d < a THEN Position(a) - 1 ELSE Position(a)
            BY <1>1, <1>2, <3>1, DeleteShifts
        <3> QED BY <1>4, <1>5, <1>7, <1>8, <3>1, <3>3, <3>4
    <2>2. CASE Create
        <3>1. Position(a)' = Position(a)
            BY <1>1, <1>2, <2>2, CreateAppends
        <3> QED BY <1>7, <1>8, <2>2, <3>1 DEF Create
    <2>3. CASE ReadPage
        <3>1. Position(a) > offset /\ live' = live /\ offset' = offset + BatchSize
            BY <1>7, <1>8, <2>3 DEF ReadPage
        <3>2. Position(a)' = Position(a)
            BY <3>1 DEF Position
        <3>3. CASE Position(a) <= offset + BatchSize
            <4>1. a \in NextRows
                BY <1>1, <1>4, <1>5, <3>1, <3>3 DEF NextRows
            <4> QED BY <1>2, <1>3, <2>3, <4>1 DEF ReadPage
        <3>4. CASE Position(a) > offset + BatchSize
            BY <3>1, <3>2, <3>4
        <3> QED BY <1>4, <1>5, <3>3, <3>4
    <2>4. ASSUME NEW b \in Apps, Skip(b) PROVE Goal
        <3>1. Old(read[a]) => a # b
            BY <1>8, <2>4, OldIsCandidate DEF Skip
        <3>2. live' = live /\ offset' = offset /\ read' = read /\ page' = page \ {b}
            BY <2>4 DEF Skip
        <3>3. Position(a)' = Position(a)
            BY <3>2 DEF Position
        <3> QED BY <1>7, <1>8, <3>1, <3>2, <3>3
    <2>5. CASE UNCHANGED <<live, offset, page, read>>
        <3>1. Position(a)' = Position(a)
            BY <2>5 DEF Position
        <3> QED BY <1>7, <1>8, <2>5, <3>1
    <2>6. ASSUME NEW b \in Apps, Report(b) \/ Load(b) \/ Write(b) PROVE FALSE
        BY <1>8, <2>6 DEF Report, Load, Write
    <2>7. CASE \/ Finish \/ Crash \/ DropOldKey \/ UNCHANGED vars
               \/ \E b \in Apps : SetSecret(b)
        BY <2>5, <2>7 DEF Finish, Crash, DropOldKey, vars, SetSecret
    <2> QED BY <1>6, <2>1, <2>2, <2>3, <2>4, <2>6, <2>7 DEF Next, PassStep
<1>9. CASE ~(mode = "dry" /\ ~found /\ a \notin missed)
    <2>1. \E m \in {"apply", "dry"} : StartPass(m)
        BY <1>9 DEF Next, PassStep, Create, SetSecret, Delete, ReadPage, Finish, Skip, Report,
                    Load, Write, Crash, DropOldKey, vars
    <2> QED BY <1>6, <2>1
<1>10. CASE "old" \notin ring
    <2>1. a \in missed
        BY <1>1, <1>3, <1>10 DEF DropInv, NothingOld
    <2>2. missed' = missed
        BY <1>10, MissedStep
    <2> QED BY <2>1, <2>2
<1> QED BY <1>8, <1>9, <1>10

\* A dry run that reports zero has seen every row but those that slipped by.
LEMMA VerifiedStep ==
    ASSUME BasicInv, DropInv, Finish, verified'
    PROVE  NothingOld
<1> SUFFICES ASSUME NEW a \in live, a \notin missed, Old(envelope[a]) PROVE FALSE
    BY DEF NothingOld
<1>1. mode = "dry" /\ ~found /\ page = {} /\ NextRows = {}
    BY DEF Finish
<1>2. Position(a) > offset
    BY <1>1 DEF DropInv, Scanned
<1> QED BY <1>1, <1>2, NoGaps DEF BasicInv

LEMMA DropStep == BasicInv /\ DropInv /\ [Next]_vars => DropInv'
<1> SUFFICES ASSUME BasicInv, DropInv, [Next]_vars PROVE DropInv'
    OBVIOUS
<1> USE DEF store, pass
<1>1. Scanned'
    BY ScannedStep
<1>2. verified' => NothingOld' /\ mode' = "idle"
    <2> SUFFICES ASSUME verified' PROVE NothingOld' /\ mode' = "idle"
        OBVIOUS
    <2>1. CASE Finish
        <3>1. NothingOld
            BY <2>1, VerifiedStep
        <3>2. missed' = missed /\ mode' = "idle"
            BY <2>1 DEF Finish
        <3> QED BY <3>1, <3>2, NothingOldStep
    <2>2. CASE ~Finish
        <3>1. verified /\ \A m \in {"apply", "dry"} : ~StartPass(m)
            BY <2>2 DEF Next, PassStep, Create, SetSecret, Delete, StartPass, ReadPage, Skip,
                        Report, Load, Write, Crash, DropOldKey, vars
        <3>2. NothingOld /\ mode = "idle"
            BY <3>1 DEF DropInv
        <3>3. missed' = missed
            BY <3>1, <3>2, MissedStep
        <3>4. mode' = "idle"
            BY <3>1, <3>2 DEF Next, PassStep, Create, SetSecret, Delete, ReadPage, Finish, Skip,
                              Report, Load, Write, Crash, DropOldKey, vars
        <3> QED BY <3>2, <3>3, <3>4, NothingOldStep
    <2> QED BY <2>1, <2>2
<1>3. "new" \in ring' /\ ("old" \in ring' \/ NothingOld')
    <2>1. CASE DropOldKey
        <3>1. NothingOld /\ missed' = missed /\ ring' = {"new"}
            BY <2>1 DEF DropOldKey, DropInv
        <3> QED BY <3>1, NothingOldStep
    <2>2. CASE ring' = ring
        <3>1. CASE "old" \in ring
            BY <2>2, <3>1 DEF DropInv
        <3>2. CASE "old" \notin ring
            <4>1. NothingOld /\ missed' = missed
                BY <3>2, MissedStep DEF DropInv
            <4> QED BY <2>2, <4>1, NothingOldStep DEF DropInv
        <3> QED BY <3>1, <3>2
    <2> QED BY <2>1, <2>2
            DEF Next, PassStep, Create, SetSecret, Delete, StartPass, ReadPage, Finish, Skip,
                Report, Load, Write, Crash, vars
<1> QED BY <1>1, <1>2, <1>3 DEF DropInv

\* Only a row that slipped past the dry run, because another one was deleted
\* under it, is lost with the old key; for any number of rows, size of a page,
\* and requests and crashes in between.
THEOREM OnlyMissedAreLostHolds == Spec => []OnlyMissedAreLost
<1>1. Init => DropInv
    BY DEF Init, DropInv, Scanned
<1>2. BasicInv /\ DropInv => OnlyMissedAreLost
    <2> SUFFICES ASSUME BasicInv, DropInv, NEW a \in live, a \notin missed,
                        envelope[a] # NoSecret, envelope[a].key # "lost"
                 PROVE  envelope[a].key \in ring
        BY DEF OnlyMissedAreLost, Sealed, Decryptable
    <2>1. a \in Apps
        BY RotationAssumption DEF BasicInv, TypeOK, Apps
    <2>2. envelope[a].key \in {"old", "new"}
        BY <2>1 DEF BasicInv, TypeOK, Envelopes
    <2> QED BY <2>2 DEF DropInv, NothingOld, Old
<1> QED BY <1>1, <1>2, BasicInit, BasicStep, DropStep, PTL DEF Spec

=============================================================================
