--------------------------- MODULE MCNotices_proofs ---------------------------
(***************************************************************************)
(* Theorems about the components of MCNotices, as MCMessages runs them, for *)
(* every value of their constants.                                         *)
(***************************************************************************)
EXTENDS MCMessages_proofs, SequenceTheorems
-----------------------------------------------------------------------------
(* Imports.  An attempt counts the rows before the one it is at, and each of  *)
(* them has a record, committed or in the batch; what a record calls          *)
(* imported is there.                                                        *)
ImportPoints == {"waiting", "fetch", "row", "create", "commit", "finish", "failed", "done"}
ImportWork   == {"fetch", "row", "create", "commit", "finish"}
RowOutcomes  == {"IMPORTED", "SKIPPED_DUPLICATE", "ERROR"}
RowRecords   == [row: Nat, status: RowOutcomes]
ImportRuns   == [at: ImportPoints, row: Nat, batch: Seq(RowRecords), count: [RowOutcomes -> Nat], tries: Nat]

ImportSum(c) == c["IMPORTED"] + c["SKIPPED_DUPLICATE"] + c["ERROR"]

(* A sequence of records names a row, and is right about each.               *)
NamesRow(s, n)   == \E i \in DOMAIN s : s[i].row = n
Right(f, m, s) == \A i \in DOMAIN s :
  /\ s[i].row \in DOMAIN f
  /\ s[i].status = "IMPORTED" => f[s[i].row] \in ImportKeys /\ m[f[s[i].row]] > 0

RunFits(f, r, m, p) ==
  /\ p.row <= Len(f) + 1 /\ p.tries <= ImportAttempts /\ Len(p.batch) <= ImportBatch
  /\ Right(f, m, p.batch)
  /\ p.at = "fetch" => p.row = 1 /\ p.batch = <<>>
  /\ p.at \in {"row", "create"} => p.row \in 1 .. Len(f) /\ Len(p.batch) < ImportBatch
  /\ p.at = "create" => f[p.row] \in ImportKeys
  /\ p.at = "finish" => p.row = Len(f) + 1 /\ p.batch = <<>>
  /\ p.at \in ImportWork =>
       /\ ImportSum(p.count) + 1 = p.row
       /\ \A n \in 1 .. p.row - 1 : NamesRow(r, n) \/ NamesRow(p.batch, n)

IsWhole(f, r, c) == ImportSum(c) = Len(f) /\ \A n \in 1 .. Len(f) : NamesRow(r, n)

ImportTyped ==
  /\ importFile \in [ImportJobs -> Seq(ImportKeys \cup {Bad})]
  /\ importStatus \in [ImportJobs -> {"PENDING", "PROCESSING", "COMPLETED", "FAILED"}]
  /\ importStats \in [ImportJobs -> [RowOutcomes -> Nat]]
  /\ importRecords \in [ImportJobs -> Seq(RowRecords)]
  /\ importMade \in [ImportKeys -> Nat]
  /\ importJob \in [ImportJobs -> ImportRuns]

ImportFits == \A j \in ImportJobs :
  /\ RunFits(importFile[j], importRecords[j], importMade, importJob[j])
  /\ Right(importFile[j], importMade, importRecords[j])
  /\ importStatus[j] = "COMPLETED" => IsWhole(importFile[j], importRecords[j], importStats[j])

(* Services are imported one file after the other: what was not there when    *)
(* the handler looked is not there when it creates it.                       *)
AtWorkImport(j) == importJob[j].at \notin {"waiting", "done"}

ImportFresh(k) ==
  /\ \A n \in ImportKeys : importMade[n] <= 1
  /\ k = "SERVICES" =>
       /\ \A i, j \in ImportJobs : AtWorkImport(i) /\ AtWorkImport(j) => i = j
       /\ \A j \in ImportJobs : importJob[j].at = "create" => importMade[importFile[j][importJob[j].row]] = 0

ImportFiles(k) == importFile \in [ImportJobs -> IF k = "CLIENTS" THEN ClientFiles ELSE ServiceFiles]

ImportInv(k) == ImportFiles(k) /\ ImportTyped /\ ImportFits /\ ImportFresh(k)

LEMMA ImportConstants ==
  /\ ClientFiles \subseteq Seq(ImportKeys \cup {Bad}) /\ ServiceFiles \subseteq Seq(ImportKeys \cup {Bad})
  /\ Bad \notin ImportKeys /\ ImportBatch \in Nat \ {0} /\ ImportAttempts \in Nat \ {0}
<1>1. \A k \in {"CLIENTS", "SERVICES"} : Import(k, TRUE)!ImportAssumption
  BY MessagesAssumption DEF NoticesAssumed
<1>2. Import("CLIENTS", TRUE)!ImportAssumption /\ Import("SERVICES", TRUE)!ImportAssumption
  BY <1>1
<1> QED
  BY <1>2 DEF Import!ImportAssumption

LEMMA ImportInit ==
  ASSUME NEW k \in {"CLIENTS", "SERVICES"}, Import("SERVICES", TRUE)!Init,
         k # "SERVICES" => \A j \in DOMAIN importFile : importFile[j] \in ClientFiles
  PROVE  ImportInv(k)
<1> DEFINE zero == [o \in RowOutcomes |-> 0]
           new  == [at |-> "waiting", row |-> 0, batch |-> <<>>, count |-> zero, tries |-> 0]
<1>1. importFile \in [ImportJobs -> ServiceFiles] /\ ImportFiles(k)
  BY DEF Import!Init, ImportFiles
<1>2. zero \in [RowOutcomes -> Nat] /\ Import("SERVICES", TRUE)!Zero = zero
  BY DEF Import!Zero, Import!Outcomes, RowOutcomes
<1> HIDE DEF zero
<1>3. new \in ImportRuns /\ Import("SERVICES", TRUE)!NewJob = new
  <2>1. <<>> \in Seq(RowRecords)
    BY EmptySeq
  <2>2. new \in ImportRuns
    BY <1>2, <2>1 DEF ImportRuns, ImportPoints
  <2> QED
    BY <1>2, <2>2 DEF Import!NewJob
<1>4. new.at = "waiting" /\ new.batch = <<>> /\ new.row = 0 /\ new.tries = 0
  OBVIOUS
<1> HIDE DEF new
<1>5. /\ importStatus = [j \in ImportJobs |-> "PENDING"] /\ importRecords = [j \in ImportJobs |-> <<>>]
      /\ importStats = [j \in ImportJobs |-> zero]
      /\ importMade = [n \in ImportKeys |-> 0] /\ importJob = [j \in ImportJobs |-> new]
  BY <1>2, <1>3 DEF Import!Init
<1>6. importFile \in [ImportJobs -> Seq(ImportKeys \cup {Bad})]
  BY <1>1, ImportConstants
<1>7. ImportTyped
  BY <1>2, <1>3, <1>5, <1>6 DEF ImportTyped
<1>8. ImportFits
  <2> SUFFICES ASSUME NEW j \in ImportJobs
               PROVE  /\ RunFits(importFile[j], importRecords[j], importMade, importJob[j])
                      /\ Right(importFile[j], importMade, importRecords[j])
                      /\ importStatus[j] = "COMPLETED" => IsWhole(importFile[j], importRecords[j], importStats[j])
    BY DEF ImportFits
  <2>1. importJob[j] = new /\ importRecords[j] = <<>> /\ importStatus[j] = "PENDING"
    BY <1>5
  <2>2. Len(importFile[j]) \in Nat
    BY <1>6
  <2>3. Right(importFile[j], importMade, <<>>)
    BY DEF Right
  <2> HIDE DEF Right
  <2> QED
    BY <1>4, <2>1, <2>2, <2>3, ImportConstants DEF RunFits, ImportWork
<1>9. ImportFresh(k)
  BY <1>4, <1>5 DEF ImportFresh, AtWorkImport
<1> QED
  BY <1>1, <1>7, <1>8, <1>9 DEF ImportInv

(* A move of one import, that adds to what there is.                         *)
LEMMA RightStays ==
  ASSUME NEW f \in Seq(ImportKeys \cup {Bad}), NEW m \in [ImportKeys -> Nat], NEW n \in [ImportKeys -> Nat],
         \A x \in ImportKeys : m[x] <= n[x], NEW s, Right(f, m, s)
  PROVE  Right(f, n, s)
<1> SUFFICES ASSUME NEW i \in DOMAIN s
             PROVE  s[i].row \in DOMAIN f /\ (s[i].status = "IMPORTED" => f[s[i].row] \in ImportKeys /\ n[f[s[i].row]] > 0)
  BY DEF Right
<1>1. s[i].row \in DOMAIN f /\ (s[i].status = "IMPORTED" => f[s[i].row] \in ImportKeys /\ m[f[s[i].row]] > 0)
  BY DEF Right
<1>2. ASSUME f[s[i].row] \in ImportKeys, m[f[s[i].row]] > 0 PROVE n[f[s[i].row]] > 0
  <2> DEFINE x == f[s[i].row]
  <2>1. m[x] \in Nat /\ n[x] \in Nat /\ m[x] <= n[x]
    BY <1>2
  <2> HIDE DEF x
  <2>2. m[x] > 0
    BY <1>2 DEF x
  <2>3. n[x] > 0
    BY <2>1, <2>2
  <2> QED
    BY <2>3 DEF x
<1> QED
  BY <1>1, <1>2

LEMMA FitsStays ==
  ASSUME NEW f \in Seq(ImportKeys \cup {Bad}), NEW m \in [ImportKeys -> Nat], NEW n \in [ImportKeys -> Nat],
         \A x \in ImportKeys : m[x] <= n[x], NEW r, NEW p, RunFits(f, r, m, p)
  PROVE  RunFits(f, r, n, p)
<1>1. Right(f, n, p.batch)
  BY RightStays DEF RunFits
<1> QED
  BY <1>1 DEF RunFits

ImportStatuses == {"PENDING", "PROCESSING", "COMPLETED", "FAILED"}

ImportMove(j, x, s, c, r) ==
  /\ importJob' = [importJob EXCEPT ![j] = x] /\ importFile' = importFile
  /\ importStatus' = [importStatus EXCEPT ![j] = s] /\ importStats' = [importStats EXCEPT ![j] = c]
  /\ importRecords' = [importRecords EXCEPT ![j] = r]
  /\ importMade' \in [ImportKeys -> Nat] /\ \A n \in ImportKeys : importMade[n] <= importMade'[n]
  /\ RunFits(importFile[j], r, importMade', x) /\ Right(importFile[j], importMade', r)
  /\ s = "COMPLETED" => IsWhole(importFile[j], r, c)

LEMMA ImportMoves ==
  ASSUME ImportTyped, ImportFits, NEW j \in ImportJobs, NEW x \in ImportRuns, NEW s \in ImportStatuses,
         NEW c \in [RowOutcomes -> Nat], NEW r \in Seq(RowRecords), ImportMove(j, x, s, c, r)
  PROVE  ImportTyped' /\ ImportFits'
<1> USE DEF ImportMove, ImportStatuses
<1>1. ImportTyped'
  BY DEF ImportTyped
<1>2. \A i \in ImportJobs :
        /\ importJob'[i] = IF i = j THEN x ELSE importJob[i]
        /\ importStatus'[i] = IF i = j THEN s ELSE importStatus[i]
        /\ importStats'[i] = IF i = j THEN c ELSE importStats[i]
        /\ importRecords'[i] = IF i = j THEN r ELSE importRecords[i]
  BY DEF ImportTyped
<1>3. ImportFits'
  <2> SUFFICES ASSUME NEW i \in ImportJobs
               PROVE  /\ RunFits(importFile[i], importRecords'[i], importMade', importJob'[i])
                      /\ Right(importFile[i], importMade', importRecords'[i])
                      /\ importStatus'[i] = "COMPLETED" => IsWhole(importFile[i], importRecords'[i], importStats'[i])
    BY DEF ImportFits
  <2>1. CASE i = j
    BY <1>2, <2>1
  <2>2. CASE i # j
    <3>1. importFile[i] \in Seq(ImportKeys \cup {Bad}) /\ importMade \in [ImportKeys -> Nat]
      BY DEF ImportTyped
    <3>2. /\ RunFits(importFile[i], importRecords[i], importMade, importJob[i])
          /\ Right(importFile[i], importMade, importRecords[i])
          /\ importStatus[i] = "COMPLETED" => IsWhole(importFile[i], importRecords[i], importStats[i])
      BY DEF ImportFits
    <3>3. RunFits(importFile[i], importRecords[i], importMade', importJob[i])
      BY <3>1, <3>2, FitsStays
    <3>4. Right(importFile[i], importMade', importRecords[i])
      BY <3>1, <3>2, RightStays
    <3> QED
      BY <1>2, <2>2, <3>2, <3>3, <3>4
  <2> QED
    BY <2>1, <2>2
<1> QED
  BY <1>1, <1>3

(* A row is recorded.                                                        *)
RecordedRun(f, p, o) ==
  LET more == Append(p.batch, [row |-> p.row, status |-> o]) IN
  [p EXCEPT !.batch = more, !.count[o] = @ + 1, !.row = @ + 1,
     !.at = IF Len(more) = ImportBatch \/ p.row = Len(f) THEN "commit" ELSE "row"]

LEMMA CountGrows ==
  ASSUME NEW c \in [RowOutcomes -> Nat], NEW o \in RowOutcomes
  PROVE  /\ [c EXCEPT ![o] = @ + 1] \in [RowOutcomes -> Nat]
         /\ ImportSum([c EXCEPT ![o] = @ + 1]) = ImportSum(c) + 1
<1>1. c["IMPORTED"] \in Nat /\ c["SKIPPED_DUPLICATE"] \in Nat /\ c["ERROR"] \in Nat
  BY DEF RowOutcomes
<1>2. CASE o = "IMPORTED"
  BY <1>1, <1>2 DEF RowOutcomes, ImportSum
<1>3. CASE o = "SKIPPED_DUPLICATE"
  BY <1>1, <1>3 DEF RowOutcomes, ImportSum
<1>4. CASE o = "ERROR"
  BY <1>1, <1>4 DEF RowOutcomes, ImportSum
<1> QED
  BY <1>2, <1>3, <1>4 DEF RowOutcomes

LEMMA NamesMore ==
  ASSUME NEW s \in Seq(RowRecords), NEW x \in RowRecords
  PROVE  \A n : NamesRow(Append(s, x), n) <=> NamesRow(s, n) \/ x.row = n
<1> DEFINE t == Append(s, x)
<1>1. Len(s) \in Nat /\ DOMAIN s = 1 .. Len(s)
  BY LenProperties
<1>2. /\ DOMAIN t = 1 .. Len(s) + 1 /\ t[Len(s) + 1] = x
      /\ \A i \in 1 .. Len(s) : t[i] = s[i]
  <2>1. t \in Seq(RowRecords) /\ Len(t) = Len(s) + 1 /\ (\A i \in 1 .. Len(s) : t[i] = s[i]) /\ t[Len(s) + 1] = x
    BY AppendProperties
  <2> QED
    BY <2>1, LenProperties
<1> HIDE DEF t
<1>3. ASSUME NEW n, NamesRow(t, n) PROVE NamesRow(s, n) \/ x.row = n
  <2>1. PICK i \in 1 .. Len(s) + 1 : t[i].row = n
    BY <1>2, <1>3 DEF NamesRow
  <2>2. i = Len(s) + 1 \/ i \in 1 .. Len(s)
    BY <1>1, <2>1
  <2> QED
    BY <1>1, <1>2, <2>1, <2>2 DEF NamesRow
<1>4. ASSUME NEW n, NamesRow(s, n) PROVE NamesRow(t, n)
  <2>1. PICK i \in 1 .. Len(s) : s[i].row = n
    BY <1>1, <1>4 DEF NamesRow
  <2>2. i \in 1 .. Len(s) + 1 /\ t[i].row = n
    BY <1>1, <1>2, <2>1
  <2> QED
    BY <1>2, <2>2 DEF NamesRow
<1>5. ASSUME NEW n, x.row = n PROVE NamesRow(t, n)
  <2>1. Len(s) + 1 \in 1 .. Len(s) + 1
    BY <1>1
  <2> QED
    BY <1>2, <1>5, <2>1 DEF NamesRow
<1> QED
  BY <1>3, <1>4, <1>5 DEF t

LEMMA NamesBoth ==
  ASSUME NEW s \in Seq(RowRecords), NEW t \in Seq(RowRecords)
  PROVE  \A n : NamesRow(s \o t, n) <=> NamesRow(s, n) \/ NamesRow(t, n)
<1> DEFINE u == s \o t
<1>1. Len(s) \in Nat /\ DOMAIN s = 1 .. Len(s) /\ Len(t) \in Nat /\ DOMAIN t = 1 .. Len(t)
  BY LenProperties
<1>2. /\ DOMAIN u = 1 .. Len(s) + Len(t)
      /\ \A i \in 1 .. Len(s) + Len(t) : u[i] = IF i <= Len(s) THEN s[i] ELSE t[i - Len(s)]
  <2>1. u \in Seq(RowRecords) /\ Len(u) = Len(s) + Len(t)
        /\ \A i \in 1 .. Len(s) + Len(t) : u[i] = IF i <= Len(s) THEN s[i] ELSE t[i - Len(s)]
    BY ConcatProperties
  <2> QED
    BY <2>1, LenProperties
<1> HIDE DEF u
<1>3. ASSUME NEW n, NamesRow(u, n) PROVE NamesRow(s, n) \/ NamesRow(t, n)
  <2>1. PICK i \in 1 .. Len(s) + Len(t) : u[i].row = n
    BY <1>2, <1>3 DEF NamesRow
  <2>2. CASE i <= Len(s)
    <3>1. i \in 1 .. Len(s) /\ s[i].row = n
      BY <1>1, <1>2, <2>1, <2>2
    <3> QED
      BY <1>1, <3>1 DEF NamesRow
  <2>3. CASE ~(i <= Len(s))
    <3>1. i - Len(s) \in 1 .. Len(t) /\ t[i - Len(s)].row = n
      BY <1>1, <1>2, <2>1, <2>3
    <3> QED
      BY <1>1, <3>1 DEF NamesRow
  <2> QED
    BY <2>2, <2>3
<1>4. ASSUME NEW n, NamesRow(s, n) PROVE NamesRow(u, n)
  <2>1. PICK i \in 1 .. Len(s) : s[i].row = n
    BY <1>1, <1>4 DEF NamesRow
  <2>2. i \in 1 .. Len(s) + Len(t) /\ u[i].row = n
    BY <1>1, <1>2, <2>1
  <2> QED
    BY <1>2, <2>2 DEF NamesRow
<1>5. ASSUME NEW n, NamesRow(t, n) PROVE NamesRow(u, n)
  <2>1. PICK i \in 1 .. Len(t) : t[i].row = n
    BY <1>1, <1>5 DEF NamesRow
  <2>2. i + Len(s) \in 1 .. Len(s) + Len(t) /\ u[i + Len(s)] = t[i]
    <3>1. i + Len(s) \in 1 .. Len(s) + Len(t) /\ ~(i + Len(s) <= Len(s)) /\ (i + Len(s)) - Len(s) = i
      BY <1>1
    <3> QED
      BY <1>2, <3>1
  <2> QED
    BY <1>2, <2>1, <2>2 DEF NamesRow
<1> QED
  BY <1>3, <1>4, <1>5 DEF u

LEMMA RightMore ==
  ASSUME NEW f, NEW m, NEW s \in Seq(RowRecords), NEW x \in RowRecords, Right(f, m, s),
         x.row \in DOMAIN f, x.status = "IMPORTED" => f[x.row] \in ImportKeys /\ m[f[x.row]] > 0
  PROVE  Right(f, m, Append(s, x))
<1> DEFINE t == Append(s, x)
<1>1. Len(s) \in Nat /\ DOMAIN s = 1 .. Len(s)
  BY LenProperties
<1>2. t \in Seq(RowRecords) /\ Len(t) = Len(s) + 1 /\ (\A i \in 1 .. Len(s) : t[i] = s[i]) /\ t[Len(s) + 1] = x
  BY AppendProperties
<1>3. DOMAIN t = 1 .. Len(s) + 1
  BY <1>2, LenProperties
<1> HIDE DEF t
<1>4. \A i \in DOMAIN t : (i \in DOMAIN s /\ t[i] = s[i]) \/ t[i] = x
  BY <1>1, <1>2, <1>3
<1> QED
  BY <1>4 DEF Right, t

LEMMA RightBoth ==
  ASSUME NEW f, NEW m, NEW s \in Seq(RowRecords), NEW t \in Seq(RowRecords), Right(f, m, s), Right(f, m, t)
  PROVE  Right(f, m, s \o t)
<1> DEFINE u == s \o t
<1>1. Len(s) \in Nat /\ DOMAIN s = 1 .. Len(s) /\ Len(t) \in Nat /\ DOMAIN t = 1 .. Len(t)
  BY LenProperties
<1>2. u \in Seq(RowRecords) /\ Len(u) = Len(s) + Len(t)
      /\ \A i \in 1 .. Len(s) + Len(t) : u[i] = IF i <= Len(s) THEN s[i] ELSE t[i - Len(s)]
  BY ConcatProperties
<1>3. DOMAIN u = 1 .. Len(s) + Len(t)
  BY <1>2, LenProperties
<1> HIDE DEF u
<1>4. \A i \in DOMAIN u : (i \in DOMAIN s /\ u[i] = s[i]) \/ (i - Len(s) \in DOMAIN t /\ u[i] = t[i - Len(s)])
  BY <1>1, <1>2, <1>3
<1> QED
  BY <1>4 DEF Right, u

LEMMA RecordFits ==
  ASSUME NEW f \in Seq(ImportKeys \cup {Bad}), NEW r, NEW m, NEW p \in ImportRuns,
         RunFits(f, r, m, p), p.at \in {"row", "create"}, NEW o \in RowOutcomes,
         o = "IMPORTED" => f[p.row] \in ImportKeys /\ m[f[p.row]] > 0
  PROVE  RecordedRun(f, p, o) \in ImportRuns /\ RunFits(f, r, m, RecordedRun(f, p, o))
<1> DEFINE y == [row |-> p.row, status |-> o]
           b == Append(p.batch, y)
           c == [p.count EXCEPT ![o] = @ + 1]
           n == p.row + 1
           a == IF Len(b) = ImportBatch \/ p.row = Len(f) THEN "commit" ELSE "row"
           x == RecordedRun(f, p, o)
<1>1. /\ p.row \in 1 .. Len(f) /\ Len(p.batch) < ImportBatch /\ Len(f) \in Nat /\ p.row \in Nat
      /\ p.tries <= ImportAttempts /\ Right(f, m, p.batch)
      /\ ImportSum(p.count) + 1 = p.row
      /\ \A i \in 1 .. p.row - 1 : NamesRow(r, i) \/ NamesRow(p.batch, i)
  BY LenProperties DEF RunFits, ImportWork, ImportRuns
<1>2. y \in RowRecords /\ y.row = p.row /\ y.status = o
  BY DEF ImportRuns, RowRecords
<1>3. b \in Seq(RowRecords) /\ Len(b) = Len(p.batch) + 1 /\ Len(p.batch) \in Nat
  <2>1. p.batch \in Seq(RowRecords)
    BY DEF ImportRuns
  <2> HIDE DEF y
  <2> QED
    BY <1>2, <2>1, AppendProperties, LenProperties
<1>4. c \in [RowOutcomes -> Nat] /\ ImportSum(c) = ImportSum(p.count) + 1
  <2>1. p.count \in [RowOutcomes -> Nat]
    BY DEF ImportRuns
  <2> QED
    BY <2>1, CountGrows
<1>5. n \in Nat /\ a \in ImportPoints /\ n = p.row + 1
  BY <1>1 DEF ImportPoints
<1>6. x = [[[[p EXCEPT !.batch = b] EXCEPT !.count = c] EXCEPT !.row = n] EXCEPT !.at = a]
  BY DEF RecordedRun, ImportRuns
<1>7. (a = "row" => p.row # Len(f) /\ Len(b) # ImportBatch) /\ a \in {"row", "commit"}
  OBVIOUS
<1>8. DOMAIN f = 1 .. Len(f)
  BY LenProperties
<1>9. Right(f, m, b)
  <2>1. p.batch \in Seq(RowRecords)
    BY DEF ImportRuns
  <2> HIDE DEF y
  <2> QED
    BY <1>1, <1>2, <1>8, <2>1, RightMore
<1>10. \A i : NamesRow(b, i) <=> NamesRow(p.batch, i) \/ p.row = i
  <2>1. p.batch \in Seq(RowRecords)
    BY DEF ImportRuns
  <2> HIDE DEF y
  <2> QED
    BY <1>2, <2>1, NamesMore
<1> HIDE DEF y, b, c, n, a
<1>11. x \in ImportRuns
  BY <1>3, <1>4, <1>5, <1>6 DEF ImportRuns
<1>12. x.batch = b /\ x.count = c /\ x.row = n /\ x.at = a /\ x.tries = p.tries
  BY <1>6 DEF ImportRuns
<1> HIDE DEF x
<1>13. \A i \in 1 .. n - 1 : NamesRow(r, i) \/ NamesRow(b, i)
  <2> SUFFICES ASSUME NEW i \in 1 .. n - 1 PROVE NamesRow(r, i) \/ NamesRow(b, i)
    OBVIOUS
  <2>1. i \in 1 .. p.row - 1 \/ i = p.row
    BY <1>1, <1>5
  <2> QED
    BY <1>1, <1>10, <2>1
<1>14. ImportSum(c) + 1 = n
  <2>1. ImportSum(p.count) \in Nat
    BY DEF ImportRuns, ImportSum, RowOutcomes
  <2> QED
    BY <1>1, <1>4, <1>5, <2>1
<1>15. n <= Len(f) + 1 /\ Len(b) <= ImportBatch /\ (a = "row" => n \in 1 .. Len(f) /\ Len(b) < ImportBatch)
  BY <1>1, <1>3, <1>5, <1>7, ImportConstants
<1>16. RunFits(f, r, m, x)
  BY <1>1, <1>7, <1>9, <1>12, <1>13, <1>14, <1>15 DEF RunFits
<1> QED
  BY <1>11, <1>16 DEF x

ImportActs(k, j) ==
  Import(k, TRUE)!Step(j) \/ Import(k, TRUE)!Fails(j) \/ Import(k, TRUE)!Dies(j)

LEMMA ImportStepFits ==
  ASSUME NEW k \in {"CLIENTS", "SERVICES"}, ImportTyped, ImportFits, NEW j \in ImportJobs, ImportActs(k, j)
  PROVE  ImportTyped' /\ ImportFits'
<1> DEFINE f == importFile[j]
           r == importRecords[j]
           c == importStats[j]
           p == importJob[j]
           Goal == ImportTyped' /\ ImportFits'
           Others == UNCHANGED <<importFile, importStatus, importStats, importRecords, importMade>>
           Fixed == UNCHANGED <<importFile, importStats, importRecords, importMade>>
           Ready(a) ==
             \/ a = "row" /\ p.row \in 1 .. Len(f) /\ Len(p.batch) < ImportBatch
             \/ a = "create" /\ p.row \in 1 .. Len(f) /\ Len(p.batch) < ImportBatch /\ f[p.row] \in ImportKeys
             \/ a = "finish" /\ p.row = Len(f) + 1 /\ p.batch = <<>>
<1>1. /\ f \in Seq(ImportKeys \cup {Bad}) /\ r \in Seq(RowRecords) /\ c \in [RowOutcomes -> Nat] /\ p \in ImportRuns
      /\ importStatus[j] \in ImportStatuses /\ importMade \in [ImportKeys -> Nat]
  BY DEF ImportTyped, ImportStatuses
<1>2. RunFits(f, r, importMade, p) /\ Right(f, importMade, r)
      /\ (importStatus[j] = "COMPLETED" => IsWhole(f, r, c))
  BY DEF ImportFits
<1>3. Len(f) \in Nat /\ DOMAIN f = 1 .. Len(f) /\ p.row \in Nat /\ p.tries \in Nat /\ p.batch \in Seq(RowRecords)
      /\ p.count \in [RowOutcomes -> Nat] /\ p.at \in ImportPoints /\ Len(p.batch) \in Nat
  BY <1>1, LenProperties DEF ImportRuns
<1>4. /\ importStatus = [importStatus EXCEPT ![j] = importStatus[j]] /\ importStats = [importStats EXCEPT ![j] = c]
      /\ importRecords = [importRecords EXCEPT ![j] = r]
  BY DEF ImportTyped
<1> HIDE DEF Goal, f, r, c, p, Others, Fixed, Ready
<1>5. ASSUME NEW x \in ImportRuns, importJob' = [importJob EXCEPT ![j] = x],
             Fixed,
             NEW s \in ImportStatuses, importStatus' = [importStatus EXCEPT ![j] = s],
             s = "COMPLETED" => importStatus[j] = "COMPLETED",
             RunFits(f, r, importMade, x)
      PROVE  Goal
  <2>1. /\ importFile' = importFile /\ importMade' = importMade
        /\ importStats' = [importStats EXCEPT ![j] = c] /\ importRecords' = [importRecords EXCEPT ![j] = r]
    BY <1>4, <1>5 DEF Fixed
  <2>2. \A n \in ImportKeys : importMade[n] <= importMade'[n]
    BY <1>1, <2>1
  <2>3. importMade' \in [ImportKeys -> Nat] /\ RunFits(f, r, importMade', x) /\ Right(f, importMade', r)
        /\ (s = "COMPLETED" => IsWhole(f, r, c))
    BY <1>1, <1>2, <1>5, <2>1
  <2>4. ImportMove(j, x, s, c, r)
    BY <1>5, <2>1, <2>2, <2>3 DEF ImportMove, f
  <2> QED
    BY <1>1, <1>5, <2>4, ImportMoves DEF Goal
<1>6. ASSUME NEW x \in ImportRuns, importJob' = [importJob EXCEPT ![j] = x],
             Others,
             RunFits(f, r, importMade, x)
      PROVE  Goal
  <2>1. Fixed /\ importStatus' = importStatus
    BY <1>6 DEF Others, Fixed
  <2>2. importStatus' = [importStatus EXCEPT ![j] = importStatus[j]]
    BY <1>4, <2>1
  <2> QED
    BY <1>1, <1>5, <1>6, <2>1, <2>2
<1>7. CASE Import(k, TRUE)!Begin(j)
  <2> DEFINE z == [o \in RowOutcomes |-> 0]
             n == p.tries + 1
             x == [at |-> "fetch", row |-> 1, batch |-> <<>>, count |-> z, tries |-> n]
  <2>1. z \in [RowOutcomes -> Nat] /\ ImportSum(z) = 0 /\ Import(k, TRUE)!Zero = z
    BY DEF ImportSum, RowOutcomes, Import!Zero, Import!Outcomes
  <2>2. n \in Nat /\ n <= ImportAttempts /\ p.at = "waiting"
    BY <1>3, <1>7, ImportConstants DEF Import!Begin, p
  <2> HIDE DEF z
  <2>3. importJob' = [importJob EXCEPT ![j] = x]
    <3>1. importJob' = [importJob EXCEPT ![j] = [[at |-> "waiting", row |-> 0, batch |-> <<>>, count |-> z, tries |-> 0]
                                                 EXCEPT !.at = "fetch", !.row = 1, !.tries = n]]
      BY <1>7, <2>1 DEF Import!Begin, Import!NewJob, p
    <3> DEFINE w == [at |-> "waiting", row |-> 0, batch |-> <<>>, count |-> z, tries |-> 0]
    <3>2. [w EXCEPT !.at = "fetch", !.row = 1, !.tries = n] = [[[w EXCEPT !.at = "fetch"] EXCEPT !.row = 1] EXCEPT !.tries = n]
      OBVIOUS
    <3>3. [w EXCEPT !.at = "fetch"] = [at |-> "fetch", row |-> 0, batch |-> <<>>, count |-> z, tries |-> 0]
      OBVIOUS
    <3>4. [[at |-> "fetch", row |-> 0, batch |-> <<>>, count |-> z, tries |-> 0] EXCEPT !.row = 1]
            = [at |-> "fetch", row |-> 1, batch |-> <<>>, count |-> z, tries |-> 0]
      OBVIOUS
    <3>5. [[at |-> "fetch", row |-> 1, batch |-> <<>>, count |-> z, tries |-> 0] EXCEPT !.tries = n] = x
      OBVIOUS
    <3> QED
      BY <3>1, <3>2, <3>3, <3>4, <3>5
  <2>4. x.at = "fetch" /\ x.row = 1 /\ x.batch = <<>> /\ x.count = z /\ x.tries = n
    OBVIOUS
  <2> HIDE DEF n
  <2>5. x \in ImportRuns
    BY <2>1, <2>2, EmptySeq DEF ImportRuns, ImportPoints
  <2> HIDE DEF x
  <2>6. RunFits(f, r, importMade, x)
    <3>1. Right(f, importMade, <<>>) /\ Len(<<>>) = 0 /\ 0 <= ImportBatch
      BY ImportConstants DEF Right
    <3> HIDE DEF Right
    <3> QED
      BY <1>3, <2>1, <2>2, <2>4, <3>1 DEF RunFits
  <2>7. importStatus' = [importStatus EXCEPT ![j] = "PROCESSING"]
        /\ Fixed
    BY <1>7 DEF Import!Begin, Fixed
  <2>8. "PROCESSING" \in ImportStatuses /\ "PROCESSING" # "COMPLETED"
    BY DEF ImportStatuses
  <2> QED
    BY <1>5, <2>3, <2>5, <2>6, <2>7, <2>8 DEF Goal
<1>8. ASSUME NEW a \in ImportPoints, NEW b, b = p.batch \/ b = <<>>, importJob' = [importJob EXCEPT ![j] = [[p EXCEPT !.batch = b] EXCEPT !.at = a]],
             Fixed,
             NEW s \in ImportStatuses, importStatus' = [importStatus EXCEPT ![j] = s],
             s = "COMPLETED" => importStatus[j] = "COMPLETED", a \notin ImportWork
      PROVE  Goal
  <2> DEFINE x == [[p EXCEPT !.batch = b] EXCEPT !.at = a]
  <2>1. b \in Seq(RowRecords) /\ Right(f, importMade, b) /\ Len(b) <= ImportBatch
    <3>1. Right(f, importMade, <<>>) /\ Len(<<>>) = 0 /\ 0 <= ImportBatch /\ <<>> \in Seq(RowRecords)
      BY ImportConstants, EmptySeq DEF Right
    <3> QED
      BY <1>2, <1>3, <1>8, <3>1 DEF RunFits
  <2>2. x \in ImportRuns /\ x.at = a /\ x.batch = b /\ x.row = p.row /\ x.tries = p.tries
    BY <1>1, <1>8, <2>1 DEF ImportRuns
  <2> HIDE DEF x
  <2>3. RunFits(f, r, importMade, x)
    BY <1>2, <1>8, <2>1, <2>2 DEF RunFits, ImportWork
  <2> QED
    BY <1>5, <1>8, <2>2, <2>3 DEF x
<1>9. ASSUME NEW a \in ImportPoints, importJob' = [importJob EXCEPT ![j] = [p EXCEPT !.at = a]],
             Others,
             p.at \in ImportWork, Ready(a)
      PROVE  Goal
  <2> DEFINE x == [p EXCEPT !.at = a]
  <2>1. x \in ImportRuns /\ x.at = a /\ x.batch = p.batch /\ x.row = p.row /\ x.tries = p.tries /\ x.count = p.count
    BY <1>1, <1>9 DEF ImportRuns
  <2> HIDE DEF x
  <2>2. RunFits(f, r, importMade, x)
    BY <1>2, <1>9, <2>1 DEF RunFits, Ready
  <2> QED
    BY <1>6, <1>9, <2>1, <2>2 DEF x
<1>10. CASE Import(k, TRUE)!Fetch(j)
  <2>1. p.at = "fetch" /\ p.row = 1 /\ importJob' = [importJob EXCEPT ![j] = [p EXCEPT !.at = IF f = <<>> THEN "finish" ELSE "row"]]
        /\ Others
    BY <1>2, <1>10 DEF Import!Fetch, RunFits, f, p, Others
  <2>2. p.batch = <<>> /\ Len(p.batch) < ImportBatch /\ (f = <<>> => Len(f) = 0) /\ (f # <<>> => Len(f) > 0)
    <3>1. p.batch = <<>>
      BY <1>2, <2>1 DEF RunFits
    <3> QED
      BY <1>1, <1>3, <3>1, ImportConstants, EmptySeq
  <2>3. CASE f = <<>>
    <3>1. Ready("finish") /\ p.at \in ImportWork /\ "finish" \in ImportPoints
      BY <1>3, <2>1, <2>2, <2>3 DEF Ready, ImportWork, ImportPoints
    <3>2. importJob' = [importJob EXCEPT ![j] = [p EXCEPT !.at = "finish"]]
      BY <2>1, <2>3
    <3> QED
      BY <1>9, <2>1, <3>1, <3>2 DEF Goal
  <2>4. CASE f # <<>>
    <3>1. p.row \in 1 .. Len(f)
      BY <1>3, <2>1, <2>2, <2>4
    <3>2. Ready("row") /\ p.at \in ImportWork /\ "row" \in ImportPoints
      BY <2>1, <2>2, <3>1 DEF Ready, ImportWork, ImportPoints
    <3>3. importJob' = [importJob EXCEPT ![j] = [p EXCEPT !.at = "row"]]
      BY <2>1, <2>4
    <3> QED
      BY <1>9, <2>1, <3>2, <3>3 DEF Goal
  <2> QED
    BY <2>3, <2>4
<1>11. ASSUME NEW o \in RowOutcomes, Import(k, TRUE)!Record(j, o)
       PROVE  importJob' = [importJob EXCEPT ![j] = RecordedRun(f, p, o)]
  BY <1>11 DEF Import!Record, RecordedRun, f, p, ImportTyped, ImportRuns
<1>12. CASE Import(k, TRUE)!Look(j)
  <2>1. p.at = "row" /\ Others
    BY <1>12 DEF Import!Look, p, Others
  <2>2. p.row \in 1 .. Len(f) /\ Len(p.batch) < ImportBatch
    BY <1>2, <2>1 DEF RunFits
  <2>3. ASSUME NEW o \in {"ERROR", "SKIPPED_DUPLICATE"}, Import(k, TRUE)!Record(j, o) PROVE Goal
    <3>1. RecordedRun(f, p, o) \in ImportRuns /\ RunFits(f, r, importMade, RecordedRun(f, p, o))
      BY <1>1, <1>2, <2>1, RecordFits DEF RowOutcomes
    <3>2. importJob' = [importJob EXCEPT ![j] = RecordedRun(f, p, o)]
      BY <1>11, <2>3 DEF RowOutcomes
    <3> QED
      BY <1>6, <2>1, <3>1, <3>2
  <2>4. CASE ~Import(k, TRUE)!Missing(j) /\ importJob' = [importJob EXCEPT ![j].at = "create"]
    <3>1. f[p.row] \in ImportKeys
      BY <1>1, <2>2, <2>4 DEF Import!Missing, Import!Row, f, p
    <3>2. importJob' = [importJob EXCEPT ![j] = [p EXCEPT !.at = "create"]]
      BY <2>4 DEF p
    <3>3. Ready("create") /\ p.at \in ImportWork /\ "create" \in ImportPoints
      BY <2>1, <2>2, <3>1 DEF Ready, ImportWork, ImportPoints
    <3> QED
      BY <1>9, <2>1, <3>2, <3>3 DEF Goal
  <2>5. \/ Import(k, TRUE)!Record(j, "ERROR") \/ Import(k, TRUE)!Record(j, "SKIPPED_DUPLICATE")
        \/ ~Import(k, TRUE)!Missing(j) /\ importJob' = [importJob EXCEPT ![j].at = "create"]
    BY <1>12 DEF Import!Look
  <2> QED
    BY <2>3, <2>4, <2>5 DEF Goal
<1>13. CASE Import(k, TRUE)!Create(j)
  <2>1. p.at = "create" /\ UNCHANGED <<importFile, importStatus, importStats, importRecords>>
    BY <1>13 DEF Import!Create, p
  <2>2. p.row \in 1 .. Len(f) /\ f[p.row] \in ImportKeys
    BY <1>2, <2>1 DEF RunFits
  <2>3. CASE Import(k, TRUE)!Record(j, "ERROR") /\ UNCHANGED importMade
    <3>1. RecordedRun(f, p, "ERROR") \in ImportRuns /\ RunFits(f, r, importMade, RecordedRun(f, p, "ERROR"))
      BY <1>1, <1>2, <2>1, RecordFits DEF RowOutcomes
    <3>2. importJob' = [importJob EXCEPT ![j] = RecordedRun(f, p, "ERROR")]
      BY <1>11, <2>3 DEF RowOutcomes
    <3>3. Others
      BY <2>1, <2>3 DEF Others
    <3> QED
      BY <1>6, <3>1, <3>2, <3>3 DEF Goal
  <2>4. CASE Import(k, TRUE)!Record(j, "IMPORTED") /\ importMade' = [importMade EXCEPT ![f[p.row]] = @ + 1]
    <3> DEFINE x == RecordedRun(f, p, "IMPORTED")
    <3>1. /\ importMade' \in [ImportKeys -> Nat] /\ \A n \in ImportKeys : importMade[n] <= importMade'[n]
          /\ importMade'[f[p.row]] > 0
      BY <1>1, <2>2, <2>4
    <3>2. RunFits(f, r, importMade', p) /\ Right(f, importMade', r)
      BY <1>1, <1>2, <3>1, FitsStays, RightStays
    <3>3. x \in ImportRuns /\ RunFits(f, r, importMade', x)
      BY <1>1, <2>1, <2>2, <3>1, <3>2, RecordFits DEF RowOutcomes
    <3>4. importJob' = [importJob EXCEPT ![j] = x]
      BY <1>11, <2>4 DEF RowOutcomes
    <3> HIDE DEF x
    <3>5. importFile' = importFile /\ importStatus' = [importStatus EXCEPT ![j] = importStatus[j]]
          /\ importStats' = [importStats EXCEPT ![j] = c] /\ importRecords' = [importRecords EXCEPT ![j] = r]
      BY <1>4, <2>1
    <3>6. ImportMove(j, x, importStatus[j], c, r)
      BY <1>2, <3>1, <3>2, <3>3, <3>4, <3>5 DEF ImportMove, f
    <3> QED
      BY <1>1, <3>3, <3>6, ImportMoves DEF Goal
  <2> QED
    BY <1>13, <2>3, <2>4 DEF Import!Create, Import!Row, f, p
<1>14. CASE Import(k, TRUE)!Commit(j)
  <2> DEFINE q == r \o p.batch
             a == IF p.row > Len(f) THEN "finish" ELSE "row"
             x == [[p EXCEPT !.batch = <<>>] EXCEPT !.at = a]
  <2>1. /\ p.at = "commit" /\ UNCHANGED <<importFile, importStatus, importStats, importMade>>
        /\ importRecords' = [importRecords EXCEPT ![j] = q]
        /\ importJob' = [importJob EXCEPT ![j] = x]
    BY <1>14 DEF Import!Commit, f, p, r
  <2>2. q \in Seq(RowRecords) /\ Right(f, importMade, q) /\ \A n : NamesRow(q, n) <=> NamesRow(r, n) \/ NamesRow(p.batch, n)
    BY <1>1, <1>2, <1>3, ConcatProperties, RightBoth, NamesBoth DEF RunFits
  <2>3. x \in ImportRuns /\ x.at = a /\ x.batch = <<>> /\ x.row = p.row /\ x.tries = p.tries /\ x.count = p.count
    BY <1>1, <1>3, EmptySeq DEF ImportRuns, ImportPoints
  <2>4. a \in {"finish", "row"} /\ (a = "finish" => p.row > Len(f)) /\ (a = "row" => p.row <= Len(f))
    BY <1>3
  <2> HIDE DEF q, x, a
  <2>5. /\ p.row <= Len(f) + 1 /\ p.tries <= ImportAttempts /\ ImportSum(p.count) + 1 = p.row
        /\ \A n \in 1 .. p.row - 1 : NamesRow(q, n)
    BY <1>2, <2>1, <2>2 DEF RunFits, ImportWork
  <2>6. p.row >= 1 /\ Len(<<>>) = 0 /\ 0 < ImportBatch /\ 0 <= ImportBatch
    <3>1. ImportSum(p.count) \in Nat
      BY <1>3 DEF ImportSum, RowOutcomes
    <3> QED
      BY <1>3, <2>5, <3>1, ImportConstants
  <2>7. Right(f, importMade, <<>>)
    BY DEF Right
  <2>8. RunFits(f, q, importMade, x)
    BY <1>3, <2>3, <2>4, <2>5, <2>6, <2>7 DEF RunFits
  <2>9. IsWhole(f, r, c) => IsWhole(f, q, c)
    BY <2>2 DEF IsWhole
  <2>10. importFile' = importFile /\ importMade' = importMade /\ importStatus' = [importStatus EXCEPT ![j] = importStatus[j]]
         /\ importStats' = [importStats EXCEPT ![j] = c]
    BY <1>4, <2>1
  <2>11. importMade' \in [ImportKeys -> Nat] /\ (\A n \in ImportKeys : importMade[n] <= importMade'[n])
         /\ RunFits(f, q, importMade', x) /\ Right(f, importMade', q)
    BY <1>1, <2>2, <2>8, <2>10
  <2>12. importStatus[j] = "COMPLETED" => IsWhole(f, q, c)
    BY <1>2, <2>9
  <2>13. ImportMove(j, x, importStatus[j], c, q)
    BY <2>1, <2>10, <2>11, <2>12 DEF ImportMove, f
  <2> QED
    BY <1>1, <2>2, <2>3, <2>13, ImportMoves DEF Goal
<1>15. CASE Import(k, TRUE)!Finish(j)
  <2> DEFINE x == [p EXCEPT !.at = "done"]
  <2>1. /\ p.at = "finish" /\ UNCHANGED <<importFile, importRecords, importMade>>
        /\ importStatus' = [importStatus EXCEPT ![j] = "COMPLETED"] /\ importStats' = [importStats EXCEPT ![j] = p.count]
        /\ importJob' = [importJob EXCEPT ![j] = x]
    BY <1>15 DEF Import!Finish, p
  <2>2. x \in ImportRuns /\ x.at = "done" /\ x.batch = p.batch /\ x.row = p.row /\ x.tries = p.tries
    BY <1>1 DEF ImportRuns, ImportPoints
  <2> HIDE DEF x
  <2>3. RunFits(f, r, importMade, x)
    BY <1>2, <2>2 DEF RunFits, ImportWork
  <2>4. IsWhole(f, r, p.count)
    <3>1. /\ p.row = Len(f) + 1 /\ p.batch = <<>> /\ ImportSum(p.count) + 1 = p.row
          /\ \A n \in 1 .. p.row - 1 : NamesRow(r, n) \/ NamesRow(p.batch, n)
      BY <1>2, <2>1 DEF RunFits, ImportWork
    <3>2. \A n : ~NamesRow(<<>>, n)
      BY DEF NamesRow
    <3>3. ImportSum(p.count) \in Nat
      BY <1>3 DEF ImportSum, RowOutcomes
    <3> QED
      BY <1>3, <3>1, <3>2, <3>3 DEF IsWhole
  <2>5. importFile' = importFile /\ importMade' = importMade /\ importRecords' = [importRecords EXCEPT ![j] = r]
    BY <1>4, <2>1
  <2>6. importMade' \in [ImportKeys -> Nat] /\ (\A n \in ImportKeys : importMade[n] <= importMade'[n])
        /\ RunFits(f, r, importMade', x) /\ Right(f, importMade', r)
    BY <1>1, <1>2, <2>3, <2>5
  <2>7. ImportMove(j, x, "COMPLETED", p.count, r)
    BY <2>1, <2>4, <2>5, <2>6 DEF ImportMove, f
  <2>8. "COMPLETED" \in ImportStatuses
    BY DEF ImportStatuses
  <2> QED
    BY <1>1, <1>3, <2>2, <2>7, <2>8, ImportMoves DEF Goal
<1>16. CASE Import(k, TRUE)!Fails(j)
  <2>1. importJob' = [importJob EXCEPT ![j] = [[p EXCEPT !.batch = <<>>] EXCEPT !.at = "failed"]]
        /\ Others
    BY <1>16 DEF Import!Fails, p, ImportTyped, ImportRuns, Others
  <2>2. Fixed /\ importStatus' = [importStatus EXCEPT ![j] = importStatus[j]]
    BY <1>4, <2>1 DEF Fixed, Others
  <2>3. "failed" \in ImportPoints /\ "failed" \notin ImportWork
    BY DEF ImportPoints, ImportWork
  <2> QED
    BY <1>1, <1>8, <2>1, <2>2, <2>3 DEF Goal
<1>17. ASSUME Import(k, TRUE)!Again(j), Fixed,
              importStatus' = [importStatus EXCEPT ![j] = "FAILED"] \/ UNCHANGED importStatus
       PROVE  Goal
  <2> DEFINE a == IF p.tries < ImportAttempts THEN "waiting" ELSE "done"
  <2>1. importJob' = [importJob EXCEPT ![j] = [[p EXCEPT !.batch = <<>>] EXCEPT !.at = a]]
    BY <1>17 DEF Import!Again, p, ImportTyped, ImportRuns
  <2>2. a \in ImportPoints /\ a \notin ImportWork
    BY DEF ImportPoints, ImportWork
  <2> HIDE DEF a
  <2>3. importStatus' = [importStatus EXCEPT ![j] = importStatus[j]] \/ importStatus' = [importStatus EXCEPT ![j] = "FAILED"]
    BY <1>4, <1>17
  <2> QED
    <3>1. "FAILED" \in ImportStatuses /\ "FAILED" # "COMPLETED"
      BY DEF ImportStatuses
    <3>2. CASE importStatus' = [importStatus EXCEPT ![j] = "FAILED"]
      BY <1>8, <1>17, <2>1, <2>2, <3>1, <3>2
    <3>3. CASE importStatus' = [importStatus EXCEPT ![j] = importStatus[j]]
      BY <1>1, <1>8, <1>17, <2>1, <2>2, <3>3
    <3> QED
      BY <2>3, <3>2, <3>3
<1>18. CASE Import(k, TRUE)!MarkFailed(j) \/ Import(k, TRUE)!Dies(j)
  BY <1>17, <1>18 DEF Import!MarkFailed, Import!Dies, Fixed, Goal
<1> QED
  BY <1>7, <1>10, <1>12, <1>13, <1>14, <1>15, <1>16, <1>18 DEF ImportActs, Import!Step, Goal

(* Only creation adds to what there is, and a client only once.              *)
LEMMA ImportStepFresh ==
  ASSUME NEW k \in {"CLIENTS", "SERVICES"}, ImportTyped, ImportFits, ImportFresh(k), NEW j \in ImportJobs, ImportActs(k, j)
  PROVE  ImportFresh(k)'
<1> DEFINE f == importFile[j]
           p == importJob[j]
           y == f[p.row]
<1>1. /\ p \in ImportRuns /\ importMade \in [ImportKeys -> Nat] /\ importJob \in [ImportJobs -> ImportRuns]
      /\ \A n \in ImportKeys : importMade[n] <= 1
  BY DEF ImportTyped, ImportFresh
<1>2. PICK x : importJob' = [importJob EXCEPT ![j] = x] /\ importFile' = importFile
  <2>1. importFile' = importFile
    BY DEF ImportActs, Import!Step, Import!Begin, Import!Fetch, Import!Look, Import!Create, Import!Commit, Import!Finish,
           Import!MarkFailed, Import!Fails, Import!Dies
  <2>2. \E x : importJob' = [importJob EXCEPT ![j] = x]
    <3>1. CASE Import(k, TRUE)!Begin(j) \/ Import(k, TRUE)!Fetch(j) \/ Import(k, TRUE)!Finish(j)
      BY <3>1 DEF Import!Begin, Import!Fetch, Import!Finish
    <3>2. CASE Import(k, TRUE)!Fails(j) \/ Import(k, TRUE)!Dies(j) \/ Import(k, TRUE)!MarkFailed(j) \/ Import(k, TRUE)!Commit(j)
      BY <1>1, <3>2 DEF Import!Fails, Import!Dies, Import!MarkFailed, Import!Commit, Import!Again
    <3>3. ASSUME NEW o, Import(k, TRUE)!Record(j, o) PROVE \E x : importJob' = [importJob EXCEPT ![j] = x]
      <4>1. importJob' = [importJob EXCEPT ![j] = RecordedRun(f, p, o)]
        BY <3>3 DEF Import!Record, RecordedRun, ImportTyped, ImportRuns
      <4> QED
        BY <4>1
    <3>4. CASE Import(k, TRUE)!Look(j) \/ Import(k, TRUE)!Create(j)
      BY <3>3, <3>4 DEF Import!Look, Import!Create
    <3> QED
      BY <3>1, <3>2, <3>3, <3>4 DEF ImportActs, Import!Step
  <2> QED
    BY <2>1, <2>2
<1>3. \A i \in ImportJobs : importJob'[i] = IF i = j THEN x ELSE importJob[i]
  BY <1>1, <1>2
<1>4. \A a : [p EXCEPT !.at = a].at = a /\ [p EXCEPT !.at = a].row = p.row
  BY <1>1 DEF ImportRuns
<1>5. k = "SERVICES" /\ AtWorkImport(j)' => AtWorkImport(j) \/ \A i \in ImportJobs : ~AtWorkImport(i)
  <2> SUFFICES ASSUME k = "SERVICES", ~AtWorkImport(j), ~Import(k, TRUE)!Begin(j) PROVE FALSE
    BY DEF Import!Begin, Import!Busy, AtWorkImport
  <2>1. p.at \in {"waiting", "done"}
    BY DEF AtWorkImport
  <2> QED
    BY <2>1 DEF ImportActs, Import!Step, Import!Fetch, Import!Look, Import!Create, Import!Commit, Import!Finish,
                Import!MarkFailed, Import!Fails, Import!Dies, Import!Busy
<1>6. ASSUME NEW o, Import(k, TRUE)!Record(j, o) PROVE x.at \in {"commit", "row"}
  <2>1. importJob'[j].at \in {"commit", "row"}
    BY <1>1, <1>6 DEF Import!Record, ImportRuns
  <2> QED
    BY <1>3, <2>1
<1>7. x.at = "create" => importMade' = importMade /\ x.row = p.row /\ importMade[y] = 0
  <2> SUFFICES ASSUME x.at = "create" PROVE importMade' = importMade /\ x.row = p.row /\ importMade[y] = 0
    OBVIOUS
  <2>1. \A o : ~Import(k, TRUE)!Record(j, o)
    BY <1>6
  <2>2. x = importJob'[j] /\ importJob'[j].at = "create"
    BY <1>3
  <2>3. ~Import(k, TRUE)!Begin(j) /\ ~Import(k, TRUE)!Fetch(j) /\ ~Import(k, TRUE)!Finish(j)
    BY <1>1, <2>2 DEF Import!Begin, Import!Fetch, Import!Finish, Import!NewJob, ImportRuns
  <2>4. ~Import(k, TRUE)!Commit(j) /\ ~Import(k, TRUE)!Fails(j) /\ ~Import(k, TRUE)!Again(j)
    BY <1>1, <2>2 DEF Import!Commit, Import!Fails, Import!Again, ImportRuns
  <2>5. ~Import(k, TRUE)!Create(j) /\ ~Import(k, TRUE)!Dies(j) /\ ~Import(k, TRUE)!MarkFailed(j)
    BY <2>1, <2>4 DEF Import!Create, Import!Dies, Import!MarkFailed
  <2>6. /\ p.at = "row" /\ ~Import(k, TRUE)!Missing(j) /\ ~Import(k, TRUE)!Known(j)
        /\ importJob' = [importJob EXCEPT ![j].at = "create"] /\ importMade' = importMade
    <3>1. Import(k, TRUE)!Look(j)
      BY <2>3, <2>4, <2>5 DEF ImportActs, Import!Step
    <3> QED
      BY <2>1, <3>1 DEF Import!Look
  <2>7. x = [p EXCEPT !.at = "create"]
    BY <1>1, <2>2, <2>6
  <2>8. y \in ImportKeys
    <3>1. RunFits(f, importRecords[j], importMade, p)
      BY DEF ImportFits
    <3>2. p.row \in 1 .. Len(f)
      BY <2>6, <3>1 DEF RunFits
    <3>3. f \in Seq(ImportKeys \cup {Bad})
      BY DEF ImportTyped
    <3> QED
      BY <2>6, <3>2, <3>3 DEF Import!Missing, Import!Row
  <2>9. ~(importMade[y] > 0) /\ importMade[y] \in Nat
    BY <1>1, <2>6, <2>8 DEF Import!Known, Import!Row
  <2> QED
    BY <1>4, <2>6, <2>7, <2>9
<1>8. importMade' = importMade
      \/ (p.at = "create" /\ y \in ImportKeys /\ importMade[y] = 0 /\ importMade' = [importMade EXCEPT ![y] = @ + 1])
  <2> SUFFICES ASSUME importMade' # importMade
               PROVE  p.at = "create" /\ y \in ImportKeys /\ importMade[y] = 0 /\ importMade' = [importMade EXCEPT ![y] = @ + 1]
    OBVIOUS
  <2>1. Import(k, TRUE)!Create(j)
    BY DEF ImportActs, Import!Step, Import!Begin, Import!Fetch, Import!Look, Import!Commit, Import!Finish,
           Import!MarkFailed, Import!Fails, Import!Dies
  <2>2. p.at = "create" /\ ~Import(k, TRUE)!Refused(j) /\ importMade' = [importMade EXCEPT ![y] = @ + 1]
    BY <2>1 DEF Import!Create, Import!Row
  <2>3. y \in ImportKeys
    <3>1. RunFits(f, importRecords[j], importMade, p)
      BY DEF ImportFits
    <3> QED
      BY <2>2, <3>1 DEF RunFits
  <2>4. importMade[y] \in Nat
    BY <1>1, <2>3
  <2>5. CASE k = "CLIENTS"
    BY <2>2, <2>3, <2>4, <2>5 DEF Import!Refused, Import!Row
  <2>6. CASE k = "SERVICES"
    BY <2>2, <2>3, <2>6 DEF ImportFresh
  <2> QED
    BY <2>2, <2>3, <2>5, <2>6
<1> HIDE DEF f, p, y
<1>9. \A n \in ImportKeys : importMade'[n] <= 1
  <2>1. CASE importMade' = importMade
    BY <1>1, <2>1
  <2>2. CASE importMade[y] = 0 /\ importMade' = [importMade EXCEPT ![y] = @ + 1]
    BY <1>1, <2>2
  <2> QED
    BY <1>8, <2>1, <2>2
<1>10. ASSUME k = "SERVICES"
       PROVE  /\ \A i, d \in ImportJobs : AtWorkImport(i)' /\ AtWorkImport(d)' => i = d
              /\ \A i \in ImportJobs : importJob'[i].at = "create" => importMade'[importFile'[i][importJob'[i].row]] = 0
  <2>1. \A i, d \in ImportJobs : AtWorkImport(i) /\ AtWorkImport(d) => i = d
    BY <1>10 DEF ImportFresh
  <2>2. \A i \in ImportJobs : i # j => (AtWorkImport(i)' <=> AtWorkImport(i)) /\ importJob'[i] = importJob[i]
    BY <1>3 DEF AtWorkImport
  <2>3. \A i, d \in ImportJobs : AtWorkImport(i)' /\ AtWorkImport(d)' => i = d
    BY <1>5, <1>10, <2>1, <2>2
  <2>4. ASSUME NEW i \in ImportJobs, importJob'[i].at = "create"
        PROVE  importMade'[importFile'[i][importJob'[i].row]] = 0
    <3>1. CASE i = j
      BY <1>2, <1>3, <1>7, <2>4, <3>1 DEF f, p, y
    <3>2. CASE i # j
      <4>1. importMade[importFile[i][importJob[i].row]] = 0 /\ importJob'[i] = importJob[i] /\ AtWorkImport(i)
        BY <1>10, <2>2, <2>4, <3>2 DEF ImportFresh, AtWorkImport
      <4>2. ~AtWorkImport(j)
        BY <2>1, <3>2, <4>1
      <4>3. importMade' = importMade
        BY <1>8, <4>2 DEF AtWorkImport, p
      <4> QED
        BY <1>2, <4>1, <4>3
    <3> QED
      BY <3>1, <3>2
  <2> QED
    BY <2>3, <2>4
<1> QED
  BY <1>9, <1>10 DEF ImportFresh

LEMMA ImportStep ==
  ASSUME NEW k \in {"CLIENTS", "SERVICES"}, ImportInv(k), [Import(k, TRUE)!Next]_importVars
  PROVE  ImportInv(k)'
<1>1. CASE UNCHANGED importVars
  BY <1>1 DEF importVars, ImportInv, ImportFiles, ImportTyped, ImportFits, ImportFresh, AtWorkImport
<1>2. ASSUME NEW j \in ImportJobs, ImportActs(k, j) PROVE ImportInv(k)'
  <2>1. ImportTyped' /\ ImportFits' /\ ImportFresh(k)'
    BY <1>2, ImportStepFits, ImportStepFresh DEF ImportInv
  <2>2. importFile' = importFile
    BY <1>2 DEF ImportActs, Import!Step, Import!Begin, Import!Fetch, Import!Look, Import!Create, Import!Commit, Import!Finish,
                Import!MarkFailed, Import!Fails, Import!Dies
  <2> QED
    BY <2>1, <2>2 DEF ImportInv, ImportFiles
<1>3. CASE Import(k, TRUE)!Next
  BY <1>2, <1>3 DEF Import!Next, ImportActs
<1> QED
  BY <1>1, <1>3

LEMMA ImportTells == ASSUME NEW k \in {"CLIENTS", "SERVICES"}, ImportInv(k) PROVE ImportedWhole(k)
<1>1. ImportTyped /\ ImportFits /\ ImportFresh(k) /\ ImportFiles(k)
  BY DEF ImportInv
<1>2. ASSUME NEW j \in ImportJobs
      PROVE  /\ DOMAIN importFile[j] = 1 .. Len(importFile[j])
             /\ \A i \in DOMAIN importRecords[j] : importRecords[j][i] \in RowRecords /\ importRecords[j][i].row \in DOMAIN importFile[j]
             /\ importJob[j] \in ImportRuns
             /\ RunFits(importFile[j], importRecords[j], importMade, importJob[j])
  <2>1. importFile[j] \in Seq(ImportKeys \cup {Bad}) /\ importRecords[j] \in Seq(RowRecords) /\ importJob[j] \in ImportRuns
    BY <1>1 DEF ImportTyped
  <2>2. DOMAIN importRecords[j] = 1 .. Len(importRecords[j])
    BY <2>1, LenProperties
  <2> QED
    BY <1>1, <2>1, <2>2, ElementOfSeq, LenProperties DEF ImportFits, Right
<1>3. Import(k, TRUE)!TypeOK
  <2>1. importFile \in [ImportJobs -> IF k = "CLIENTS" THEN ClientFiles ELSE ServiceFiles]
    BY <1>1 DEF ImportFiles
  <2>2. importMade \in [ImportKeys -> Nat] /\ importStatus \in [ImportJobs -> {"PENDING", "PROCESSING", "COMPLETED", "FAILED"}]
        /\ importStats \in [ImportJobs -> [RowOutcomes -> Nat]]
    BY <1>1 DEF ImportTyped
  <2>3. ASSUME NEW j \in ImportJobs
        PROVE  /\ \A i \in DOMAIN importRecords[j] : importRecords[j][i] \in [row: DOMAIN importFile[j], status: RowOutcomes]
               /\ importJob[j].at \in ImportPoints /\ importJob[j].row \in 0 .. Len(importFile[j]) + 1
               /\ importJob[j].tries \in 0 .. ImportAttempts /\ Len(importJob[j].batch) <= ImportBatch
    <3>1. importJob[j].row \in Nat /\ importJob[j].tries \in Nat /\ importJob[j].at \in ImportPoints
      BY <1>2 DEF ImportRuns
    <3>2. importJob[j].row <= Len(importFile[j]) + 1 /\ importJob[j].tries <= ImportAttempts /\ Len(importJob[j].batch) <= ImportBatch
      BY <1>2 DEF RunFits
    <3>3. Len(importFile[j]) \in Nat
      BY <1>1, LenProperties DEF ImportTyped
    <3>4. \A i \in DOMAIN importRecords[j] : importRecords[j][i] \in [row: DOMAIN importFile[j], status: RowOutcomes]
      BY <1>2 DEF RowRecords
    <3> QED
      BY <3>1, <3>2, <3>3, <3>4, ImportConstants
  <2> QED
    BY <2>1, <2>2, <2>3 DEF Import!TypeOK, Import!Outcomes, RowOutcomes, ImportPoints
<1>4. Import(k, TRUE)!CompletedIsWhole
  <2> SUFFICES ASSUME NEW j \in ImportJobs, importStatus[j] = "COMPLETED"
               PROVE  /\ importStats[j]["IMPORTED"] + importStats[j]["SKIPPED_DUPLICATE"] + importStats[j]["ERROR"] = Len(importFile[j])
                      /\ \A n \in DOMAIN importFile[j] : \E i \in DOMAIN importRecords[j] : importRecords[j][i].row = n
    BY DEF Import!CompletedIsWhole
  <2> QED
    BY <1>1, <1>2 DEF ImportFits, IsWhole, ImportSum, NamesRow
<1>5. Import(k, TRUE)!ImportedIsThere
  BY <1>1 DEF Import!ImportedIsThere, ImportFits, Right
<1>6. Import(k, TRUE)!NoneDoubled
  BY <1>1 DEF Import!NoneDoubled, ImportFresh
<1> QED
  BY <1>3, <1>4, <1>5, <1>6 DEF ImportedWhole

LEMMA ImportTurns ==
  ASSUME [Next]_vars
  PROVE  /\ under = "clients" => [Import("CLIENTS", TRUE)!Next]_importVars
         /\ under = "services" => [Import("SERVICES", TRUE)!Next]_importVars
BY DEF Next, Turn, NoticesNext, vars, noticeVars, NotNotice, NotBreaker, NotHook, NotFlow, NotWait, NotMail, NotInbox,
       NotSub, NotConnect, NotSync, NotRemind, NotImport, NotNews, NotScreen, NotDigest

(* However often an import is run again, wherever it dies and whatever else   *)
(* is imported at the time, a completed one counts and records each row of    *)
(* its file, what it calls imported is there, and no client is there twice:   *)
(* for any files, batches, attempts and number of imports.                   *)
THEOREM ImportsAreWhole == Spec => []ImportedOnce
<1> DEFINE Inv == (under = "clients" => ImportInv("CLIENTS")) /\ (under = "services" => ImportInv("SERVICES"))
<1>1. Init => Inv
  <2> SUFFICES ASSUME Init, under \in {"clients", "services"} PROVE Inv
    OBVIOUS
  <2>1. /\ Import("SERVICES", TRUE)!Init
        /\ under # "services" => \A j \in DOMAIN importFile : importFile[j] \in ClientFiles
    BY DEF Init, Start, NoticesInit
  <2>2. CASE under = "clients"
    BY <2>1, <2>2, ImportInit
  <2>3. CASE under = "services"
    BY <2>1, <2>3, ImportInit
  <2> QED
    BY <2>2, <2>3
<1>2. Inv /\ [Next]_vars => Inv'
  <2> SUFFICES ASSUME Inv, [Next]_vars PROVE Inv'
    OBVIOUS
  <2>1. under' = under
    BY UnderStays
  <2>2. under = "clients" => ImportInv("CLIENTS")'
    BY ImportTurns, ImportStep
  <2>3. under = "services" => ImportInv("SERVICES")'
    BY ImportTurns, ImportStep
  <2> QED
    BY <2>1, <2>2, <2>3
<1>3. Inv => ImportedOnce
  BY ImportTells DEF ImportedOnce
<1> QED
  BY <1>1, <1>2, <1>3, PTL DEF Spec
-----------------------------------------------------------------------------
(* Digests.                                                                  *)
DigestPoints == {"idle", "read", "mail", "record", "mark"}
DigestKinds  == {"HOURLY", "DAILY"}
DigestTurns(t) == [at: DigestPoints, kind: DigestKinds, cutoff: 0 .. t, list: SUBSET DigestNotes]

DigestTime(b) == IF b THEN MaxHourlyDigests ELSE MaxDigestTime
DigestCuts(b) == IF b THEN 0 ELSE MaxDigestCuts

LEMMA DigestFinite ==
  ASSUME NEW CONSTANT b, NEW S
  PROVE  (Digest(b)!IsFiniteSet(S) <=> IsFiniteSet(S)) /\ Digest(b)!Cardinality(S) = Cardinality(S)
<1>1. Digest(b)!IsFiniteSet(S) <=> IsFiniteSet(S)
  BY DEF Digest!IsFiniteSet, IsFiniteSet
<1>2. Digest(b)!Cardinality(S) = Cardinality(S)
  BY DEF Digest!Cardinality, Cardinality
<1> QED
  BY <1>1, <1>2

LEMMA DigestConstants ==
  /\ IsFiniteSet(DigestNotes) /\ IsFiniteSet(DigestRuns)
  /\ DigestDay \in Nat \ {0} /\ HourlyDigestCap \in Nat \ {0}
  /\ \A b \in BOOLEAN : DigestTime(b) \in Nat \ {0} /\ DigestCuts(b) \in Nat
<1>1. \A b \in BOOLEAN : Digest(b)!DigestAssumption
  BY MessagesAssumption DEF NoticesAssumed
<1>2. Digest(TRUE)!DigestAssumption /\ Digest(FALSE)!DigestAssumption
  BY <1>1
<1>3. /\ IsFiniteSet(DigestNotes) /\ IsFiniteSet(DigestRuns)
      /\ DigestDay \in Nat \ {0} /\ HourlyDigestCap \in Nat \ {0} /\ MaxHourlyDigests \in Nat \ {0} /\ MaxDigestTime \in Nat \ {0}
      /\ MaxDigestCuts \in Nat
  BY <1>2, DigestFinite DEF Digest!DigestAssumption
<1>4. DigestTime(TRUE) \in Nat \ {0} /\ DigestTime(FALSE) \in Nat \ {0} /\ DigestCuts(TRUE) \in Nat /\ DigestCuts(FALSE) \in Nat
  BY <1>3 DEF DigestTime, DigestCuts
<1> QED
  BY <1>3, <1>4

DigestTyped(b) ==
  /\ digestNow \in 1 .. DigestTime(b) /\ digestFreq \in DigestFrequencies
  /\ digestCreated \in [DigestNotes -> 0 .. DigestTime(b)]
  /\ digestRead \in [DigestNotes -> BOOLEAN] /\ digestMailed \in [DigestNotes -> Nat] /\ digestRows \subseteq SUBSET DigestNotes
  /\ digestRun \in [DigestRuns -> DigestTurns(DigestTime(b))]
  /\ digestRan \subseteq DigestKinds /\ digestCuts \in 0 .. DigestCuts(b) /\ digestCut \in 0 .. digestCuts

(* A notification was mailed at most as often as runs were cut off, and once   *)
(* more if it is read or about to be marked.                                 *)
Mailing(n) == \E r \in DigestRuns : digestRun[r].at \in {"record", "mark"} /\ n \in digestRun[r].list

DigestOnce ==
  /\ \A n \in DigestNotes :
       \/ digestMailed[n] <= digestCut
       \/ digestMailed[n] <= digestCut + 1 /\ (digestRead[n] = TRUE \/ Mailing(n))
  /\ \A r \in DigestRuns : digestRun[r].at = "mail" => \A n \in digestRun[r].list : digestMailed[n] <= digestCut

DigestNamed ==
  /\ \A d \in digestRows : \A n \in d : digestMailed[n] > 0
  /\ \A r \in DigestRuns : digestRun[r].at = "record" => \A n \in digestRun[r].list : digestMailed[n] > 0

OneDigester == \A q, r \in DigestRuns : q = r

DigestMail == (OneDigester => DigestOnce) /\ DigestNamed

LEMMA DigestInit ==
  ASSUME NEW CONSTANT b \in BOOLEAN, NEW CONSTANT c \in BOOLEAN, Digest(c)!Init PROVE DigestTyped(b) /\ DigestMail
<1> DEFINE idle == [at |-> "idle", kind |-> "HOURLY", cutoff |-> 0, list |-> {}]
           t == DigestTime(b)
<1>1. t \in Nat \ {0} /\ DigestCuts(b) \in Nat
  BY DigestConstants
<1>2. idle \in DigestTurns(t) /\ idle.at = "idle" /\ Digest(c)!Idle = idle
  BY <1>1 DEF DigestTurns, DigestPoints, DigestKinds, Digest!Idle
<1> HIDE DEF idle
<1>3. digestRun = [r \in DigestRuns |-> idle] /\ digestMailed = [n \in DigestNotes |-> 0] /\ digestCut = 0 /\ digestRows = {}
  BY <1>2 DEF Digest!Init
<1>4. DigestTyped(b)
  BY <1>1, <1>2, <1>3 DEF DigestTyped, Digest!Init
<1>5. DigestMail
  BY <1>2, <1>3 DEF DigestMail, DigestOnce, DigestNamed
<1> QED
  BY <1>4, <1>5

(* What the jobs do.                                                         *)
DigestGoes(b, r) ==
  \/ Digest(b)!Read(r) \/ Digest(b)!Mail(r) \/ Digest(b)!Record(r) \/ Digest(b)!Mark(r) \/ Digest(b)!CutOff(r)
  \/ \E k \in DigestKinds : Digest(b)!Start(r, k)

DigestOthers(b) ==
  \/ Digest(b)!Tick \/ Digest(b)!markAllRead
  \/ \E n \in DigestNotes : Digest(b)!Create(n) \/ Digest(b)!ReadOne(n)
  \/ \E f \in DigestFrequencies : Digest(b)!updateDigestFrequency(f)

LEMMA DigestOthersStep ==
  ASSUME NEW CONSTANT b \in BOOLEAN, DigestTyped(b), DigestOthers(b)
  PROVE  /\ DigestTyped(b)' /\ (DigestMail => DigestMail')
<1>1. DigestTyped(b)'
  <2>1. DigestTime(b) \in Nat \ {0}
    BY DigestConstants
  <2>2. CASE Digest(b)!Tick
    <3>1. digestNow' = digestNow + 1 /\ digestNow < DigestTime(b) /\ digestRan' = {}
          /\ UNCHANGED <<digestFreq, digestCreated, digestRead, digestMailed, digestRows, digestRun, digestCuts, digestCut>>
      BY <2>2 DEF Digest!Tick, DigestTime
    <3> QED
      BY <2>1, <3>1 DEF DigestTyped
  <2>3. CASE Digest(b)!markAllRead
    <3>1. digestRead' \in [DigestNotes -> BOOLEAN]
          /\ UNCHANGED <<digestNow, digestFreq, digestCreated, digestMailed, digestRows, digestRun, digestRan, digestCuts, digestCut>>
      BY <2>3 DEF Digest!markAllRead, DigestTyped
    <3> QED
      BY <3>1 DEF DigestTyped
  <2>4. ASSUME NEW n \in DigestNotes, Digest(b)!Create(n) PROVE DigestTyped(b)'
    <3>1. digestCreated' = [digestCreated EXCEPT ![n] = digestNow]
          /\ UNCHANGED <<digestNow, digestFreq, digestRead, digestMailed, digestRows, digestRun, digestRan, digestCuts, digestCut>>
      BY <2>4 DEF Digest!Create
    <3>2. digestCreated' \in [DigestNotes -> 0 .. DigestTime(b)]
      BY <2>1, <3>1 DEF DigestTyped
    <3> QED
      BY <3>1, <3>2 DEF DigestTyped
  <2>5. ASSUME NEW n \in DigestNotes, Digest(b)!ReadOne(n) PROVE DigestTyped(b)'
    <3>1. digestRead' = [digestRead EXCEPT ![n] = TRUE]
          /\ UNCHANGED <<digestNow, digestFreq, digestCreated, digestMailed, digestRows, digestRun, digestRan, digestCuts, digestCut>>
      BY <2>5 DEF Digest!ReadOne
    <3> QED
      BY <3>1 DEF DigestTyped
  <2>6. ASSUME NEW f \in DigestFrequencies, Digest(b)!updateDigestFrequency(f) PROVE DigestTyped(b)'
    BY <2>6 DEF Digest!updateDigestFrequency, DigestTyped
  <2> QED
    BY <2>2, <2>3, <2>4, <2>5, <2>6 DEF DigestOthers
<1>2. UNCHANGED <<digestMailed, digestRows, digestRun, digestCut>>
  BY DEF DigestOthers, Digest!Tick, Digest!markAllRead, Digest!Create, Digest!ReadOne, Digest!updateDigestFrequency
<1>3. \A n \in DigestNotes : digestRead[n] = TRUE => digestRead'[n] = TRUE
  <2>1. CASE Digest(b)!markAllRead
    <3>1. \A n \in DigestNotes : digestRead'[n] = (digestRead[n] \/ digestCreated[n] > 0)
      BY <2>1 DEF Digest!markAllRead
    <3> QED
      BY <3>1, Zenon
  <2>2. ASSUME NEW m \in DigestNotes, Digest(b)!ReadOne(m) PROVE \A n \in DigestNotes : digestRead[n] = TRUE => digestRead'[n] = TRUE
    BY <2>2 DEF Digest!ReadOne, DigestTyped
  <2>3. CASE digestRead' = digestRead
    BY <2>3
  <2> QED
    BY <2>1, <2>2, <2>3 DEF DigestOthers, Digest!Tick, Digest!Create, Digest!updateDigestFrequency
<1>4. DigestMail => DigestMail'
  <2>1. \A n \in DigestNotes : Mailing(n) = Mailing(n)'
    BY <1>2 DEF Mailing
  <2>2. DigestOnce => DigestOnce'
    BY <1>2, <1>3, <2>1 DEF DigestOnce
  <2>3. DigestNamed => DigestNamed'
    BY <1>2 DEF DigestNamed
  <2> QED
    BY <2>2, <2>3 DEF DigestMail, OneDigester
<1> QED
  BY <1>1, <1>4

(* What a run becomes by each of its steps.                                  *)
DigestIdle == [at |-> "idle", kind |-> "HOURLY", cutoff |-> 0, list |-> {}]

DigestFrom(k) ==
  IF digestNow > (IF k = "HOURLY" THEN 1 ELSE DigestDay) THEN digestNow - (IF k = "HOURLY" THEN 1 ELSE DigestDay) ELSE 0

DigestStarts(b, r, x) ==
  /\ digestRun[r].at = "idle"
  /\ \E k \in DigestKinds :
       /\ digestRan' = digestRan \cup {k} /\ (b = TRUE => k \notin digestRan)
       /\ \/ digestFreq # k /\ x = DigestIdle
          \/ digestFreq = k /\ x = [at |-> "read", kind |-> k, cutoff |-> DigestFrom(k), list |-> {}]
  /\ UNCHANGED <<digestRead, digestMailed, digestRows, digestCuts, digestCut>>

DigestCapOf(b) == IF b THEN HourlyDigestCap ELSE DigestCap

DigestReads(b, r, x) ==
  /\ digestRun[r].at = "read"
  /\ \E list \in SUBSET Digest(b)!Waiting(r) :
       /\ x = IF list = {} THEN DigestIdle ELSE [[digestRun[r] EXCEPT !.list = list] EXCEPT !.at = "mail"]
       /\ Cardinality(list) = IF Cardinality(Digest(b)!Waiting(r)) < DigestCapOf(b) THEN Cardinality(Digest(b)!Waiting(r)) ELSE DigestCapOf(b)
  /\ UNCHANGED <<digestRead, digestMailed, digestRows, digestRan, digestCuts, digestCut>>

DigestMails(r, x) ==
  /\ digestRun[r].at = "mail" /\ x = [digestRun[r] EXCEPT !.at = "record"]
  /\ digestMailed' = [n \in DigestNotes |-> IF n \in digestRun[r].list THEN digestMailed[n] + 1 ELSE digestMailed[n]]
  /\ UNCHANGED <<digestRead, digestRows, digestRan, digestCuts, digestCut>>

DigestRecords(r, x) ==
  /\ digestRun[r].at = "record" /\ x = [digestRun[r] EXCEPT !.at = "mark"]
  /\ digestRows' = digestRows \cup {digestRun[r].list}
  /\ UNCHANGED <<digestRead, digestMailed, digestRan, digestCuts, digestCut>>

DigestMarks(r, x) ==
  /\ digestRun[r].at = "mark" /\ x = DigestIdle
  /\ digestRead' = [n \in DigestNotes |-> (digestRead[n] \/ n \in digestRun[r].list)]
  /\ UNCHANGED <<digestMailed, digestRows, digestRan, digestCuts, digestCut>>

DigestFails(b, r, x) ==
  /\ digestCuts < DigestCuts(b) /\ digestCuts' = digestCuts + 1 /\ x = DigestIdle
  /\ digestCut' = IF digestRun[r].at \in {"record", "mark"} THEN digestCut + 1 ELSE digestCut
  /\ UNCHANGED <<digestRead, digestMailed, digestRows, digestRan>>

DigestShape(b, r, x) ==
  /\ digestRun' = [digestRun EXCEPT ![r] = x]
  /\ UNCHANGED <<digestNow, digestFreq, digestCreated>>
  /\ \/ DigestStarts(b, r, x) \/ DigestReads(b, r, x) \/ DigestMails(r, x)
     \/ DigestRecords(r, x) \/ DigestMarks(r, x) \/ DigestFails(b, r, x)

LEMMA DigestShapes ==
  ASSUME NEW CONSTANT b \in BOOLEAN, DigestTyped(b), NEW r \in DigestRuns, DigestGoes(b, r)
  PROVE  \E x \in DigestTurns(DigestTime(b)) : DigestShape(b, r, x)
<1> USE DEF DigestShape, DigestStarts, DigestReads, DigestMails, DigestRecords, DigestMarks, DigestFails, DigestCapOf
<1> DEFINE t == DigestTime(b)
           p == digestRun[r]
<1>1. t \in Nat \ {0} /\ DigestDay \in Nat \ {0} /\ digestNow \in 1 .. t /\ p \in DigestTurns(t)
  BY DigestConstants DEF DigestTyped
<1>2. DigestIdle \in DigestTurns(t) /\ Digest(b)!Idle = DigestIdle
  BY <1>1 DEF DigestIdle, DigestTurns, DigestPoints, DigestKinds, Digest!Idle
<1>3. ASSUME NEW k \in DigestKinds
      PROVE  [at |-> "read", kind |-> k, cutoff |-> DigestFrom(k), list |-> {}] \in DigestTurns(t)
  BY <1>1 DEF DigestFrom, DigestTurns, DigestPoints
<1>4. CASE \E k \in DigestKinds : Digest(b)!Start(r, k)
  <2>1. PICK k \in DigestKinds : Digest(b)!Start(r, k)
    BY <1>4
  <2>2. /\ p.at = "idle" /\ digestRan' = digestRan \cup {k} /\ (b = TRUE => k \notin digestRan)
        /\ UNCHANGED <<digestNow, digestFreq, digestCreated, digestRead, digestMailed, digestRows, digestCuts, digestCut>>
    BY <2>1 DEF Digest!Start
  <2>3. CASE digestFreq # k
    <3>1. digestRun' = [digestRun EXCEPT ![r] = DigestIdle]
      BY <1>2, <2>1, <2>3 DEF Digest!Start, Digest!Goes
    <3> QED
      BY <1>2, <2>2, <2>3, <3>1
  <2>4. CASE digestFreq = k
    <3> DEFINE x == [at |-> "read", kind |-> k, cutoff |-> DigestFrom(k), list |-> {}]
    <3>1. digestRun' = [digestRun EXCEPT ![r] =
            [DigestIdle EXCEPT !.at = "read", !.kind = k, !.cutoff = DigestFrom(k)]]
      BY <1>2, <2>1, <2>4 DEF Digest!Start, Digest!Goes, Digest!Window, DigestFrom
    <3> DEFINE c == DigestFrom(k)
               d == [at |-> "idle", kind |-> "HOURLY", cutoff |-> 0, list |-> {}]
    <3> HIDE DEF c
    <3>2. [d EXCEPT !.at = "read", !.kind = k, !.cutoff = c] = [[[d EXCEPT !.at = "read"] EXCEPT !.kind = k] EXCEPT !.cutoff = c]
      OBVIOUS
    <3>3. [d EXCEPT !.at = "read"] = [at |-> "read", kind |-> "HOURLY", cutoff |-> 0, list |-> {}]
      OBVIOUS
    <3>4. [[at |-> "read", kind |-> "HOURLY", cutoff |-> 0, list |-> {}] EXCEPT !.kind = k]
            = [at |-> "read", kind |-> k, cutoff |-> 0, list |-> {}]
      OBVIOUS
    <3>5. [[at |-> "read", kind |-> k, cutoff |-> 0, list |-> {}] EXCEPT !.cutoff = c] = [at |-> "read", kind |-> k, cutoff |-> c, list |-> {}]
      OBVIOUS
    <3>6. digestRun' = [digestRun EXCEPT ![r] = x]
      BY <3>1, <3>2, <3>3, <3>4, <3>5 DEF c, DigestIdle
    <3>7. x \in DigestTurns(t)
      BY <1>3
    <3> HIDE DEF x
    <3> QED
      BY <2>2, <2>4, <3>6, <3>7 DEF x
  <2> QED
    BY <2>3, <2>4
<1>5. CASE Digest(b)!Read(r)
  <2> DEFINE w == Digest(b)!Waiting(r)
             cap == IF b THEN HourlyDigestCap ELSE DigestCap
  <2>1. PICK list \in SUBSET w :
          /\ Digest(b)!Cardinality(list) = (IF Digest(b)!Cardinality(w) < cap THEN Digest(b)!Cardinality(w) ELSE cap)
          /\ digestRun' = [digestRun EXCEPT ![r] = IF list = {} THEN Digest(b)!Idle ELSE [p EXCEPT !.at = "mail", !.list = list]]
    BY <1>5 DEF Digest!Read, Digest!Goes
  <2>2. p.at = "read"
        /\ UNCHANGED <<digestNow, digestFreq, digestCreated, digestRead, digestMailed, digestRows, digestRan, digestCuts, digestCut>>
    BY <1>5 DEF Digest!Read
  <2>3. Cardinality(list) = (IF Cardinality(w) < cap THEN Cardinality(w) ELSE cap)
    BY <2>1, DigestFinite
  <2>4. w \subseteq DigestNotes
    BY DEF Digest!Waiting
  <2> HIDE DEF w, cap
  <2> DEFINE m == [[p EXCEPT !.list = list] EXCEPT !.at = "mail"]
             x == IF list = {} THEN DigestIdle ELSE m
  <2>5. [p EXCEPT !.at = "mail", !.list = list] = m
    BY <1>1 DEF DigestTurns
  <2>6. m \in DigestTurns(t)
    BY <1>1, <2>4 DEF DigestTurns, DigestPoints
  <2>7. x \in DigestTurns(t) /\ digestRun' = [digestRun EXCEPT ![r] = x]
    BY <1>2, <2>1, <2>5, <2>6
  <2> HIDE DEF m
  <2>8. x = IF list = {} THEN DigestIdle ELSE [[p EXCEPT !.list = list] EXCEPT !.at = "mail"]
    BY DEF m
  <2> HIDE DEF x
  <2> QED
    BY <1>5, <2>2, <2>3, <2>7, <2>8 DEF w, cap
<1>6. CASE Digest(b)!Mail(r)
  <2>1. [p EXCEPT !.at = "record"] \in DigestTurns(t)
    BY <1>1 DEF DigestTurns, DigestPoints
  <2> QED
    BY <1>6, <2>1 DEF Digest!Mail, Digest!Goes
<1>7. CASE Digest(b)!Record(r)
  <2>1. [p EXCEPT !.at = "mark"] \in DigestTurns(t)
    BY <1>1 DEF DigestTurns, DigestPoints
  <2> QED
    BY <1>7, <2>1 DEF Digest!Record, Digest!Goes
<1>8. CASE Digest(b)!Mark(r)
  <2>1. /\ p.at = "mark" /\ digestRun' = [digestRun EXCEPT ![r] = DigestIdle]
        /\ UNCHANGED <<digestNow, digestFreq, digestCreated, digestMailed, digestRows, digestRan, digestCuts, digestCut>>
    BY <1>2, <1>8 DEF Digest!Mark, Digest!Goes
  <2>2. digestRead' = [n \in DigestNotes |-> (digestRead[n] \/ n \in digestRun[r].list)]
    BY <1>8, Zenon DEF Digest!Mark
  <2> QED
    BY <1>2, <2>1, <2>2
<1>9. CASE Digest(b)!CutOff(r)
  <2>1. /\ digestCuts < DigestCuts(b) /\ digestCuts' = digestCuts + 1 /\ digestRun' = [digestRun EXCEPT ![r] = DigestIdle]
        /\ digestCut' = IF digestRun[r].at \in {"record", "mark"} THEN digestCut + 1 ELSE digestCut
        /\ UNCHANGED <<digestNow, digestFreq, digestCreated, digestRead, digestMailed, digestRows, digestRan>>
    BY <1>2, <1>9 DEF Digest!CutOff, Digest!Goes, DigestCuts
  <2> QED
    BY <1>2, <2>1
<1> QED
  BY <1>4, <1>5, <1>6, <1>7, <1>8, <1>9 DEF DigestGoes

LEMMA DigestTurnTyped ==
  ASSUME NEW CONSTANT b \in BOOLEAN, DigestTyped(b), NEW r \in DigestRuns, NEW x \in DigestTurns(DigestTime(b)), DigestShape(b, r, x)
  PROVE  DigestTyped(b)'
<1> DEFINE t == DigestTime(b)
<1>1. digestRun' \in [DigestRuns -> DigestTurns(t)] /\ UNCHANGED <<digestNow, digestFreq, digestCreated>>
  BY DEF DigestShape, DigestTyped
<1>2. CASE DigestStarts(b, r, x)
  BY <1>1, <1>2 DEF DigestStarts, DigestTyped
<1>3. CASE DigestReads(b, r, x)
  BY <1>1, <1>3 DEF DigestReads, DigestTyped
<1>4. CASE DigestMails(r, x)
  <2>1. digestMailed' \in [DigestNotes -> Nat]
    BY <1>4 DEF DigestMails, DigestTyped
  <2> QED
    BY <1>1, <1>4, <2>1 DEF DigestMails, DigestTyped
<1>5. CASE DigestRecords(r, x)
  <2>1. digestRun[r].list \subseteq DigestNotes
    BY DEF DigestTyped, DigestTurns
  <2> QED
    BY <1>1, <1>5, <2>1 DEF DigestRecords, DigestTyped
<1>6. CASE DigestMarks(r, x)
  <2>1. digestRead' \in [DigestNotes -> BOOLEAN]
    BY <1>6 DEF DigestMarks, DigestTyped
  <2> QED
    BY <1>1, <1>6, <2>1 DEF DigestMarks, DigestTyped
<1>7. CASE DigestFails(b, r, x)
  <2>1. DigestCuts(b) \in Nat
    BY DigestConstants
  <2> QED
    BY <1>1, <1>7, <2>1 DEF DigestFails, DigestTyped
<1> QED
  BY <1>2, <1>3, <1>4, <1>5, <1>6, <1>7 DEF DigestShape

LEMMA DigestTurnMails ==
  ASSUME NEW CONSTANT b \in BOOLEAN, DigestTyped(b), NEW r \in DigestRuns, NEW x \in DigestTurns(DigestTime(b)), DigestShape(b, r, x),
         DigestMail
  PROVE  DigestMail'
<1> DEFINE p == digestRun[r]
<1>1. /\ digestMailed \in [DigestNotes -> Nat] /\ digestCut \in Nat /\ p \in DigestTurns(DigestTime(b))
      /\ digestRead \in [DigestNotes -> BOOLEAN] /\ digestRun \in [DigestRuns -> DigestTurns(DigestTime(b))]
  BY DEF DigestTyped
<1>2. p.list \subseteq DigestNotes /\ \A a : [p EXCEPT !.at = a].at = a /\ [p EXCEPT !.at = a].list = p.list
  BY <1>1 DEF DigestTurns
<1>3. \A q \in DigestRuns : digestRun'[q] = IF q = r THEN x ELSE digestRun[q]
  BY <1>1 DEF DigestShape
<1>4. DigestIdle.at = "idle" /\ DigestIdle.list = {}
  BY DEF DigestIdle
<1>5. ASSUME DigestReads(b, r, x)
      PROVE  /\ x.at \in {"idle", "mail"}
             /\ x.at = "mail" => \A n \in x.list : n \in DigestNotes /\ digestRead[n] # TRUE
  <2>1. PICK list \in SUBSET Digest(b)!Waiting(r) :
          x = IF list = {} THEN DigestIdle ELSE [[p EXCEPT !.list = list] EXCEPT !.at = "mail"]
    BY <1>5 DEF DigestReads
  <2>2. \A n \in list : n \in DigestNotes /\ digestRead[n] # TRUE
    BY <1>1, <2>1 DEF Digest!Waiting
  <2>3. [[p EXCEPT !.list = list] EXCEPT !.at = "mail"].at = "mail" /\ [[p EXCEPT !.list = list] EXCEPT !.at = "mail"].list = list
    BY <1>1 DEF DigestTurns
  <2> QED
    BY <1>4, <2>1, <2>2, <2>3
<1>6. DigestNamed'
  <2>1. DigestNamed
    BY DEF DigestMail
  <2>2. CASE DigestStarts(b, r, x)
    <3>1. x.at # "record" /\ digestMailed' = digestMailed /\ digestRows' = digestRows
      BY <1>4, <2>2 DEF DigestStarts
    <3> QED
      BY <1>3, <2>1, <3>1 DEF DigestNamed
  <2>3. CASE DigestReads(b, r, x)
    <3>1. x.at # "record" /\ digestMailed' = digestMailed /\ digestRows' = digestRows
      BY <1>5, <2>3 DEF DigestReads
    <3> QED
      BY <1>3, <2>1, <3>1 DEF DigestNamed
  <2>4. CASE DigestMails(r, x)
    <3>1. digestRows' = digestRows /\ x.list = p.list /\ \A n \in DigestNotes : digestMailed'[n] >= digestMailed[n]
      BY <1>1, <1>2, <2>4 DEF DigestMails
    <3>2. \A n \in p.list : digestMailed'[n] > 0
      BY <1>1, <1>2, <2>4 DEF DigestMails
    <3>3. \A n \in DigestNotes : digestMailed[n] > 0 => digestMailed'[n] > 0
      BY <1>1, <2>4 DEF DigestMails
    <3>4. \A d \in digestRows : d \subseteq DigestNotes
      BY DEF DigestTyped
    <3>5. \A q \in DigestRuns : digestRun[q].list \subseteq DigestNotes
      BY <1>1 DEF DigestTurns
    <3>6. \A d \in digestRows' : \A n \in d : digestMailed'[n] > 0
      BY <2>1, <3>1, <3>3, <3>4 DEF DigestNamed
    <3>7. \A q \in DigestRuns : digestRun'[q].at = "record" => \A n \in digestRun'[q].list : digestMailed'[n] > 0
      BY <1>3, <2>1, <3>1, <3>2, <3>3, <3>5 DEF DigestNamed
    <3> QED
      BY <3>6, <3>7 DEF DigestNamed
  <2>5. CASE DigestRecords(r, x)
    <3>1. x.at = "mark" /\ digestMailed' = digestMailed /\ digestRows' = digestRows \cup {p.list} /\ p.at = "record"
      BY <1>2, <2>5 DEF DigestRecords
    <3> QED
      BY <1>3, <2>1, <3>1 DEF DigestNamed
  <2>6. CASE DigestMarks(r, x) \/ DigestFails(b, r, x)
    <3>1. x.at = "idle" /\ digestMailed' = digestMailed /\ digestRows' = digestRows
      BY <1>4, <2>6 DEF DigestMarks, DigestFails
    <3> QED
      BY <1>3, <2>1, <3>1 DEF DigestNamed
  <2> QED
    BY <2>2, <2>3, <2>4, <2>5, <2>6 DEF DigestShape
<1>7. ASSUME OneDigester PROVE DigestOnce'
  <2>1. DigestOnce
    BY <1>7 DEF DigestMail
  <2>2. \A q \in DigestRuns : digestRun'[q] = x /\ digestRun[q] = p
    BY <1>3, <1>7 DEF OneDigester
  <2>3. /\ \A n : Mailing(n) <=> p.at \in {"record", "mark"} /\ n \in p.list
        /\ \A n : Mailing(n)' <=> x.at \in {"record", "mark"} /\ n \in x.list
    BY <2>2 DEF Mailing
  <2> DEFINE Fine(n, m, c, d) == m <= c \/ (m <= c + 1 /\ d)
  <2>4. /\ \A n \in DigestNotes : Fine(n, digestMailed[n], digestCut, digestRead[n] = TRUE \/ (p.at \in {"record", "mark"} /\ n \in p.list))
        /\ p.at = "mail" => \A n \in p.list : digestMailed[n] <= digestCut
    BY <2>1, <2>2, <2>3 DEF DigestOnce
  <2>5. SUFFICES
        /\ \A n \in DigestNotes : Fine(n, digestMailed'[n], digestCut', digestRead'[n] = TRUE \/ (x.at \in {"record", "mark"} /\ n \in x.list))
        /\ x.at = "mail" => \A n \in x.list : digestMailed'[n] <= digestCut'
    BY <2>2, <2>3 DEF DigestOnce
  <2>6. CASE DigestStarts(b, r, x)
    <3>1. /\ x.at \in {"idle", "read"} /\ p.at = "idle"
          /\ digestMailed' = digestMailed /\ digestCut' = digestCut /\ digestRead' = digestRead
      BY <1>4, <2>6 DEF DigestStarts
    <3> QED
      BY <2>4, <3>1
  <2>7. CASE DigestReads(b, r, x)
    <3>1. /\ p.at = "read"
          /\ digestMailed' = digestMailed /\ digestCut' = digestCut /\ digestRead' = digestRead
      BY <2>7 DEF DigestReads
    <3> QED
      BY <1>1, <1>5, <2>4, <2>7, <3>1
  <2>8. CASE DigestMails(r, x)
    <3>1. /\ p.at = "mail" /\ x.at = "record" /\ x.list = p.list /\ digestCut' = digestCut /\ digestRead' = digestRead
          /\ \A n \in DigestNotes : digestMailed'[n] = IF n \in p.list THEN digestMailed[n] + 1 ELSE digestMailed[n]
      BY <1>2, <2>8 DEF DigestMails
    <3> QED
      BY <1>1, <1>2, <2>4, <3>1
  <2>9. CASE DigestRecords(r, x)
    <3>1. /\ p.at = "record" /\ x.at = "mark" /\ x.list = p.list /\ digestCut' = digestCut /\ digestRead' = digestRead
          /\ digestMailed' = digestMailed
      BY <1>2, <2>9 DEF DigestRecords
    <3> QED
      BY <2>4, <3>1
  <2>10. CASE DigestMarks(r, x)
    <3>1. /\ p.at = "mark" /\ x.at = "idle" /\ digestCut' = digestCut /\ digestMailed' = digestMailed
      BY <1>4, <2>10 DEF DigestMarks
    <3>2. \A n \in DigestNotes : digestRead[n] = TRUE \/ n \in p.list => digestRead'[n] = TRUE
      <4>1. \A n \in DigestNotes : digestRead'[n] = (digestRead[n] \/ n \in p.list)
        BY <2>10 DEF DigestMarks
      <4> QED
        BY <4>1, Zenon
    <3> QED
      BY <2>4, <3>1, <3>2
  <2>11. CASE DigestFails(b, r, x)
    <3>1. /\ x.at = "idle" /\ digestMailed' = digestMailed /\ digestRead' = digestRead
          /\ digestCut' = IF p.at \in {"record", "mark"} THEN digestCut + 1 ELSE digestCut
      BY <1>4, <2>11 DEF DigestFails
    <3> QED
      BY <1>1, <2>4, <3>1
  <2> QED
    BY <2>6, <2>7, <2>8, <2>9, <2>10, <2>11 DEF DigestShape
<1>8. OneDigester' => OneDigester
  BY DEF OneDigester
<1> QED
  BY <1>6, <1>7, <1>8 DEF DigestMail

(* The jobs run in every hour, after what is created in it: what was created   *)
(* earlier is mailed and read, and what was created now waits for the one run  *)
(* that is at work, or for the first.                                        *)
AtDigest(r) == digestRun[r].at # "idle"
Told(n)     == digestRead[n] = TRUE /\ digestMailed[n] = 1

ToTell(n) ==
  /\ digestCreated[n] = digestNow /\ digestRead[n] # TRUE
  /\ \/ digestMailed[n] = 0 /\ digestFreq \notin digestRan
     \/ digestMailed[n] = 0 /\ \E r \in DigestRuns :
          digestRun[r].at = "read" \/ (digestRun[r].at = "mail" /\ n \in digestRun[r].list)
     \/ digestMailed[n] = 1 /\ Mailing(n)

DigestTurn ==
  /\ \A r \in DigestRuns : AtDigest(r) => digestFreq \in digestRan /\ digestRun[r].cutoff <= digestNow
  /\ \A q, r \in DigestRuns : AtDigest(q) /\ AtDigest(r) => q = r

DigestLists ==
  \A r \in DigestRuns :
    /\ digestRun[r].at \in {"mail", "record", "mark"} => \A n \in digestRun[r].list : digestCreated[n] > 0
    /\ digestRun[r].at = "mail" => \A n \in digestRun[r].list : digestRead[n] # TRUE /\ digestMailed[n] = 0
    /\ digestRun[r].at \in {"record", "mark"} => \A n \in digestRun[r].list : digestMailed[n] = 1

DigestKept ==
  /\ DigestTurn /\ DigestLists
  /\ \A n \in DigestNotes : digestCreated[n] = 0 => digestMailed[n] = 0 /\ digestRead[n] # TRUE
  /\ \A n \in DigestNotes : digestCreated[n] > 0 => Told(n) \/ ToTell(n)

DigestFits == digestFreq \in DigestKinds /\ Cardinality(DigestNotes) <= HourlyDigestCap

LEMMA DigestKeptInit == ASSUME NEW CONSTANT c \in BOOLEAN, Digest(c)!Init PROVE DigestKept
<1>1. digestRun = [r \in DigestRuns |-> DigestIdle] /\ DigestIdle.at = "idle"
  BY DEF Digest!Init, Digest!Idle, DigestIdle
<1>2. digestCreated = [n \in DigestNotes |-> 0] /\ digestMailed = [n \in DigestNotes |-> 0] /\ digestRead = [n \in DigestNotes |-> FALSE]
  BY DEF Digest!Init
<1>3. \A r \in DigestRuns : digestRun[r].at = "idle"
  BY <1>1
<1>4. \A n \in DigestNotes : digestCreated[n] = 0 /\ digestMailed[n] = 0 /\ digestRead[n] = FALSE
  BY <1>2
<1>5. DigestTurn /\ DigestLists
  BY <1>3 DEF DigestTurn, DigestLists, AtDigest
<1>6. ~(0 > 0)
  OBVIOUS
<1>7. \A n \in DigestNotes : digestCreated[n] > 0 => Told(n) \/ ToTell(n)
  BY <1>4, <1>6, Zenon
<1>8. \A n \in DigestNotes : digestCreated[n] = 0 => digestMailed[n] = 0 /\ digestRead[n] # TRUE
  BY <1>4
<1> QED
  BY <1>5, <1>7, <1>8 DEF DigestKept

LEMMA DigestOthersKept ==
  ASSUME NEW CONSTANT b \in BOOLEAN, b = TRUE, DigestTyped(b), DigestOthers(b), DigestFits, DigestKept
  PROVE  DigestKept'
<1>1. /\ digestNow \in 1 .. DigestTime(b) /\ DigestTime(b) \in Nat /\ digestCreated \in [DigestNotes -> 0 .. DigestTime(b)]
      /\ digestRead \in [DigestNotes -> BOOLEAN] /\ digestMailed \in [DigestNotes -> Nat]
      /\ digestRun \in [DigestRuns -> DigestTurns(DigestTime(b))]
  BY DigestConstants DEF DigestTyped
<1>2. CASE Digest(b)!Tick
  <2>1. /\ digestRan = DigestKinds /\ digestNow' = digestNow + 1 /\ digestRan' = {}
        /\ \A r \in DigestRuns : ~AtDigest(r)
        /\ UNCHANGED <<digestFreq, digestCreated, digestRead, digestMailed, digestRun>>
    BY <1>2 DEF Digest!Tick, Digest!Kinds, DigestKinds, AtDigest
  <2>2. digestFreq \in digestRan
    BY <2>1 DEF DigestFits
  <2>3. \A n \in DigestNotes : ~ToTell(n)
    BY <2>1, <2>2 DEF ToTell, Mailing, AtDigest
  <2> QED
    BY <1>1, <2>1, <2>3 DEF DigestKept, DigestTurn, DigestLists, AtDigest, Told
<1>3. ASSUME NEW m \in DigestNotes, Digest(b)!Create(m) PROVE DigestKept'
  <2>1. /\ digestCreated[m] = 0 /\ digestRan = {} /\ \A r \in DigestRuns : ~AtDigest(r)
        /\ digestCreated' = [digestCreated EXCEPT ![m] = digestNow]
        /\ UNCHANGED <<digestNow, digestFreq, digestRead, digestMailed, digestRun, digestRan>>
    BY <1>3 DEF Digest!Create, AtDigest
  <2>2. \A n \in DigestNotes : digestCreated'[n] = IF n = m THEN digestNow ELSE digestCreated[n]
    BY <1>1, <2>1
  <2>3. /\ \A r \in DigestRuns : AtDigest(r)' <=> AtDigest(r)
        /\ \A n \in DigestNotes : Told(n)' <=> Told(n)
        /\ \A n \in DigestNotes : Mailing(n)' <=> Mailing(n)
    BY <2>1 DEF AtDigest, Told, Mailing
  <2>4. \A n \in DigestNotes : n # m => (ToTell(n)' <=> ToTell(n))
    BY <2>1, <2>2, <2>3 DEF ToTell
  <2>5. ToTell(m)'
    BY <2>1, <2>2 DEF ToTell, DigestKept
  <2>6. \A n \in DigestNotes : digestCreated'[n] > 0 => Told(n)' \/ ToTell(n)'
    BY <2>2, <2>3, <2>4, <2>5 DEF DigestKept
  <2>7. \A n \in DigestNotes : digestCreated'[n] = 0 => digestMailed'[n] = 0 /\ digestRead'[n] # TRUE
    BY <1>1, <2>1, <2>2 DEF DigestKept
  <2>8. DigestTurn'
    BY <2>1, <2>3 DEF DigestKept, DigestTurn
  <2>9. \A r \in DigestRuns : digestRun'[r].at = "idle"
    BY <2>1 DEF AtDigest
  <2> QED
    BY <2>6, <2>7, <2>8, <2>9 DEF DigestKept, DigestLists
<1>4. ~Digest(b)!markAllRead /\ (\A n : ~Digest(b)!ReadOne(n)) /\ (\A f : ~Digest(b)!updateDigestFrequency(f))
  BY DEF Digest!markAllRead, Digest!ReadOne, Digest!updateDigestFrequency
<1> QED
  BY <1>2, <1>3, <1>4 DEF DigestOthers

LEMMA DigestTurnKept ==
  ASSUME NEW CONSTANT b \in BOOLEAN, b = TRUE, DigestTyped(b), NEW r \in DigestRuns, NEW x \in DigestTurns(DigestTime(b)), DigestShape(b, r, x),
         DigestFits, DigestKept
  PROVE  DigestKept'
<1> DEFINE p == digestRun[r]
<1>1. /\ digestMailed \in [DigestNotes -> Nat] /\ p \in DigestTurns(DigestTime(b))
      /\ digestRead \in [DigestNotes -> BOOLEAN] /\ digestRun \in [DigestRuns -> DigestTurns(DigestTime(b))]
      /\ digestNow \in 1 .. DigestTime(b) /\ DigestTime(b) \in Nat /\ digestCreated \in [DigestNotes -> 0 .. DigestTime(b)]
  BY DigestConstants DEF DigestTyped
<1>2. p.list \subseteq DigestNotes /\ \A a : [p EXCEPT !.at = a].at = a /\ [p EXCEPT !.at = a].list = p.list /\ [p EXCEPT !.at = a].cutoff = p.cutoff
  BY <1>1 DEF DigestTurns
<1>3. \A q \in DigestRuns : digestRun'[q] = IF q = r THEN x ELSE digestRun[q]
  BY <1>1 DEF DigestShape
<1>4. DigestIdle.at = "idle" /\ DigestIdle.list = {} /\ DigestIdle.cutoff = 0
  BY DEF DigestIdle
<1>5. UNCHANGED <<digestNow, digestFreq, digestCreated>> /\ DigestTurn
  BY DEF DigestShape, DigestKept
<1>6. AtDigest(r) => /\ digestFreq \in digestRan
                     /\ \A q \in DigestRuns : q # r => digestRun[q].at = "idle" /\ digestRun'[q].at = "idle"
  BY <1>3, <1>5 DEF DigestTurn, AtDigest
(* One that is at work goes on, or is done.                                  *)
<1>7. ASSUME AtDigest(r), digestRan' = digestRan, x.cutoff <= digestNow PROVE DigestTurn'
  BY <1>3, <1>5, <1>6, <1>7 DEF DigestTurn, AtDigest
<1>8. ASSUME AtDigest(r)
      PROVE  \A n \in DigestNotes :
               /\ Mailing(n) <=> p.at \in {"record", "mark"} /\ n \in p.list
               /\ Mailing(n)' <=> x.at \in {"record", "mark"} /\ n \in x.list
               /\ ToTell(n) <=> /\ digestCreated[n] = digestNow /\ digestRead[n] # TRUE
                                /\ \/ digestMailed[n] = 0 /\ (p.at = "read" \/ (p.at = "mail" /\ n \in p.list))
                                   \/ digestMailed[n] = 1 /\ p.at \in {"record", "mark"} /\ n \in p.list
               /\ digestRan' = digestRan =>
                    (ToTell(n)' <=> /\ digestCreated[n] = digestNow /\ digestRead'[n] # TRUE
                                    /\ \/ digestMailed'[n] = 0 /\ (x.at = "read" \/ (x.at = "mail" /\ n \in x.list))
                                       \/ digestMailed'[n] = 1 /\ x.at \in {"record", "mark"} /\ n \in x.list)
  <2> SUFFICES ASSUME NEW n \in DigestNotes
               PROVE  /\ Mailing(n) <=> p.at \in {"record", "mark"} /\ n \in p.list
                      /\ Mailing(n)' <=> x.at \in {"record", "mark"} /\ n \in x.list
                      /\ ToTell(n) <=> /\ digestCreated[n] = digestNow /\ digestRead[n] # TRUE
                                       /\ \/ digestMailed[n] = 0 /\ (p.at = "read" \/ (p.at = "mail" /\ n \in p.list))
                                          \/ digestMailed[n] = 1 /\ p.at \in {"record", "mark"} /\ n \in p.list
                      /\ digestRan' = digestRan =>
                           (ToTell(n)' <=> /\ digestCreated[n] = digestNow /\ digestRead'[n] # TRUE
                                           /\ \/ digestMailed'[n] = 0 /\ (x.at = "read" \/ (x.at = "mail" /\ n \in x.list))
                                              \/ digestMailed'[n] = 1 /\ x.at \in {"record", "mark"} /\ n \in x.list)
    OBVIOUS
  <2>1. Mailing(n) <=> p.at \in {"record", "mark"} /\ n \in p.list
    BY <1>6, <1>8 DEF Mailing
  <2>2. Mailing(n)' <=> x.at \in {"record", "mark"} /\ n \in x.list
    BY <1>3, <1>6, <1>8 DEF Mailing
  <2>3. (\E q \in DigestRuns : digestRun[q].at = "read" \/ (digestRun[q].at = "mail" /\ n \in digestRun[q].list))
          <=> (p.at = "read" \/ (p.at = "mail" /\ n \in p.list))
    BY <1>6, <1>8
  <2>4. (\E q \in DigestRuns : digestRun'[q].at = "read" \/ (digestRun'[q].at = "mail" /\ n \in digestRun'[q].list))
          <=> (x.at = "read" \/ (x.at = "mail" /\ n \in x.list))
    BY <1>3, <1>6, <1>8
  <2> QED
    BY <1>5, <1>6, <1>8, <2>1, <2>2, <2>3, <2>4 DEF ToTell
<1>9. CASE DigestStarts(b, r, x)
  <2>1. PICK k \in DigestKinds :
          /\ p.at = "idle" /\ digestRan' = digestRan \cup {k} /\ k \notin digestRan
          /\ \/ digestFreq # k /\ x = DigestIdle
             \/ digestFreq = k /\ x = [at |-> "read", kind |-> k, cutoff |-> DigestFrom(k), list |-> {}]
    BY <1>9 DEF DigestStarts
  <2>2. UNCHANGED <<digestRead, digestMailed>>
    BY <1>9 DEF DigestStarts
  <2>3. CASE digestFreq # k /\ x = DigestIdle
    <3>1. /\ \A q \in DigestRuns : digestRun'[q].at = digestRun[q].at
          /\ \A q \in DigestRuns : AtDigest(q) => digestRun'[q] = digestRun[q]
          /\ digestFreq' \in digestRan' <=> digestFreq \in digestRan
      BY <1>3, <1>4, <1>5, <2>1, <2>3 DEF AtDigest
    <3>2. DigestTurn'
      BY <1>5, <3>1 DEF DigestTurn, AtDigest
    <3>3. \A n \in DigestNotes : (Mailing(n)' <=> Mailing(n)) /\ (Told(n)' <=> Told(n))
      BY <2>2, <3>1 DEF Mailing, Told, AtDigest
    <3>4. \A n \in DigestNotes : ToTell(n) => ToTell(n)'
      BY <1>5, <2>2, <3>1, <3>3 DEF ToTell, AtDigest
    <3> QED
      BY <1>5, <2>2, <3>1, <3>2, <3>3, <3>4 DEF DigestKept, DigestLists, AtDigest
  <2>4. CASE digestFreq = k /\ x = [at |-> "read", kind |-> k, cutoff |-> DigestFrom(k), list |-> {}]
    <3>1. \A q \in DigestRuns : ~AtDigest(q)
      BY <1>5, <2>1, <2>4 DEF DigestTurn
    <3>2. DigestFrom(k) <= digestNow
      BY <1>1, DigestConstants DEF DigestFrom
    <3>3. x.at = "read" /\ x.cutoff <= digestNow
      BY <2>4, <3>2
    <3>4. DigestTurn'
      BY <1>3, <1>5, <2>1, <2>4, <3>1, <3>3 DEF DigestTurn, AtDigest
    <3>5. \A n \in DigestNotes : ~Mailing(n) /\ (Told(n) => Told(n)')
      BY <2>2, <3>1 DEF Mailing, AtDigest, Told
    <3>6. \A n \in DigestNotes : ToTell(n) => ToTell(n)'
      BY <1>3, <1>5, <2>2, <3>1, <3>3, <3>5 DEF ToTell, AtDigest
    <3> QED
      BY <1>3, <1>5, <2>2, <3>1, <3>3, <3>4, <3>5, <3>6 DEF DigestKept, DigestLists, AtDigest
  <2> QED
    BY <2>1, <2>3, <2>4
<1>10. CASE DigestReads(b, r, x)
  <2> DEFINE w == Digest(b)!Waiting(r)
  <2>1. PICK list \in SUBSET w :
          /\ x = IF list = {} THEN DigestIdle ELSE [[p EXCEPT !.list = list] EXCEPT !.at = "mail"]
          /\ Cardinality(list) = IF Cardinality(w) < DigestCapOf(b) THEN Cardinality(w) ELSE DigestCapOf(b)
    BY <1>10 DEF DigestReads
  <2>2. p.at = "read" /\ AtDigest(r) /\ UNCHANGED <<digestRead, digestMailed, digestRan>>
    BY <1>10 DEF DigestReads, AtDigest
  <2>3. w = {n \in DigestNotes : digestCreated[n] > 0 /\ digestRead[n] # TRUE /\ digestCreated[n] >= p.cutoff}
    BY <1>1 DEF Digest!Waiting
  <2>4. list = w
    <3>1. IsFiniteSet(w) /\ Cardinality(w) <= Cardinality(DigestNotes)
      BY <2>3, FS_Subset, DigestConstants
    <3>2. Cardinality(w) \in Nat /\ Cardinality(DigestNotes) \in Nat /\ HourlyDigestCap \in Nat
      BY <3>1, FS_CardinalityType, DigestConstants
    <3>3. DigestCapOf(b) = HourlyDigestCap
      BY DEF DigestCapOf
    <3> HIDE DEF w
    <3>4. Cardinality(list) = Cardinality(w)
      BY <2>1, <3>1, <3>2, <3>3 DEF DigestFits
    <3> QED
      BY <2>1, <3>1, <3>4, FS_Subset
  <2>5. /\ list = {} => x.at = "idle" /\ x.cutoff = 0
        /\ list # {} => x.at = "mail" /\ x.list = list /\ x.cutoff = p.cutoff
    BY <1>1, <1>4, <2>1 DEF DigestTurns
  <2>6. p.cutoff <= digestNow
    BY <1>5, <2>2 DEF DigestTurn
  <2>7. DigestTurn'
    <3>1. x.cutoff <= digestNow
      BY <1>1, <2>5, <2>6
    <3> QED
      BY <1>7, <2>2, <3>1
  <2>8. \A n \in DigestNotes : ToTell(n) => n \in list /\ ToTell(n)'
    <3> SUFFICES ASSUME NEW n \in DigestNotes, ToTell(n) PROVE n \in list /\ ToTell(n)'
      OBVIOUS
    <3>1. digestCreated[n] = digestNow /\ digestRead[n] # TRUE /\ digestMailed[n] = 0
      BY <1>8, <2>2
    <3>2. n \in list
      <4>1. digestCreated[n] > 0 /\ digestCreated[n] >= p.cutoff
        BY <1>1, <2>6, <3>1
      <4> HIDE DEF w
      <4> QED
        BY <2>3, <2>4, <3>1, <4>1
    <3> QED
      BY <1>8, <2>2, <2>5, <3>1, <3>2
  <2>9. \A n \in DigestNotes : Told(n)' <=> Told(n)
    BY <2>2 DEF Told
  <2>10. DigestLists'
    <3>1. \A q \in DigestRuns : digestRun'[q].at \in {"mail", "record", "mark"} => q = r /\ digestRun'[q].at = "mail" /\ digestRun'[q].list = list
      BY <1>3, <1>6, <2>2, <2>5
    <3>2. \A n \in list : n \in DigestNotes /\ digestCreated[n] > 0 /\ digestRead[n] # TRUE
      BY <2>3, <2>4
    <3>3. \A n \in list : digestMailed[n] = 0
      BY <1>8, <2>2, <3>2 DEF DigestKept, Told
    <3> QED
      BY <1>5, <2>2, <3>1, <3>2, <3>3 DEF DigestLists
  <2> QED
    BY <1>5, <2>2, <2>7, <2>8, <2>9, <2>10 DEF DigestKept
(* Of another run there is no list.                                          *)
<1>11. ASSUME AtDigest(r), x.at \in {"mail", "record", "mark"} => x.list = p.list /\ \A n \in p.list : digestCreated[n] > 0,
              x.at # "mail", x.at \in {"record", "mark"} => \A n \in p.list : digestMailed'[n] = 1
       PROVE  DigestLists'
  <2>1. \A q \in DigestRuns : digestRun'[q].at # "idle" => q = r
    BY <1>6, <1>11
  <2> QED
    BY <1>3, <1>5, <1>11, <2>1 DEF DigestLists
<1>12. CASE DigestMails(r, x)
  <2>1. /\ p.at = "mail" /\ AtDigest(r) /\ x.at = "record" /\ x.list = p.list /\ x.cutoff = p.cutoff /\ UNCHANGED <<digestRead, digestRan>>
        /\ \A n \in DigestNotes : digestMailed'[n] = IF n \in p.list THEN digestMailed[n] + 1 ELSE digestMailed[n]
    BY <1>2, <1>12 DEF DigestMails, AtDigest
  <2>2. DigestTurn'
    BY <1>5, <1>7, <2>1 DEF DigestTurn
  <2>3. \A n \in p.list : n \in DigestNotes /\ digestCreated[n] > 0 /\ digestRead[n] # TRUE /\ digestMailed[n] = 0
    BY <1>2, <2>1 DEF DigestKept, DigestLists
  <2>4. \A n \in DigestNotes : ToTell(n) => ToTell(n)'
    <3> SUFFICES ASSUME NEW n \in DigestNotes, ToTell(n) PROVE ToTell(n)'
      OBVIOUS
    <3>1. digestCreated[n] = digestNow /\ digestRead[n] # TRUE /\ digestMailed[n] = 0 /\ n \in p.list
      BY <1>8, <2>1
    <3>2. digestMailed'[n] = 1
      BY <2>1, <3>1
    <3> QED
      BY <1>8, <2>1, <3>1, <3>2
  <2>5. \A n \in DigestNotes : Told(n) => Told(n)'
    BY <2>1, <2>3 DEF Told
  <2>6. DigestLists'
    <3>1. \A n \in p.list : digestMailed'[n] = digestMailed[n] + 1
      BY <1>2, <2>1
    <3>2. \A n \in p.list : digestCreated[n] > 0 /\ digestMailed'[n] = 1
      <4> SUFFICES ASSUME NEW n \in p.list PROVE digestCreated[n] > 0 /\ digestMailed'[n] = 1
        OBVIOUS
      <4>1. digestCreated[n] > 0 /\ digestMailed[n] = 0
        BY <2>3
      <4>2. digestMailed'[n] = digestMailed[n] + 1
        BY <3>1
      <4> QED
        BY <4>1, <4>2
    <3> QED
      BY <1>11, <2>1, <3>2
  <2>7. \A n \in DigestNotes : digestCreated'[n] = 0 => digestMailed'[n] = 0 /\ digestRead'[n] # TRUE
    <3> SUFFICES ASSUME NEW n \in DigestNotes, digestCreated[n] = 0 PROVE digestMailed'[n] = 0 /\ digestRead'[n] # TRUE
      BY <1>5
    <3>1. n \notin p.list
      <4> SUFFICES ASSUME n \in p.list PROVE FALSE
        OBVIOUS
      <4>1. digestCreated[n] > 0
        BY <2>3
      <4> QED
        BY <4>1
    <3>2. digestMailed[n] = 0 /\ digestRead[n] # TRUE
      BY DEF DigestKept
    <3> QED
      BY <1>1, <2>1, <3>1, <3>2
  <2> QED
    BY <1>5, <2>2, <2>4, <2>5, <2>6, <2>7 DEF DigestKept
<1>13. CASE DigestRecords(r, x)
  <2>1. /\ p.at = "record" /\ AtDigest(r) /\ x.at = "mark" /\ x.list = p.list /\ x.cutoff = p.cutoff
        /\ UNCHANGED <<digestRead, digestMailed, digestRan>>
    BY <1>2, <1>13 DEF DigestRecords, AtDigest
  <2>2. DigestTurn'
    BY <1>5, <1>7, <2>1 DEF DigestTurn
  <2>3. \A n \in DigestNotes : (ToTell(n) => ToTell(n)') /\ (Told(n) => Told(n)')
    BY <1>8, <2>1 DEF Told
  <2>4. \A n \in p.list : digestCreated[n] > 0 /\ digestMailed[n] = 1
    BY <2>1 DEF DigestKept, DigestLists
  <2>5. DigestLists'
    BY <1>11, <2>1, <2>4
  <2> QED
    BY <1>5, <2>1, <2>2, <2>3, <2>5 DEF DigestKept
<1>14. CASE DigestMarks(r, x)
  <2>1. p.at = "mark" /\ AtDigest(r) /\ x.at = "idle" /\ x.cutoff = 0 /\ UNCHANGED <<digestMailed, digestRan>>
    BY <1>4, <1>14 DEF DigestMarks, AtDigest
  <2>2. \A n \in DigestNotes : digestRead'[n] = (digestRead[n] \/ n \in p.list)
    BY <1>14 DEF DigestMarks
  <2>3. \A n \in DigestNotes : digestRead'[n] = TRUE <=> digestRead[n] = TRUE \/ n \in p.list
    <3>1. \A n \in DigestNotes : digestRead[n] \in BOOLEAN
      BY <1>1
    <3> QED
      BY <2>2, <3>1, Zenon
  <2>4. DigestTurn'
    BY <1>1, <1>7, <2>1
  <2>5. \A n \in p.list : digestCreated[n] > 0 /\ digestMailed[n] = 1
    BY <2>1 DEF DigestKept, DigestLists
  <2>6. \A n \in DigestNotes : (ToTell(n) => Told(n)') /\ (Told(n) => Told(n)')
    BY <1>8, <2>1, <2>3 DEF Told
  <2>7. DigestLists'
    BY <1>11, <2>1
  <2>8. \A n \in DigestNotes : digestCreated'[n] = 0 => digestMailed'[n] = 0 /\ digestRead'[n] # TRUE
    <3> SUFFICES ASSUME NEW n \in DigestNotes, digestCreated[n] = 0 PROVE digestMailed'[n] = 0 /\ digestRead'[n] # TRUE
      BY <1>5
    <3>1. n \notin p.list
      BY <2>5
    <3>2. digestMailed[n] = 0 /\ digestRead[n] # TRUE
      BY DEF DigestKept
    <3> QED
      BY <1>1, <2>1, <2>3, <3>1, <3>2
  <2> QED
    BY <1>5, <2>4, <2>6, <2>7, <2>8 DEF DigestKept
<1>15. ~DigestFails(b, r, x)
  BY DEF DigestFails, DigestTyped, DigestCuts
<1> QED
  BY <1>9, <1>10, <1>12, <1>13, <1>14, <1>15 DEF DigestShape

LEMMA DigestStep ==
  ASSUME NEW CONSTANT b \in BOOLEAN, DigestTyped(b), Digest(b)!Next \/ UNCHANGED digestVars
  PROVE  /\ DigestTyped(b)' /\ (DigestMail => DigestMail')
         /\ b = TRUE => digestFreq' = digestFreq /\ (DigestFits /\ DigestKept => DigestKept')
<1>1. CASE DigestOthers(b)
  <2>1. b = TRUE => digestFreq' = digestFreq
    BY <1>1 DEF DigestOthers, Digest!Tick, Digest!markAllRead, Digest!Create, Digest!ReadOne, Digest!updateDigestFrequency
  <2> QED
    BY <1>1, <2>1, DigestOthersStep, DigestOthersKept
<1>2. ASSUME NEW r \in DigestRuns, DigestGoes(b, r) 
      PROVE  /\ DigestTyped(b)' /\ (DigestMail => DigestMail')
             /\ b = TRUE => digestFreq' = digestFreq /\ (DigestFits /\ DigestKept => DigestKept')
  <2>1. PICK x \in DigestTurns(DigestTime(b)) : DigestShape(b, r, x)
    BY <1>2, DigestShapes
  <2>2. digestFreq' = digestFreq
    BY <2>1 DEF DigestShape
  <2> QED
    BY <2>1, <2>2, DigestTurnTyped, DigestTurnMails, DigestTurnKept
<1>3. CASE UNCHANGED digestVars
  <2>1. UNCHANGED <<digestNow, digestFreq, digestCreated, digestRead, digestMailed, digestRows, digestRun, digestRan, digestCuts, digestCut>>
    BY <1>3 DEF digestVars
  <2>2. DigestTyped(b)'
    BY <2>1 DEF DigestTyped
  <2>3. \A n \in DigestNotes : (Mailing(n)' <=> Mailing(n)) /\ (Told(n)' <=> Told(n)) /\ (ToTell(n)' <=> ToTell(n))
    BY <2>1 DEF Mailing, Told, ToTell
  <2>4. DigestMail => DigestMail'
    BY <2>1, <2>3 DEF DigestMail, DigestOnce, DigestNamed, OneDigester
  <2>5. DigestKept => DigestKept'
    BY <2>1, <2>3 DEF DigestKept, DigestTurn, DigestLists, AtDigest
  <2> QED
    BY <2>1, <2>2, <2>4, <2>5
<1> QED
  BY <1>1, <1>2, <1>3 DEF Digest!Next, DigestOthers, DigestGoes, Digest!Kinds, DigestKinds

(* From the steps' invariants to what the runs check.                        *)
LEMMA DigestTells ==
  ASSUME NEW CONSTANT b \in BOOLEAN, DigestTyped(b), DigestMail, b = TRUE => (DigestFits => DigestKept)
  PROVE  Digest(b)!TypeOK /\ Digest(b)!MailedOnce /\ Digest(b)!NoneLeftOut
<1>1. Digest(b)!TypeOK
  BY DEF Digest!TypeOK, Digest!Kinds, DigestTyped, DigestTurns, DigestPoints, DigestKinds, DigestTime, DigestCuts
<1>2. Digest(b)!MailedOnce
  <2>1. ASSUME Cardinality(DigestRuns) = 1 PROVE OneDigester
    <3>1. PICK u : DigestRuns = {u}
      BY <2>1, DigestConstants, FS_Singleton
    <3> QED
      BY <3>1 DEF OneDigester
  <2>2. ASSUME OneDigester, NEW n \in DigestNotes PROVE digestMailed[n] <= 1 + digestCut
    <3>1. digestMailed[n] \in Nat /\ digestCut \in Nat
      BY DEF DigestTyped
    <3>2. digestMailed[n] <= digestCut \/ digestMailed[n] <= digestCut + 1
      BY <2>2 DEF DigestMail, DigestOnce
    <3> QED
      BY <3>1, <3>2
  <2>3. Digest(b)!Cardinality(DigestRuns) = Cardinality(DigestRuns)
    BY DigestFinite
  <2>4. \A d \in digestRows : \A n \in d : digestMailed[n] > 0
    BY DEF DigestMail, DigestNamed
  <2> QED
    BY <2>1, <2>2, <2>3, <2>4 DEF Digest!MailedOnce
<1>3. Digest(b)!NoneLeftOut
  <2>1. CASE b = TRUE /\ DigestFits
    <3>1. DigestKept
      BY <2>1
    <3>2. /\ digestNow \in Nat /\ digestFreq \in DigestKinds /\ digestCreated \in [DigestNotes -> Nat]
          /\ DigestDay \in Nat \ {0} /\ digestRead \in [DigestNotes -> BOOLEAN]
      <4>1. DigestTime(b) \in Nat /\ DigestDay \in Nat \ {0}
        BY DigestConstants
      <4>2. digestNow \in 1 .. DigestTime(b) /\ digestCreated \in [DigestNotes -> 0 .. DigestTime(b)] /\ digestRead \in [DigestNotes -> BOOLEAN]
        BY DEF DigestTyped
      <4>3. digestCreated \in [DigestNotes -> Nat]
        BY <4>1, <4>2
      <4> QED
        BY <2>1, <4>1, <4>2, <4>3 DEF DigestFits
    <3>3. Digest(b)!Window(digestFreq) \in Nat \ {0}
      BY <3>2 DEF Digest!Window
    <3> SUFFICES ASSUME NEW n \in DigestNotes, digestCreated[n] > 0, digestCreated[n] + Digest(b)!Window(digestFreq) < digestNow
                 PROVE  digestRead[n] /\ digestMailed[n] = 1
      BY DEF Digest!NoneLeftOut
    <3>4. digestCreated[n] # digestNow
      BY <3>2, <3>3
    <3>5. Told(n)
      BY <3>1, <3>4 DEF DigestKept, ToTell
    <3> QED
      BY <3>5 DEF Told
  <2>2. CASE b # TRUE
    BY <2>2 DEF Digest!NoneLeftOut
  <2>3. CASE b = TRUE /\ ~DigestFits
    <3>1. Digest(b)!Cardinality(DigestNotes) = Cardinality(DigestNotes)
      BY DigestFinite
    <3> QED
      BY <2>3, <3>1 DEF Digest!NoneLeftOut, DigestFits, Digest!Kinds, DigestKinds
  <2> QED
    BY <2>1, <2>2, <2>3
<1> QED
  BY <1>1, <1>2, <1>3

LEMMA DigestJobs ==
  ASSUME [Next]_vars
  PROVE  /\ under = "digests" => Digest(FALSE)!Next \/ UNCHANGED digestVars
         /\ under = "digests, hourly" => Digest(TRUE)!Next \/ UNCHANGED digestVars
BY DEF Next, Turn, NoticesNext, vars, noticeVars, NotNotice, NotBreaker, NotHook, NotFlow, NotWait, NotMail, NotInbox,
       NotSub, NotConnect, NotSync, NotRemind, NotImport, NotNews, NotScreen, NotDigest

(* A notification is mailed again only because a digest was cut off after it   *)
(* was mailed, what a digest on record names was mailed, and while the jobs    *)
(* run by the hour and all fits in one digest nothing is left out: for any     *)
(* notifications, caps, periods and failures.                                *)
THEOREM DigestsAreWhole == Spec => []DigestedOnce
<1> DEFINE Inv(b) == DigestTyped(b) /\ DigestMail /\ (b = TRUE => (DigestFits => DigestKept))
           Both == (under = "digests" => Inv(FALSE)) /\ (under = "digests, hourly" => Inv(TRUE))
<1>1. ASSUME NEW CONSTANT b \in BOOLEAN, NEW CONSTANT c \in BOOLEAN, Digest(c)!Init PROVE Inv(b)
  BY <1>1, DigestInit, DigestKeptInit
<1>2. ASSUME NEW CONSTANT b \in BOOLEAN, Inv(b), Digest(b)!Next \/ UNCHANGED digestVars PROVE Inv(b)'
  <2>1. DigestTyped(b)' /\ (DigestMail => DigestMail') /\ (b = TRUE => digestFreq' = digestFreq /\ (DigestFits /\ DigestKept => DigestKept'))
    BY <1>2, DigestStep
  <2>2. b = TRUE => (DigestFits' <=> DigestFits)
    BY <2>1 DEF DigestFits
  <2> QED
    BY <1>2, <2>1, <2>2
<1>3. ASSUME NEW CONSTANT b \in BOOLEAN, Inv(b) PROVE Digest(b)!TypeOK /\ Digest(b)!MailedOnce /\ Digest(b)!NoneLeftOut
  BY <1>3, DigestTells
<1> HIDE DEF Inv
<1>4. Init => Both
  <2> SUFFICES ASSUME Init, under \in {"digests", "digests, hourly"} PROVE Both
    OBVIOUS
  <2>1. IF under = "digests, hourly" THEN Digest(TRUE)!Init ELSE Digest(FALSE)!Init
    BY DEF Init, Start, NoticesInit
  <2>2. CASE under = "digests"
    BY <1>1, <2>1, <2>2
  <2>3. CASE under = "digests, hourly"
    BY <1>1, <2>1, <2>3
  <2> QED
    BY <2>2, <2>3
<1>5. Both /\ [Next]_vars => Both'
  <2> SUFFICES ASSUME Both, [Next]_vars PROVE Both'
    OBVIOUS
  <2>1. under' = under
    BY UnderStays
  <2>2. under = "digests" => Inv(FALSE)'
    BY <1>2, DigestJobs
  <2>3. under = "digests, hourly" => Inv(TRUE)'
    BY <1>2, DigestJobs
  <2> QED
    BY <2>1, <2>2, <2>3
<1>6. Both => DigestedOnce
  BY <1>3 DEF DigestedOnce
<1> QED
  BY <1>4, <1>5, <1>6, PTL DEF Spec
-----------------------------------------------------------------------------
(* Reminders.                                                                *)
RemindJobs   == {"BOOKING", "PAYMENT", "FOLLOWUP"}
RemindPoints == {"idle", "list", "send"}
RemindIdle   == [at |-> "idle", kind |-> "BOOKING", next |-> 1, seen |-> 0]

RemindRuns(b)  == RemindScope[b].runs
RemindInts(b)  == RemindScope[b].intervals
RemindTime(b)  == RemindScope[b].time
RemindDay(b)   == RemindScope[b].day
RemindDays(b)  == {RemindInts(b)[i] : i \in DOMAIN RemindInts(b)} \cup {1}
RemindKeys(b)  == RemindJobs \X RemindDays(b)
RemindTurns(b) == [at: RemindPoints, kind: RemindJobs, next: DOMAIN RemindInts(b), seen: 0 .. RemindTime(b)]

(* The row that a run writes, and the e-mail that it sends; a follow-up writes *)
(* the row of the reminder of the last day.                                  *)
RowToWrite(b, p) == IF p.kind = "FOLLOWUP" THEN <<"BOOKING", 1>> ELSE <<p.kind, RemindInts(b)[p.next]>>
MailToSend(b, p) == IF p.kind = "FOLLOWUP" THEN <<"FOLLOWUP", 1>> ELSE RowToWrite(b, p)
RowOfMail(k)     == IF k[1] = "FOLLOWUP" THEN <<"BOOKING", 1>> ELSE k

LEMMA RemindFinite ==
  ASSUME NEW CONSTANT b, NEW S
  PROVE  (Remind(b)!IsFiniteSet(S) <=> IsFiniteSet(S)) /\ Remind(b)!Cardinality(S) = Cardinality(S)
<1>1. Remind(b)!IsFiniteSet(S) <=> IsFiniteSet(S)
  BY DEF Remind!IsFiniteSet, IsFiniteSet
<1>2. Remind(b)!Cardinality(S) = Cardinality(S)
  BY DEF Remind!Cardinality, Cardinality
<1> QED
  BY <1>1, <1>2

LEMMA RemindConstants ==
  ASSUME NEW CONSTANT b \in BOOLEAN
  PROVE  /\ IsFiniteSet(RemindRuns(b)) /\ RemindTime(b) \in Nat /\ RemindDay(b) \in Nat \ {0}
         /\ RemindHorizon \in Nat \ {0} /\ InvoiceLead \in Nat /\ RemindScope[b].moves \in Nat
         /\ RemindScope[b].starts \subseteq 1 .. RemindTime(b)
         /\ RemindInts(b) \in Seq(1 .. RemindHorizon - 1) /\ Len(RemindInts(b)) \in Nat \ {0}
         /\ DOMAIN RemindInts(b) = 1 .. Len(RemindInts(b))
         /\ \A i \in DOMAIN RemindInts(b) : RemindInts(b)[i] \in 1 .. RemindHorizon - 1
<1> DEFINE s == RemindInts(b)
<1>1. Remind(b)!RemindersAssumption
  BY MessagesAssumption DEF NoticesAssumed
<1>2. /\ Remind(b)!IsFiniteSet(RemindRuns(b)) /\ {RemindHorizon, InvoiceLead, RemindScope[b].moves, RemindTime(b)} \subseteq Nat
      /\ RemindDay(b) \in Nat \ {0} /\ s \in Seq(1 .. RemindHorizon - 1) /\ s # <<>> /\ RemindScope[b].starts \subseteq 1 .. RemindTime(b)
  BY <1>1 DEF Remind!RemindersAssumption, RemindRuns, RemindInts, RemindTime, RemindDay
<1>3. IsFiniteSet(RemindRuns(b))
  BY <1>2, RemindFinite
<1> HIDE DEF s
<1>4. Len(s) \in Nat /\ DOMAIN s = 1 .. Len(s) /\ (\A i \in DOMAIN s : s[i] \in 1 .. RemindHorizon - 1) /\ Len(s) # 0
  BY <1>2, LenProperties, ElementOfSeq, EmptySeq
<1>5. s[1] \in 1 .. RemindHorizon - 1
  BY <1>4
<1> QED
  BY <1>2, <1>3, <1>4, <1>5 DEF s

LEMMA RemindKeysFinite ==
  ASSUME NEW CONSTANT b \in BOOLEAN
  PROVE  IsFiniteSet(RemindKeys(b)) /\ IsFiniteSet({"BOOKING", "PAYMENT"} \X RemindDays(b))
<1>1. RemindDays(b) \subseteq 1 .. RemindHorizon
  BY RemindConstants DEF RemindDays
<1>2. IsFiniteSet(RemindDays(b))
  <2>1. 1 \in Int /\ RemindHorizon \in Int
    BY RemindConstants
  <2>2. IsFiniteSet(1 .. RemindHorizon)
    BY <2>1, FS_Interval
  <2> QED
    BY <1>1, <2>2, FS_Subset
<1>3. IsFiniteSet({"BOOKING", "PAYMENT"}) /\ IsFiniteSet(RemindJobs)
  <2>1. IsFiniteSet({"BOOKING"})
    BY FS_Singleton
  <2>2. IsFiniteSet({"BOOKING"} \cup {"PAYMENT"}) /\ IsFiniteSet(({"BOOKING"} \cup {"PAYMENT"}) \cup {"FOLLOWUP"})
    BY <2>1, FS_AddElement
  <2>3. {"BOOKING"} \cup {"PAYMENT"} = {"BOOKING", "PAYMENT"} /\ {"BOOKING", "PAYMENT"} \cup {"FOLLOWUP"} = RemindJobs
    BY DEF RemindJobs
  <2> QED
    BY <2>2, <2>3
<1> QED
  BY <1>2, <1>3, FS_Product DEF RemindKeys

RemindTyped(b) ==
  /\ remindNow \in 0 .. RemindTime(b) /\ remindStart \in 1 .. RemindTime(b) /\ remindDue \in 0 .. RemindTime(b)
  /\ remindChanged \in 0 .. RemindTime(b) /\ remindStatus \in {"PENDING", "CONFIRMED", "CANCELLED", "COMPLETED"}
  /\ remindUnpaid \in BOOLEAN /\ remindMoves \in 0 .. RemindScope[b].moves /\ remindLost \in Nat /\ remindRan \subseteq RemindJobs
  /\ remindRows \subseteq {"BOOKING", "PAYMENT"} \X RemindDays(b) /\ remindSent \in [RemindKeys(b) -> Nat]
  /\ remindRun \in [RemindRuns(b) -> RemindTurns(b)]

(* A row is one e-mail: sent, about to be sent by one run, or lost.          *)
Sending(b) == {r \in RemindRuns(b) : remindRun[r].at = "send"}
MailsSent(b) == {k \in RemindKeys(b) : remindSent[k] > 0}

RowsOwned(b) ==
  /\ \A r \in Sending(b) : RowToWrite(b, remindRun[r]) \in remindRows
  /\ \A k \in MailsSent(b) : RowOfMail(k) \in remindRows
  /\ \A r \in Sending(b) : \A k \in MailsSent(b) : RowOfMail(k) # RowToWrite(b, remindRun[r])
  /\ \A q, r \in Sending(b) : RowToWrite(b, remindRun[q]) = RowToWrite(b, remindRun[r]) => q = r
  /\ \A k \in RemindKeys(b) : remindSent[k] <= 1

RowsCounted(b) == Cardinality(remindRows) = Cardinality(MailsSent(b)) + Cardinality(Sending(b)) + remindLost

(* What a run becomes by each of its steps.                                  *)
Skips(b, p, x) ==
  \/ /\ p.kind # "FOLLOWUP" /\ p.next < Len(RemindInts(b)) /\ remindRan' = remindRan
     /\ x = [[p EXCEPT !.at = "list"] EXCEPT !.next = p.next + 1]
  \/ /\ p.kind = "FOLLOWUP" \/ p.next >= Len(RemindInts(b))
     /\ remindRan' = remindRan \cup {p.kind} /\ x = RemindIdle

Lists(b, p, x) ==
  /\ p.at = "idle"
  /\ \E k \in RemindJobs : Remind(b)!Listed(k) /\ x = [at |-> "list", kind |-> k, next |-> 1, seen |-> remindStart]
  /\ UNCHANGED <<remindRan, remindRows, remindSent, remindLost>>

Passes(b, r, p, x) ==
  /\ p.at = "list" /\ Skips(b, p, x) /\ (~Remind(b)!Due(r) \/ Remind(b)!Taken(r))
  /\ UNCHANGED <<remindRows, remindSent, remindLost>>

Claims(b, r, p, x) ==
  /\ p.at = "list" /\ x = [p EXCEPT !.at = "send"] /\ RowToWrite(b, p) \notin remindRows
  /\ remindRows' = remindRows \cup {RowToWrite(b, p)} /\ UNCHANGED <<remindRan, remindSent, remindLost>>

Sends(b, p, x) ==
  /\ p.at = "send" /\ Skips(b, p, x)
  /\ remindSent' = [remindSent EXCEPT ![MailToSend(b, p)] = remindSent[MailToSend(b, p)] + 1]
  /\ UNCHANGED <<remindRows, remindLost>>

Loses(b, p, x) ==
  /\ b # TRUE /\ p.at # "idle" /\ x.at # "send" /\ UNCHANGED <<remindRows, remindSent>> /\ remindRan' \subseteq RemindJobs
  /\ remindLost' = IF p.at = "send" THEN remindLost + 1 ELSE remindLost

RemindShape(b, r, x) ==
  /\ remindRun' = [remindRun EXCEPT ![r] = x]
  /\ UNCHANGED <<remindNow, remindStart, remindDue, remindStatus, remindChanged, remindUnpaid, remindMoves>>
  /\ \/ Lists(b, remindRun[r], x) \/ Passes(b, r, remindRun[r], x) \/ Claims(b, r, remindRun[r], x)
     \/ Sends(b, remindRun[r], x) \/ Loses(b, remindRun[r], x)

RemindPasses(b) ==
  /\ \E k \in RemindJobs : ~Remind(b)!Listed(k) /\ remindRan' = remindRan \cup {k}
  /\ UNCHANGED <<remindNow, remindStart, remindDue, remindStatus, remindChanged, remindUnpaid, remindMoves, remindRows, remindSent,
                 remindLost, remindRun>>

RemindGoes(b, r) ==
  \/ Remind(b)!Claim(r) \/ Remind(b)!Send(r) \/ Remind(b)!SendFails(r) \/ Remind(b)!Dies(r) \/ \E k \in RemindJobs : Remind(b)!Scan(r, k)

RemindOthers(b) ==
  \/ Remind(b)!Confirm \/ Remind(b)!Cancel \/ Remind(b)!Complete \/ Remind(b)!Pay \/ Remind(b)!Tick
  \/ \E s \in RemindScope[b].starts : Remind(b)!Move(s)

LEMMA RemindInit ==
  ASSUME NEW CONSTANT b \in BOOLEAN, Remind(b)!Init
  PROVE  RemindTyped(b) /\ RowsOwned(b) /\ RowsCounted(b)
<1>1. RemindIdle \in RemindTurns(b) /\ RemindIdle.at = "idle" /\ Remind(b)!Idle = RemindIdle
  BY RemindConstants DEF RemindIdle, RemindTurns, RemindPoints, RemindJobs, Remind!Idle
<1>2. /\ remindRun = [r \in RemindRuns(b) |-> RemindIdle] /\ remindRows = {} /\ remindLost = 0
      /\ remindSent = [k \in Remind(b)!Keys |-> 0]
      /\ remindNow = 0 /\ remindStart \in RemindScope[b].starts /\ remindDue = 0 /\ remindStatus = "PENDING" /\ remindChanged = 0
      /\ remindUnpaid = FALSE /\ remindMoves = 0 /\ remindRan = {}
  BY <1>1 DEF Remind!Init, RemindRuns
<1>3. Remind(b)!Keys = RemindKeys(b)
  BY DEF Remind!Keys, Remind!Jobs, Remind!Days, RemindKeys, RemindJobs, RemindDays, RemindInts
<1>4. Sending(b) = {} /\ MailsSent(b) = {}
  BY <1>1, <1>2, <1>3 DEF Sending, MailsSent
<1>5. RemindTyped(b)
  <2>1. /\ RemindTime(b) \in Nat /\ RemindScope[b].moves \in Nat /\ RemindScope[b].starts \subseteq 1 .. RemindTime(b)
    BY RemindConstants
  <2>2. remindRun \in [RemindRuns(b) -> RemindTurns(b)] /\ remindSent \in [RemindKeys(b) -> Nat]
    BY <1>1, <1>2, <1>3
  <2>3. remindNow \in 0 .. RemindTime(b) /\ remindStart \in 1 .. RemindTime(b) /\ remindDue \in 0 .. RemindTime(b)
    BY <1>2, <2>1
  <2>4. remindChanged \in 0 .. RemindTime(b) /\ remindMoves \in 0 .. RemindScope[b].moves
    BY <1>2, <2>1
  <2>5. remindLost \in Nat /\ remindRan \subseteq RemindJobs /\ remindRows \subseteq {"BOOKING", "PAYMENT"} \X RemindDays(b)
    BY <1>2
  <2>6. remindUnpaid \in BOOLEAN /\ remindStatus \in {"PENDING", "CONFIRMED", "CANCELLED", "COMPLETED"}
    BY <1>2
  <2> QED
    BY <2>2, <2>3, <2>4, <2>5, <2>6 DEF RemindTyped
<1>6. RowsOwned(b)
  BY <1>2, <1>3, <1>4 DEF RowsOwned
<1>7. RowsCounted(b)
  BY <1>2, <1>4, FS_EmptySet DEF RowsCounted
<1> QED
  BY <1>5, <1>6, <1>7

LEMMA RemindSkips ==
  ASSUME NEW CONSTANT b \in BOOLEAN, RemindTyped(b), NEW r \in RemindRuns(b), Remind(b)!Skip(r)
  PROVE  \E x \in RemindTurns(b) : remindRun' = [remindRun EXCEPT ![r] = x] /\ Skips(b, remindRun[r], x)
<1> DEFINE p == remindRun[r]
<1>1. p \in RemindTurns(b)
  BY DEF RemindTyped
<1>2. RemindIdle \in RemindTurns(b) /\ Remind(b)!Idle = RemindIdle
  BY RemindConstants DEF RemindIdle, RemindTurns, RemindPoints, RemindJobs, Remind!Idle
<1>3. /\ p.next \in 1 .. Len(RemindInts(b)) /\ Len(RemindInts(b)) \in Nat
      /\ DOMAIN RemindInts(b) = 1 .. Len(RemindInts(b))
  BY <1>1, RemindConstants DEF RemindTurns
<1>4. CASE p.kind # "FOLLOWUP" /\ p.next < Len(RemindInts(b))
  <2> DEFINE x == [[p EXCEPT !.at = "list"] EXCEPT !.next = p.next + 1]
  <2>1. x \in RemindTurns(b)
    <3>1. [p EXCEPT !.at = "list"] \in RemindTurns(b)
      BY <1>1 DEF RemindTurns, RemindPoints
    <3>2. p.next + 1 \in DOMAIN RemindInts(b)
      BY <1>3, <1>4
    <3> QED
      BY <3>1, <3>2 DEF RemindTurns
  <2>2. [remindRun EXCEPT ![r].at = "list", ![r].next = @ + 1] = [remindRun EXCEPT ![r] = x]
    <3>1. remindRun \in [RemindRuns(b) -> RemindTurns(b)]
      BY DEF RemindTyped
    <3>2. [remindRun EXCEPT ![r].at = "list"] = [remindRun EXCEPT ![r] = [p EXCEPT !.at = "list"]]
      OBVIOUS
    <3> DEFINE f == [remindRun EXCEPT ![r].at = "list"]
               q == [p EXCEPT !.at = "list"]
    <3>3. q \in RemindTurns(b) /\ q.next = p.next
      BY <1>1 DEF RemindTurns, RemindPoints
    <3> HIDE DEF q
    <3>4. f = [remindRun EXCEPT ![r] = q]
      BY <3>2 DEF q
    <3>5. f[r] = q /\ f \in [RemindRuns(b) -> RemindTurns(b)]
      BY <3>1, <3>3, <3>4
    <3>6. [remindRun EXCEPT ![r].at = "list", ![r].next = @ + 1] = [f EXCEPT ![r].next = @ + 1]
      OBVIOUS
    <3> HIDE DEF f
    <3>7. [f EXCEPT ![r].next = @ + 1] = [f EXCEPT ![r] = [q EXCEPT !.next = q.next + 1]]
      BY <3>5
    <3>8. [f EXCEPT ![r] = [q EXCEPT !.next = q.next + 1]] = [remindRun EXCEPT ![r] = [q EXCEPT !.next = q.next + 1]]
      BY <3>1, <3>4, <3>5
    <3> QED
      BY <3>3, <3>6, <3>7, <3>8 DEF f, q
  <2>3. remindRun' = [remindRun EXCEPT ![r].at = "list", ![r].next = @ + 1] /\ remindRan' = remindRan
    BY <1>4 DEF Remind!Skip, RemindInts
  <2> QED
    BY <1>4, <2>1, <2>2, <2>3 DEF Skips
<1>5. CASE ~(p.kind # "FOLLOWUP" /\ p.next < Len(RemindInts(b)))
  <2>1. Remind(b)!Finish(r)
    BY <1>5 DEF Remind!Skip, RemindInts
  <2>2. remindRun' = [remindRun EXCEPT ![r] = RemindIdle] /\ remindRan' = remindRan \cup {p.kind}
    BY <1>2, <2>1 DEF Remind!Finish
  <2>3. p.kind = "FOLLOWUP" \/ p.next >= Len(RemindInts(b))
    BY <1>3, <1>5
  <2> QED
    BY <1>2, <2>2, <2>3 DEF Skips
<1> QED
  BY <1>4, <1>5

LEMMA RemindShapes ==
  ASSUME NEW CONSTANT b \in BOOLEAN, RemindTyped(b), NEW r \in RemindRuns(b), RemindGoes(b, r)
  PROVE  RemindPasses(b) \/ \E x \in RemindTurns(b) : RemindShape(b, r, x)
<1> DEFINE p == remindRun[r]
           Same == UNCHANGED <<remindNow, remindStart, remindDue, remindStatus, remindChanged, remindUnpaid, remindMoves>>
<1>1. p \in RemindTurns(b) /\ remindStart \in 0 .. RemindTime(b) /\ remindRan \subseteq RemindJobs
  BY RemindConstants DEF RemindTyped
<1>2. RemindIdle \in RemindTurns(b) /\ Remind(b)!Idle = RemindIdle /\ RemindIdle.at = "idle"
  BY RemindConstants DEF RemindIdle, RemindTurns, RemindPoints, RemindJobs, Remind!Idle
<1>3. 1 \in DOMAIN RemindInts(b)
  BY RemindConstants
<1>4. Remind(b)!RowOf(r) = RowToWrite(b, p) /\ Remind(b)!KeyOf(r) = MailToSend(b, p)
  BY DEF Remind!RowOf, Remind!KeyOf, Remind!FollowUpRow, RowToWrite, MailToSend, RemindInts
<1>5. ASSUME NEW k \in RemindJobs, Remind(b)!Scan(r, k) PROVE RemindPasses(b) \/ \E x \in RemindTurns(b) : RemindShape(b, r, x)
  <2>1. p.at = "idle" /\ Same /\ UNCHANGED <<remindRows, remindSent, remindLost>>
    BY <1>5 DEF Remind!Scan, Remind!booking
  <2>2. CASE Remind(b)!Listed(k)
    <3> DEFINE x == [at |-> "list", kind |-> k, next |-> 1, seen |-> remindStart]
    <3>1. remindRun' = [remindRun EXCEPT ![r] = x] /\ remindRan' = remindRan
      BY <1>5, <2>2 DEF Remind!Scan
    <3>2. x \in RemindTurns(b)
      BY <1>1, <1>3 DEF RemindTurns, RemindPoints
    <3> HIDE DEF x
    <3>3. Lists(b, p, x)
      BY <2>1, <2>2, <3>1 DEF Lists, x
    <3> QED
      BY <2>1, <3>1, <3>2, <3>3 DEF RemindShape
  <2>3. CASE ~Remind(b)!Listed(k)
    <3>1. remindRan' = remindRan \cup {k} /\ remindRun' = remindRun
      BY <1>5, <2>3 DEF Remind!Scan
    <3> QED
      BY <2>1, <2>3, <3>1 DEF RemindPasses
  <2> QED
    BY <2>2, <2>3
<1>6. CASE Remind(b)!Claim(r)
  <2>1. p.at = "list" /\ Same /\ UNCHANGED <<remindSent, remindLost>>
    BY <1>6 DEF Remind!Claim, Remind!booking
  <2>2. CASE ~Remind(b)!Due(r) \/ Remind(b)!Taken(r)
    <3>1. Remind(b)!Skip(r) /\ remindRows' = remindRows
      BY <1>6, <2>2 DEF Remind!Claim
    <3>2. PICK x \in RemindTurns(b) : remindRun' = [remindRun EXCEPT ![r] = x] /\ Skips(b, p, x)
      BY <3>1, RemindSkips
    <3> QED
      BY <2>1, <2>2, <3>1, <3>2 DEF RemindShape, Passes
  <2>3. CASE Remind(b)!Due(r) /\ ~Remind(b)!Taken(r)
    <3>1. remindRows' = remindRows \cup {RowToWrite(b, p)} /\ remindRun' = [remindRun EXCEPT ![r].at = "send"] /\ remindRan' = remindRan
      BY <1>4, <1>6, <2>3 DEF Remind!Claim
    <3>2. RowToWrite(b, p) \notin remindRows
      <4>1. CASE p.kind = "FOLLOWUP"
        <5>1. <<"BOOKING", 1>> \notin remindRows
          BY <2>3, <4>1 DEF Remind!Taken, Remind!AnyReminder, Remind!Days
        <5> QED
          BY <4>1, <5>1 DEF RowToWrite
      <4>2. CASE p.kind # "FOLLOWUP"
        BY <1>4, <2>3, <4>2 DEF Remind!Taken
      <4> QED
        BY <4>1, <4>2
    <3> DEFINE x == [p EXCEPT !.at = "send"]
    <3>3. x \in RemindTurns(b)
      BY <1>1 DEF RemindTurns, RemindPoints
    <3>4. remindRun' = [remindRun EXCEPT ![r] = x]
      BY <3>1
    <3> HIDE DEF x
    <3>5. Claims(b, r, p, x)
      BY <2>1, <3>1, <3>2 DEF Claims, x
    <3> QED
      BY <2>1, <3>3, <3>4, <3>5 DEF RemindShape
  <2> QED
    BY <2>2, <2>3
<1>7. CASE Remind(b)!Send(r)
  <2>1. /\ p.at = "send" /\ Remind(b)!Skip(r) /\ Same /\ UNCHANGED <<remindRows, remindLost>>
        /\ remindSent' = [remindSent EXCEPT ![MailToSend(b, p)] = remindSent[MailToSend(b, p)] + 1]
    BY <1>4, <1>7 DEF Remind!Send, Remind!booking
  <2>2. PICK x \in RemindTurns(b) : remindRun' = [remindRun EXCEPT ![r] = x] /\ Skips(b, p, x)
    BY <2>1, RemindSkips
  <2> QED
    BY <2>1, <2>2 DEF RemindShape, Sends
<1>8. CASE Remind(b)!SendFails(r)
  <2>1. b # TRUE /\ p.at = "send" /\ Remind(b)!Skip(r) /\ Same /\ UNCHANGED <<remindRows, remindSent>> /\ remindLost' = remindLost + 1
    BY <1>8 DEF Remind!SendFails, Remind!booking
  <2>2. PICK x \in RemindTurns(b) : remindRun' = [remindRun EXCEPT ![r] = x] /\ Skips(b, p, x)
    BY <2>1, RemindSkips
  <2>3. x.at # "send" /\ remindRan' \subseteq RemindJobs
    BY <1>1, <1>2, <2>2 DEF Skips, RemindTurns
  <2> QED
    BY <2>1, <2>2, <2>3 DEF RemindShape, Loses
<1>9. CASE Remind(b)!Dies(r)
  <2>1. /\ b # TRUE /\ p.at # "idle" /\ Same /\ UNCHANGED <<remindRows, remindSent, remindRan>>
        /\ remindRun' = [remindRun EXCEPT ![r] = RemindIdle]
        /\ remindLost' = IF p.at = "send" THEN remindLost + 1 ELSE remindLost
    BY <1>2, <1>9 DEF Remind!Dies, Remind!booking
  <2> QED
    BY <1>1, <1>2, <2>1 DEF RemindShape, Loses
<1> QED
  BY <1>5, <1>6, <1>7, <1>8, <1>9 DEF RemindGoes

LEMMA RowsAndMails ==
  ASSUME NEW CONSTANT b \in BOOLEAN, NEW p \in RemindTurns(b)
  PROVE  /\ RowToWrite(b, p) \in {"BOOKING", "PAYMENT"} \X RemindDays(b) /\ MailToSend(b, p) \in RemindKeys(b)
         /\ RowOfMail(MailToSend(b, p)) = RowToWrite(b, p)
<1>1. RemindInts(b)[p.next] \in RemindDays(b) /\ 1 \in RemindDays(b) /\ p.kind \in RemindJobs
  BY DEF RemindDays, RemindTurns
<1>2. CASE p.kind = "FOLLOWUP"
  BY <1>1, <1>2 DEF RowToWrite, MailToSend, RowOfMail, RemindKeys, RemindJobs
<1>3. CASE p.kind # "FOLLOWUP"
  <2>1. RowToWrite(b, p) = <<p.kind, RemindInts(b)[p.next]>> /\ MailToSend(b, p) = <<p.kind, RemindInts(b)[p.next]>>
    BY <1>3 DEF RowToWrite, MailToSend
  <2> QED
    BY <1>1, <1>3, <2>1 DEF RowOfMail, RemindKeys, RemindJobs
<1> QED
  BY <1>2, <1>3

LEMMA SkipsFrom ==
  ASSUME NEW CONSTANT b \in BOOLEAN, NEW p \in RemindTurns(b), NEW x, Skips(b, p, x), remindRan \subseteq RemindJobs
  PROVE  x.at # "send" /\ remindRan' \subseteq RemindJobs
<1>1. RemindIdle.at = "idle"
  BY DEF RemindIdle
<1>2. [[p EXCEPT !.at = "list"] EXCEPT !.next = p.next + 1].at = "list"
  BY DEF RemindTurns
<1> QED
  BY <1>1, <1>2 DEF Skips, RemindTurns

LEMMA RemindTurnTyped ==
  ASSUME NEW CONSTANT b \in BOOLEAN, RemindTyped(b), NEW r \in RemindRuns(b), NEW x \in RemindTurns(b), RemindShape(b, r, x)
  PROVE  RemindTyped(b)'
<1> DEFINE p == remindRun[r]
<1>1. /\ remindRun' \in [RemindRuns(b) -> RemindTurns(b)] /\ p \in RemindTurns(b)
      /\ UNCHANGED <<remindNow, remindStart, remindDue, remindStatus, remindChanged, remindUnpaid, remindMoves>>
  BY DEF RemindShape, RemindTyped
<1>2. SUFFICES remindLost' \in Nat /\ remindRan' \subseteq RemindJobs /\ remindRows' \subseteq {"BOOKING", "PAYMENT"} \X RemindDays(b)
               /\ remindSent' \in [RemindKeys(b) -> Nat]
  BY <1>1 DEF RemindTyped
<1>3. /\ remindLost \in Nat /\ remindRan \subseteq RemindJobs /\ remindRows \subseteq {"BOOKING", "PAYMENT"} \X RemindDays(b)
      /\ remindSent \in [RemindKeys(b) -> Nat]
  BY DEF RemindTyped
<1>4. RowToWrite(b, p) \in {"BOOKING", "PAYMENT"} \X RemindDays(b) /\ MailToSend(b, p) \in RemindKeys(b)
  BY <1>1, RowsAndMails
<1>5. CASE Lists(b, p, x)
  BY <1>3, <1>5 DEF Lists
<1>6. CASE Passes(b, r, p, x)
  BY <1>1, <1>3, <1>6, SkipsFrom DEF Passes
<1>7. CASE Claims(b, r, p, x)
  BY <1>3, <1>4, <1>7 DEF Claims
<1>8. CASE Sends(b, p, x)
  <2>1. remindRan' \subseteq RemindJobs
    BY <1>1, <1>3, <1>8, SkipsFrom DEF Sends
  <2>2. remindSent' \in [RemindKeys(b) -> Nat]
    BY <1>3, <1>4, <1>8 DEF Sends
  <2> QED
    BY <1>3, <1>8, <2>1, <2>2 DEF Sends
<1>9. CASE Loses(b, p, x)
  BY <1>3, <1>9 DEF Loses
<1> QED
  BY <1>5, <1>6, <1>7, <1>8, <1>9 DEF RemindShape

LEMMA RemindCounts ==
  ASSUME NEW CONSTANT b \in BOOLEAN, RemindTyped(b)
  PROVE  /\ IsFiniteSet(remindRows) /\ IsFiniteSet(MailsSent(b)) /\ IsFiniteSet(Sending(b))
         /\ Cardinality(remindRows) \in Nat /\ Cardinality(MailsSent(b)) \in Nat /\ Cardinality(Sending(b)) \in Nat
<1>1. IsFiniteSet(remindRows)
  BY RemindKeysFinite, FS_Subset DEF RemindTyped
<1>2. IsFiniteSet(MailsSent(b))
  BY RemindKeysFinite, FS_Subset DEF MailsSent
<1>3. IsFiniteSet(Sending(b))
  BY RemindConstants, FS_Subset DEF Sending
<1> QED
  BY <1>1, <1>2, <1>3, FS_CardinalityType

LEMMA RemindTurnOwned ==
  ASSUME NEW CONSTANT b \in BOOLEAN, RemindTyped(b), NEW r \in RemindRuns(b), NEW x \in RemindTurns(b), RemindShape(b, r, x),
         RowsOwned(b), RowsCounted(b)
  PROVE  RowsOwned(b)' /\ RowsCounted(b)'
<1> DEFINE p == remindRun[r]
           row == RowToWrite(b, p)
           mail == MailToSend(b, p)
<1>1. /\ p \in RemindTurns(b) /\ remindRun \in [RemindRuns(b) -> RemindTurns(b)] /\ remindLost \in Nat
      /\ remindSent \in [RemindKeys(b) -> Nat]
  BY DEF RemindTyped
<1>2. \A q \in RemindRuns(b) : remindRun'[q] = IF q = r THEN x ELSE remindRun[q]
  BY <1>1 DEF RemindShape
<1>3. mail \in RemindKeys(b) /\ RowOfMail(mail) = row
  BY <1>1, RowsAndMails
<1>4. x.at # "send" => Sending(b)' = Sending(b) \ {r}
  BY <1>2 DEF Sending
<1>5. \A q \in Sending(b) \ {r} : q \in RemindRuns(b) /\ remindRun'[q] = remindRun[q]
  BY <1>2 DEF Sending
<1>6. remindRan \subseteq RemindJobs
  BY DEF RemindTyped
(* Nothing is written, nothing is sent.                                      *)
<1>7. CASE /\ p.at # "send" /\ x.at # "send" /\ UNCHANGED <<remindRows, remindSent, remindLost>>
  <2>1. Sending(b)' = Sending(b) /\ MailsSent(b)' = MailsSent(b) /\ r \notin Sending(b)
    BY <1>4, <1>7 DEF Sending, MailsSent
  <2>2. \A q \in Sending(b) : RowToWrite(b, remindRun'[q]) = RowToWrite(b, remindRun[q])
    BY <1>5, <2>1
  <2>3. RowsOwned(b)'
    BY <1>7, <2>1, <2>2 DEF RowsOwned
  <2> QED
    BY <1>7, <2>1, <2>3 DEF RowsCounted
<1>8. CASE Claims(b, r, p, x)
  <2>1. /\ p.at = "list" /\ x.at = "send" /\ row \notin remindRows /\ remindRows' = remindRows \cup {row}
        /\ UNCHANGED <<remindSent, remindLost>> /\ x.kind = p.kind /\ x.next = p.next
    BY <1>1, <1>8 DEF Claims, RemindTurns
  <2>2. RowToWrite(b, x) = row
    BY <2>1 DEF RowToWrite
  <2>3. Sending(b)' = Sending(b) \cup {r} /\ r \notin Sending(b) /\ MailsSent(b)' = MailsSent(b)
    BY <1>2, <2>1 DEF Sending, MailsSent
  <2>4. \A q \in Sending(b)' : RowToWrite(b, remindRun'[q]) = IF q = r THEN row ELSE RowToWrite(b, remindRun[q])
    BY <1>2, <1>5, <2>2, <2>3
  <2>5. RowsOwned(b)'
    BY <2>1, <2>3, <2>4 DEF RowsOwned
  <2>6. Cardinality(remindRows') = Cardinality(remindRows) + 1
    BY <2>1, RemindCounts, FS_AddElement
  <2>7. Cardinality(Sending(b)') = Cardinality(Sending(b)) + 1
    BY <2>3, RemindCounts, FS_AddElement
  <2> QED
    BY <2>1, <2>3, <2>5, <2>6, <2>7, RemindCounts, <1>1 DEF RowsCounted
<1>9. CASE Sends(b, p, x)
  <2>1. p.at = "send" /\ x.at # "send" /\ UNCHANGED <<remindRows, remindLost>>
    BY <1>1, <1>6, <1>9, SkipsFrom DEF Sends
  <2>2. r \in Sending(b) /\ Sending(b)' = Sending(b) \ {r}
    BY <1>4, <2>1 DEF Sending
  <2>3. mail \notin MailsSent(b) /\ remindSent[mail] = 0
    BY <1>1, <1>3, <2>2 DEF RowsOwned, MailsSent
  <2>4. \A k \in RemindKeys(b) : remindSent'[k] = IF k = mail THEN 1 ELSE remindSent[k]
    BY <1>1, <1>3, <1>9, <2>3 DEF Sends
  <2>5. MailsSent(b)' = MailsSent(b) \cup {mail}
    BY <1>3, <2>4 DEF MailsSent
  <2>6. \A q \in Sending(b)' : q \in Sending(b) /\ q # r /\ RowToWrite(b, remindRun'[q]) = RowToWrite(b, remindRun[q])
    BY <1>5, <2>2
  <2>7. \A q \in Sending(b)' : row # RowToWrite(b, remindRun[q])
    BY <2>2, <2>6 DEF RowsOwned
  <2>8. row \in remindRows
    BY <2>2 DEF RowsOwned
  <2>9. RowsOwned(b)'
    <3>1. \A k \in MailsSent(b)' : RowOfMail(k) \in remindRows'
      BY <1>3, <2>1, <2>5, <2>8 DEF RowsOwned
    <3>2. \A q \in Sending(b)' : \A k \in MailsSent(b)' : RowOfMail(k) # RowToWrite(b, remindRun'[q])
      BY <1>3, <2>5, <2>6, <2>7 DEF RowsOwned
    <3>3. \A k \in RemindKeys(b) : remindSent'[k] <= 1
      BY <1>1, <2>4 DEF RowsOwned
    <3>4. \A q, s \in Sending(b)' : RowToWrite(b, remindRun'[q]) = RowToWrite(b, remindRun'[s]) => q = s
      BY <2>6 DEF RowsOwned
    <3>5. \A q \in Sending(b)' : RowToWrite(b, remindRun'[q]) \in remindRows'
      BY <2>1, <2>6 DEF RowsOwned
    <3> QED
      BY <3>1, <3>2, <3>3, <3>4, <3>5 DEF RowsOwned
  <2>10. Cardinality(MailsSent(b)') = Cardinality(MailsSent(b)) + 1
    BY <2>3, <2>5, RemindCounts, FS_AddElement
  <2>11. Cardinality(Sending(b)') = Cardinality(Sending(b)) - 1
    BY <2>2, RemindCounts, FS_RemoveElement
  <2> QED
    BY <1>1, <2>1, <2>9, <2>10, <2>11, RemindCounts DEF RowsCounted
<1>10. CASE Loses(b, p, x) /\ p.at = "send"
  <2>1. x.at # "send" /\ UNCHANGED <<remindRows, remindSent>> /\ remindLost' = remindLost + 1
    BY <1>10 DEF Loses
  <2>2. r \in Sending(b) /\ Sending(b)' = Sending(b) \ {r} /\ MailsSent(b)' = MailsSent(b)
    BY <1>4, <1>10, <2>1 DEF Sending, MailsSent
  <2>3. \A q \in Sending(b)' : q \in Sending(b) /\ RowToWrite(b, remindRun'[q]) = RowToWrite(b, remindRun[q])
    BY <1>5, <2>2
  <2>4. RowsOwned(b)'
    BY <2>1, <2>2, <2>3 DEF RowsOwned
  <2>5. Cardinality(Sending(b)') = Cardinality(Sending(b)) - 1
    BY <2>2, RemindCounts, FS_RemoveElement
  <2> QED
    BY <1>1, <2>1, <2>2, <2>4, <2>5, RemindCounts DEF RowsCounted
<1>11. CASE Lists(b, p, x) \/ Passes(b, r, p, x) \/ (Loses(b, p, x) /\ p.at # "send")
  <2>1. p.at # "send" /\ UNCHANGED <<remindRows, remindSent, remindLost>>
    BY <1>11 DEF Lists, Passes, Loses
  <2>2. x.at # "send"
    <3>1. CASE Lists(b, p, x)
      BY <3>1 DEF Lists
    <3>2. CASE Passes(b, r, p, x)
      BY <1>1, <1>6, <3>2, SkipsFrom DEF Passes
    <3>3. CASE Loses(b, p, x)
      BY <3>3 DEF Loses
    <3> QED
      BY <1>11, <3>1, <3>2, <3>3
  <2> QED
    BY <1>7, <2>1, <2>2
<1> QED
  BY <1>8, <1>9, <1>10, <1>11 DEF RemindShape

LEMMA RemindMax == ASSUME NEW CONSTANT b, NEW CONSTANT m \in Int PROVE Remind(b)!Max({0, m}) \in {0, m} /\ Remind(b)!Max({0, m}) >= 0
<1>1. \E x \in {0, m} : \A y \in {0, m} : x >= y
  <2>1. CASE m >= 0
    BY <2>1
  <2>2. CASE ~(m >= 0)
    BY <2>2
  <2> QED
    BY <2>1, <2>2
<1>2. Remind(b)!Max({0, m}) \in {0, m} /\ \A y \in {0, m} : Remind(b)!Max({0, m}) >= y
  BY <1>1 DEF Remind!Max
<1> QED
  BY <1>2

LEMMA RemindOthersTyped ==
  ASSUME NEW CONSTANT b \in BOOLEAN, RemindTyped(b), RemindOthers(b)
  PROVE  RemindTyped(b)' /\ UNCHANGED <<remindRows, remindSent, remindLost, remindRun>>
<1>1. /\ RemindTime(b) \in Nat /\ RemindScope[b].starts \subseteq 1 .. RemindTime(b) /\ RemindScope[b].moves \in Nat /\ InvoiceLead \in Nat
      /\ remindNow \in 0 .. RemindTime(b) /\ remindStart \in 1 .. RemindTime(b) /\ remindMoves \in 0 .. RemindScope[b].moves
  BY RemindConstants DEF RemindTyped
<1>2. UNCHANGED <<remindRows, remindSent, remindLost, remindRun>>
  BY DEF RemindOthers, Remind!Confirm, Remind!Cancel, Remind!Complete, Remind!Pay, Remind!Tick, Remind!Move, Remind!booking
<1>3. CASE Remind(b)!Confirm
  <2>1. /\ remindUnpaid' \in BOOLEAN /\ remindStatus' = "CONFIRMED" /\ remindChanged' = remindNow
        /\ UNCHANGED <<remindNow, remindStart, remindMoves, remindRan>>
    BY <1>3 DEF Remind!Confirm, Remind!Write
  <2>2. remindDue' \in 0 .. RemindTime(b)
    <3> DEFINE m == Remind(b)!Max({0, remindStart - InvoiceLead})
    <3>1. remindDue' = IF remindUnpaid' THEN m ELSE remindDue
      BY <1>3 DEF Remind!Confirm
    <3>2. m \in {0, remindStart - InvoiceLead} /\ m >= 0
      <4>1. \A n \in Int : Remind(b)!Max({0, n}) \in {0, n} /\ Remind(b)!Max({0, n}) >= 0
        BY RemindMax
      <4>2. remindStart - InvoiceLead \in Int
        BY <1>1
      <4> QED
        BY <4>1, <4>2
    <3> HIDE DEF m
    <3>3. m \in 0 .. RemindTime(b)
      BY <1>1, <3>2
    <3> QED
      BY <2>1, <3>1, <3>3 DEF RemindTyped
  <2> QED
    BY <1>1, <1>2, <2>1, <2>2 DEF RemindTyped
<1>4. CASE Remind(b)!Cancel \/ Remind(b)!Complete
  <2>1. /\ remindStatus' \in {"CANCELLED", "COMPLETED"} /\ remindChanged' = remindNow
        /\ UNCHANGED <<remindNow, remindStart, remindDue, remindUnpaid, remindMoves, remindRan>>
    BY <1>4 DEF Remind!Cancel, Remind!Complete, Remind!Write
  <2> QED
    BY <1>1, <1>2, <2>1 DEF RemindTyped
<1>5. CASE Remind(b)!Pay
  BY <1>2, <1>5 DEF Remind!Pay, RemindTyped
<1>6. CASE Remind(b)!Tick
  <2>1. /\ remindNow < RemindTime(b) /\ remindNow' = remindNow + 1 /\ remindRan' = {}
        /\ UNCHANGED <<remindStart, remindDue, remindStatus, remindChanged, remindUnpaid, remindMoves>>
    BY <1>6 DEF Remind!Tick, Remind!booking, RemindTime
  <2>2. remindNow' \in 0 .. RemindTime(b)
    BY <1>1, <2>1
  <2> QED
    BY <1>2, <2>1, <2>2 DEF RemindTyped
<1>7. ASSUME NEW s \in RemindScope[b].starts, Remind(b)!Move(s) PROVE RemindTyped(b)'
  <2>1. /\ remindMoves < RemindScope[b].moves /\ remindStart' = s /\ remindMoves' = remindMoves + 1 /\ remindChanged' = remindNow
        /\ UNCHANGED <<remindNow, remindDue, remindStatus, remindUnpaid, remindRan>>
    BY <1>7 DEF Remind!Move
  <2>2. remindStart' \in 1 .. RemindTime(b) /\ remindMoves' \in 0 .. RemindScope[b].moves
    BY <1>1, <2>1
  <2> QED
    BY <1>1, <1>2, <2>1, <2>2 DEF RemindTyped
<1> QED
  BY <1>2, <1>3, <1>4, <1>5, <1>6, <1>7 DEF RemindOthers

(* The hour of the last reminder of d days, and what is in its window then.   *)
Closing(b, d) == remindStart - Remind(b)!Closes(d) - 1

LEMMA LastHour ==
  ASSUME NEW CONSTANT b \in BOOLEAN, NEW CONSTANT d \in 1 .. RemindHorizon - 1
  PROVE  /\ Remind(b)!Closes(d) \in Nat /\ Remind(b)!InWindow(d, Remind(b)!Closes(d) + 1)
         /\ Remind(b)!Closes(d) + 1 <= RemindHorizon * RemindDay(b)
<1>1. RemindHorizon \in Nat \ {0} /\ RemindDay(b) \in Nat \ {0}
  BY RemindConstants
<1> DEFINE D == RemindDay(b)
           e == (d - 1) * D
<1>2. d \in Nat \ {0} /\ d + 1 <= RemindHorizon /\ RemindHorizon \in Nat /\ D \in Nat \ {0}
  BY <1>1
<1> HIDE DEF D
<1>3. e \in Nat /\ d * D = e + D
  BY <1>2
<1>4. RemindHorizon * D >= (d + 1) * D
  BY <1>2
<1>5. (d + 1) * D = e + D + D
  BY <1>2
<1>6. Remind(b)!Closes(d) = IF d = 1 THEN 0 ELSE e + 1
  BY DEF Remind!Closes, D, RemindDay
<1>7. \A h : Remind(b)!InWindow(d, h) <=> h <= d * D + 1 /\ (d > 1 => h > e + 1)
  BY DEF Remind!InWindow, D, RemindDay
<1>8. RemindHorizon * D \in Nat /\ d = 1 => e = 0
  BY <1>2
<1> HIDE DEF e
<1>9. CASE d = 1
  <2>1. Remind(b)!Closes(d) = 0 /\ e = 0 /\ d * D = D
    BY <1>2, <1>6, <1>8, <1>9, <1>3
  <2>2. 0 + 1 <= d * D + 1 /\ ~(d > 1)
    BY <1>2, <1>9, <2>1
  <2> QED
    BY <1>2, <1>4, <1>5, <1>7, <2>1, <2>2 DEF D
<1>10. CASE d # 1
  <2>1. Remind(b)!Closes(d) = e + 1
    BY <1>6, <1>10
  <2>2. e + 1 + 1 <= d * D + 1 /\ e + 1 + 1 > e + 1
    BY <1>2, <1>3
  <2>3. e + 1 + 1 <= RemindHorizon * D
    BY <1>2, <1>3, <1>4, <1>5
  <2> QED
    BY <1>3, <1>7, <2>1, <2>2, <2>3 DEF D
<1> QED
  BY <1>9, <1>10

(* While every job runs in every hour and nothing fails: a row of the booking  *)
(* is mailed or a run is about to, and once its last hour is over, or a run    *)
(* of that hour has come past it, a reminder has its row.                    *)
Open == remindStatus \in {"PENDING", "CONFIRMED"}
BookingRow(b, i) == <<"BOOKING", RemindInts(b)[i]>>
CloseOf(b, i)    == Closing(b, RemindInts(b)[i])
ComePast(p, i)   == p.at # "idle" /\ p.kind = "BOOKING" /\ (p.next > i \/ (p.at = "send" /\ p.next = i))
Standing(b, i)   == remindMoves = 0 /\ remindStatus = "CONFIRMED" /\ remindChanged < CloseOf(b, i)

OnlyBefore(b) == Open => \A r \in RemindRuns(b) : remindRun[r].at # "idle" => remindRun[r].kind # "FOLLOWUP"

RowsMailed(b) ==
  Open => \A d \in RemindDays(b) : <<"BOOKING", d>> \in remindRows =>
    remindSent[<<"BOOKING", d>>] > 0 \/ \E r \in Sending(b) : RowToWrite(b, remindRun[r]) = <<"BOOKING", d>>

SeenAsIs(b) == remindMoves = 0 => \A r \in RemindRuns(b) : remindRun[r].at # "idle" => remindRun[r].seen = remindStart

ClosedKept(b) ==
  \A i \in DOMAIN RemindInts(b) : Standing(b, i) =>
    /\ remindNow = CloseOf(b, i) /\ "BOOKING" \in remindRan => BookingRow(b, i) \in remindRows
    /\ \A r \in RemindRuns(b) : remindNow = CloseOf(b, i) /\ ComePast(remindRun[r], i) => BookingRow(b, i) \in remindRows
    /\ remindNow > CloseOf(b, i) => remindSent[BookingRow(b, i)] > 0

RemindKept(b) == OnlyBefore(b) /\ RowsMailed(b) /\ SeenAsIs(b) /\ ClosedKept(b)

LEMMA CloseOfInt ==
  ASSUME NEW CONSTANT b \in BOOLEAN, RemindTyped(b), NEW CONSTANT i \in DOMAIN RemindInts(b)
  PROVE  /\ CloseOf(b, i) \in Int /\ CloseOf(b, i) < remindStart /\ remindStart <= CloseOf(b, i) + RemindHorizon * RemindDay(b)
         /\ Remind(b)!InWindow(RemindInts(b)[i], remindStart - CloseOf(b, i)) /\ RemindInts(b)[i] \in RemindDays(b)
         /\ BookingRow(b, i) \in RemindKeys(b) /\ i \in Nat \ {0} /\ i <= Len(RemindInts(b)) /\ Len(RemindInts(b)) \in Nat
<1> DEFINE d == RemindInts(b)[i]
           c == Remind(b)!Closes(d)
<1>1. /\ d \in 1 .. RemindHorizon - 1 /\ RemindHorizon \in Nat /\ RemindDay(b) \in Nat /\ Len(RemindInts(b)) \in Nat
      /\ DOMAIN RemindInts(b) = 1 .. Len(RemindInts(b))
  BY RemindConstants
<1>2. c \in Nat /\ Remind(b)!InWindow(d, c + 1) /\ c + 1 <= RemindHorizon * RemindDay(b)
  BY <1>1, LastHour
<1>3. remindStart \in Nat /\ CloseOf(b, i) = remindStart - c - 1
  BY RemindConstants DEF RemindTyped, CloseOf, Closing
<1>4. RemindHorizon * RemindDay(b) \in Nat
  BY <1>1
<1>5. d \in RemindDays(b) /\ BookingRow(b, i) \in RemindKeys(b)
  BY DEF RemindDays, BookingRow, RemindKeys, RemindJobs
<1> HIDE DEF c
<1>6. remindStart - (remindStart - c - 1) = c + 1
  BY <1>2, <1>3
<1> QED
  BY <1>1, <1>2, <1>3, <1>4, <1>5, <1>6

LEMMA RemindKeptInit == ASSUME NEW CONSTANT b \in BOOLEAN, Remind(b)!Init PROVE RemindKept(b)
<1>1. RemindIdle.at = "idle" /\ Remind(b)!Idle = RemindIdle
  BY DEF RemindIdle, Remind!Idle
<1>2. /\ remindRun = [r \in RemindRuns(b) |-> RemindIdle] /\ remindRows = {} /\ remindStatus = "PENDING"
  BY <1>1 DEF Remind!Init, RemindRuns
<1> QED
  BY <1>1, <1>2 DEF RemindKept, OnlyBefore, RowsMailed, SeenAsIs, ClosedKept, Standing

LEMMA RemindOthersKept ==
  ASSUME NEW CONSTANT b \in BOOLEAN, b = TRUE, RemindTyped(b), RemindOthers(b), RemindKept(b)
  PROVE  RemindKept(b)'
<1>1. UNCHANGED <<remindRows, remindSent, remindLost, remindRun>>
  BY RemindOthersTyped
<1>2. remindNow \in Nat /\ remindMoves \in Nat /\ remindChanged \in Nat
  BY RemindConstants DEF RemindTyped
<1>3. Open' => Open
  BY DEF Open, RemindOthers, Remind!Confirm, Remind!Cancel, Remind!Complete, Remind!Pay, Remind!Tick, Remind!Move, Remind!booking,
         Remind!Write
<1>4. Sending(b)' = Sending(b)
  BY <1>1 DEF Sending
<1>5. OnlyBefore(b)' /\ RowsMailed(b)'
  BY <1>1, <1>3, <1>4 DEF RemindKept, OnlyBefore, RowsMailed
<1>6. CASE Remind(b)!Confirm
  <2>1. remindChanged' = remindNow /\ UNCHANGED <<remindNow, remindStart, remindMoves, remindRan>>
    BY <1>6 DEF Remind!Confirm, Remind!Write
  <2>2. SeenAsIs(b)'
    BY <1>1, <2>1 DEF RemindKept, SeenAsIs
  <2>3. ClosedKept(b)'
    <3> SUFFICES ASSUME NEW CONSTANT i \in DOMAIN RemindInts(b), Standing(b, i)'
                 PROVE  ~(remindNow' = CloseOf(b, i)') /\ ~(remindNow' > CloseOf(b, i)')
      BY DEF ClosedKept
    <3>1. CloseOf(b, i)' = CloseOf(b, i) /\ CloseOf(b, i) \in Int
      BY <2>1, CloseOfInt DEF CloseOf, Closing
    <3>2. PICK c \in Int : c = CloseOf(b, i)
      BY <3>1
    <3>3. remindNow < c
      BY <2>1, <3>1, <3>2 DEF Standing
    <3>4. ~(remindNow = c) /\ ~(remindNow > c)
      BY <1>2, <3>3
    <3> QED
      BY <2>1, <3>1, <3>2, <3>4
  <2> QED
    BY <1>5, <2>2, <2>3 DEF RemindKept
<1>7. CASE Remind(b)!Cancel \/ Remind(b)!Complete
  <2>1. remindStatus' \in {"CANCELLED", "COMPLETED"} /\ UNCHANGED <<remindStart, remindMoves>>
    BY <1>7 DEF Remind!Cancel, Remind!Complete, Remind!Write
  <2> QED
    BY <1>1, <1>5, <2>1 DEF RemindKept, SeenAsIs, ClosedKept, Standing
<1>8. CASE Remind(b)!Pay
  <2>1. UNCHANGED <<remindNow, remindStart, remindStatus, remindChanged, remindMoves, remindRan>>
    BY <1>8 DEF Remind!Pay
  <2> QED
    BY <1>1, <1>5, <2>1 DEF RemindKept, SeenAsIs, ClosedKept, Standing, CloseOf, Closing
<1>9. CASE Remind(b)!Tick
  <2>1. /\ remindNow' = remindNow + 1 /\ remindRan' = {} /\ remindRan = RemindJobs /\ \A r \in RemindRuns(b) : remindRun[r].at = "idle"
        /\ UNCHANGED <<remindStart, remindDue, remindStatus, remindChanged, remindUnpaid, remindMoves>>
    BY <1>9 DEF Remind!Tick, Remind!booking, Remind!Jobs, RemindJobs, RemindRuns
  <2>2. SeenAsIs(b)'
    BY <1>1, <2>1 DEF RemindKept, SeenAsIs
  <2>3. ASSUME NEW CONSTANT i \in DOMAIN RemindInts(b), Standing(b, i)', remindNow' > CloseOf(b, i)' PROVE remindSent[BookingRow(b, i)] > 0
    <3>1. Standing(b, i) /\ CloseOf(b, i)' = CloseOf(b, i) /\ CloseOf(b, i) \in Int /\ Open
      BY <2>1, <2>3, CloseOfInt DEF Standing, CloseOf, Closing, Open
    <3>5. PICK c \in Int : c = CloseOf(b, i)
      BY <3>1
    <3>6. remindNow + 1 > c
      BY <2>1, <2>3, <3>1, <3>5
    <3>2. remindNow = c \/ remindNow > c
      BY <1>2, <3>6
    <3>3. CASE remindNow > CloseOf(b, i)
      BY <3>1, <3>3 DEF RemindKept, ClosedKept
    <3>4. CASE remindNow = CloseOf(b, i)
      <4>1. BookingRow(b, i) \in remindRows
        BY <2>1, <3>1, <3>4 DEF RemindKept, ClosedKept, RemindJobs
      <4>2. Sending(b) = {}
        BY <2>1 DEF Sending
      <4>3. RemindInts(b)[i] \in RemindDays(b)
        BY CloseOfInt
      <4> QED
        BY <3>1, <4>1, <4>2, <4>3 DEF RemindKept, RowsMailed, BookingRow
    <3> QED
      BY <3>2, <3>3, <3>4, <3>5
  <2>4. \A r \in RemindRuns(b) : \A i : ~ComePast(remindRun'[r], i)
    BY <1>1, <2>1 DEF ComePast
  <2>5. ClosedKept(b)'
    BY <1>1, <2>1, <2>3, <2>4 DEF ClosedKept, BookingRow
  <2> QED
    BY <1>5, <2>2, <2>5 DEF RemindKept
<1>10. ASSUME NEW s \in RemindScope[b].starts, Remind(b)!Move(s) PROVE RemindKept(b)'
  <2>1. remindMoves' = remindMoves + 1
    BY <1>10 DEF Remind!Move
  <2>2. remindMoves' # 0
    BY <1>2, <2>1
  <2> QED
    BY <1>5, <2>2 DEF RemindKept, SeenAsIs, ClosedKept, Standing
<1> QED
  BY <1>6, <1>7, <1>8, <1>9, <1>10 DEF RemindOthers

LEMMA RemindTurnKept ==
  ASSUME NEW CONSTANT b \in BOOLEAN, b = TRUE, RemindTyped(b), NEW r \in RemindRuns(b), NEW x \in RemindTurns(b), RemindShape(b, r, x),
         RowsOwned(b), RemindKept(b)
  PROVE  RemindKept(b)'
<1> DEFINE p == remindRun[r]
           row == RowToWrite(b, p)
           mail == MailToSend(b, p)
<1>1. /\ p \in RemindTurns(b) /\ remindRun \in [RemindRuns(b) -> RemindTurns(b)] /\ remindSent \in [RemindKeys(b) -> Nat]
      /\ remindNow \in Nat /\ remindRan \subseteq RemindJobs
  <2>1. RemindTime(b) \in Nat /\ remindNow \in 0 .. RemindTime(b)
    BY RemindConstants DEF RemindTyped
  <2>2. remindNow \in Nat
    BY <2>1
  <2> QED
    BY <2>2 DEF RemindTyped
<1>2. \A q \in RemindRuns(b) : remindRun'[q] = IF q = r THEN x ELSE remindRun[q]
  BY <1>1 DEF RemindShape
<1>3. UNCHANGED <<remindNow, remindStart, remindStatus, remindChanged, remindMoves>>
  BY DEF RemindShape
<1>4. mail \in RemindKeys(b) /\ RowOfMail(mail) = row
  BY <1>1, RowsAndMails
<1>5. (Open' <=> Open) /\ \A i : (Standing(b, i)' <=> Standing(b, i)) /\ CloseOf(b, i)' = CloseOf(b, i)
  BY <1>3 DEF Open, Standing, CloseOf, Closing
<1>6. p.next \in Nat /\ RemindIdle.at = "idle" /\ ~Loses(b, p, x)
  <2>1. p.next \in 1 .. Len(RemindInts(b)) /\ Len(RemindInts(b)) \in Nat
    BY <1>1, RemindConstants DEF RemindTurns
  <2> DEFINE n == Len(RemindInts(b))
  <2>4. p.next \in 1 .. n /\ n \in Nat
    BY <2>1
  <2> HIDE DEF n
  <2>2. p.next \in Nat
    BY <2>4
  <2>3. RemindIdle.at = "idle" /\ ~Loses(b, p, x)
    BY DEF Loses, RemindIdle
  <2> QED
    BY <2>2, <2>3
(* How a run that goes on, goes on.                                          *)
<1>7. ASSUME Skips(b, p, x)
      PROVE  \/ x.at = "list" /\ x.kind = p.kind /\ x.seen = p.seen /\ x.next = p.next + 1 /\ remindRan' = remindRan
             \/ x.at = "idle" /\ remindRan' = remindRan \cup {p.kind} /\ (p.kind = "FOLLOWUP" \/ p.next >= Len(RemindInts(b)))
  <2>1. /\ [[p EXCEPT !.at = "list"] EXCEPT !.next = p.next + 1].at = "list"
        /\ [[p EXCEPT !.at = "list"] EXCEPT !.next = p.next + 1].kind = p.kind
        /\ [[p EXCEPT !.at = "list"] EXCEPT !.next = p.next + 1].seen = p.seen
        /\ [[p EXCEPT !.at = "list"] EXCEPT !.next = p.next + 1].next = p.next + 1
    BY <1>1 DEF RemindTurns
  <2> QED
    BY <1>6, <1>7, <2>1 DEF Skips
<1>8. ASSUME Claims(b, r, p, x)
      PROVE  /\ p.at = "list" /\ x.at = "send" /\ x.kind = p.kind /\ x.seen = p.seen /\ x.next = p.next /\ RowToWrite(b, x) = row
             /\ remindRows' = remindRows \cup {row} /\ UNCHANGED <<remindRan, remindSent>>
  <2>1. /\ [p EXCEPT !.at = "send"].at = "send" /\ [p EXCEPT !.at = "send"].kind = p.kind
        /\ [p EXCEPT !.at = "send"].seen = p.seen /\ [p EXCEPT !.at = "send"].next = p.next
    BY <1>1 DEF RemindTurns
  <2> QED
    BY <1>8, <2>1 DEF Claims, RowToWrite
<1>9. OnlyBefore(b)'
  <2> SUFFICES ASSUME Open, x.at # "idle" PROVE x.kind # "FOLLOWUP"
    BY <1>2, <1>5 DEF RemindKept, OnlyBefore
  <2>1. CASE Lists(b, p, x)
    <3>3. PICK k \in RemindJobs : Remind(b)!Listed(k) /\ x = [at |-> "list", kind |-> k, next |-> 1, seen |-> remindStart]
      BY <2>1 DEF Lists
    <3>1. Remind(b)!Listed(k) /\ x.kind = k
      BY <3>3
    <3>2. ~Remind(b)!Listed("FOLLOWUP")
      BY DEF Remind!Listed, Remind!JustCompleted, Open
    <3> QED
      BY <3>1, <3>2
  <2>2. CASE Passes(b, r, p, x) \/ Sends(b, p, x)
    <3>1. p.at # "idle" /\ Skips(b, p, x)
      BY <2>2 DEF Passes, Sends
    <3>2. x.kind = p.kind
      BY <1>7, <3>1
    <3> QED
      BY <3>1, <3>2 DEF RemindKept, OnlyBefore
  <2>3. CASE Claims(b, r, p, x)
    BY <1>8, <2>3 DEF RemindKept, OnlyBefore
  <2> QED
    BY <1>6, <2>1, <2>2, <2>3 DEF RemindShape
<1>10. SeenAsIs(b)'
  <2> SUFFICES ASSUME remindMoves = 0, x.at # "idle" PROVE x.seen = remindStart
    BY <1>2, <1>3 DEF RemindKept, SeenAsIs
  <2>1. CASE Lists(b, p, x)
    BY <2>1 DEF Lists
  <2>2. CASE Passes(b, r, p, x) \/ Sends(b, p, x)
    <3>1. p.at # "idle" /\ Skips(b, p, x)
      BY <2>2 DEF Passes, Sends
    <3>2. x.seen = p.seen
      BY <1>7, <3>1
    <3> QED
      BY <3>1, <3>2 DEF RemindKept, SeenAsIs
  <2>3. CASE Claims(b, r, p, x)
    BY <1>8, <2>3 DEF RemindKept, SeenAsIs
  <2> QED
    BY <1>6, <2>1, <2>2, <2>3 DEF RemindShape
<1>11. \A k \in RemindKeys(b) : remindSent[k] > 0 => remindSent'[k] > 0
  <2>1. CASE Sends(b, p, x)
    <3>1. \A k \in RemindKeys(b) : remindSent'[k] = IF k = mail THEN remindSent[k] + 1 ELSE remindSent[k]
      BY <1>1, <1>4, <2>1 DEF Sends
    <3> SUFFICES ASSUME NEW k \in RemindKeys(b), remindSent[k] > 0 PROVE remindSent'[k] > 0
      OBVIOUS
    <3>2. remindSent[k] \in Nat
      BY <1>1
    <3>3. remindSent'[k] = remindSent[k] + 1 \/ remindSent'[k] = remindSent[k]
      BY <3>1
    <3> QED
      BY <3>2, <3>3
  <2>2. CASE remindSent' = remindSent
    BY <2>2
  <2> QED
    BY <1>6, <2>1, <2>2 DEF RemindShape, Lists, Passes, Claims
<1>12. remindRows \subseteq remindRows'
  BY <1>6 DEF RemindShape, Lists, Passes, Claims, Sends
<1>13. RowsMailed(b)'
  <2> SUFFICES ASSUME Open, NEW d \in RemindDays(b), <<"BOOKING", d>> \in remindRows'
               PROVE  remindSent'[<<"BOOKING", d>>] > 0 \/ \E q \in Sending(b)' : RowToWrite(b, remindRun'[q]) = <<"BOOKING", d>>
    BY <1>5 DEF RowsMailed
  <2> DEFINE k == <<"BOOKING", d>>
  <2>1. k \in RemindKeys(b)
    BY DEF RemindKeys, RemindJobs
  <2>2. ASSUME NEW q \in Sending(b), q # r PROVE q \in Sending(b)' /\ remindRun'[q] = remindRun[q]
    BY <1>2, <2>2 DEF Sending
  <2>3. CASE k \in remindRows
    <3>1. remindSent[k] > 0 \/ \E q \in Sending(b) : RowToWrite(b, remindRun[q]) = k
      BY <2>3 DEF RemindKept, RowsMailed
    <3>2. CASE remindSent[k] > 0
      BY <1>11, <2>1, <3>2
    <3>3. ASSUME NEW q \in Sending(b), RowToWrite(b, remindRun[q]) = k, q # r
          PROVE  \E s \in Sending(b)' : RowToWrite(b, remindRun'[s]) = k
      BY <2>2, <3>3
    <3>4. CASE r \in Sending(b) /\ row = k
      <4>1. p.at = "send"
        BY <3>4 DEF Sending
      <4>2. Sends(b, p, x)
        BY <1>6, <4>1 DEF RemindShape, Lists, Passes, Claims
      <4>3. p.kind # "FOLLOWUP"
        BY <4>1 DEF RemindKept, OnlyBefore
      <4>4. mail = k
        BY <3>4, <4>3 DEF MailToSend
      <4>5. remindSent'[k] = remindSent[k] + 1
        BY <1>1, <2>1, <4>2, <4>4 DEF Sends
      <4>6. remindSent[k] \in Nat
        BY <1>1, <2>1
      <4> HIDE DEF k
      <4>7. remindSent'[k] > 0
        BY <4>5, <4>6
      <4> QED
        BY <4>7 DEF k
    <3> QED
      BY <3>1, <3>2, <3>3, <3>4
  <2>4. CASE k \notin remindRows
    <3>1. Claims(b, r, p, x)
      BY <1>6, <2>4 DEF RemindShape, Lists, Passes, Sends
    <3>2. row = k
      BY <1>8, <2>4, <3>1
    <3>3. r \in Sending(b)'
      BY <1>2, <1>8, <3>1 DEF Sending
    <3> QED
      BY <1>2, <1>8, <3>1, <3>2, <3>3
  <2> QED
    BY <2>3, <2>4
(* In the last hour of its reminder a run does not come past it without.     *)
<1>14. ASSUME NEW CONSTANT i \in DOMAIN RemindInts(b), Standing(b, i), remindNow = CloseOf(b, i), Passes(b, r, p, x) \/ Sends(b, p, x),
              p.kind = "BOOKING", p.next >= i
       PROVE  BookingRow(b, i) \in remindRows
  <2>1. p.at # "idle" /\ i \in Nat
    BY <1>14, CloseOfInt DEF Passes, Sends
  <2>2. CASE ComePast(p, i)
    BY <1>14, <2>2 DEF RemindKept, ClosedKept
  <2>3. CASE ~ComePast(p, i)
    <3>1. p.at = "list" /\ p.next = i
      <4>1. ~(p.next > i) /\ ~(p.at = "send" /\ p.next = i)
        BY <1>14, <2>1, <2>3 DEF ComePast
      <4>2. p.next = i
        BY <1>6, <1>14, <2>1, <4>1
      <4> QED
        BY <1>14, <4>1, <4>2 DEF Passes, Sends
    <3>2. Passes(b, r, p, x)
      BY <1>14, <3>1 DEF Sends
    <3>3. p.seen = remindStart
      BY <1>14, <2>1 DEF RemindKept, SeenAsIs, Standing
    <3>4. Remind(b)!InWindow(RemindInts(b)[i], p.seen - remindNow)
      BY <1>14, <3>3, CloseOfInt
    <3>5. Remind(b)!Due(r)
      BY <1>14, <3>1, <3>4 DEF Remind!Due, RemindInts
    <3>6. Remind(b)!RowOf(r) \in remindRows
      BY <1>14, <3>2, <3>5 DEF Passes, Remind!Taken
    <3> QED
      BY <1>14, <3>1, <3>6 DEF Remind!RowOf, BookingRow, RemindInts
  <2> QED
    BY <2>2, <2>3
<1>15. ASSUME NEW CONSTANT i \in DOMAIN RemindInts(b), Standing(b, i)
       PROVE  /\ remindNow = CloseOf(b, i) /\ "BOOKING" \in remindRan' => BookingRow(b, i) \in remindRows'
              /\ remindNow = CloseOf(b, i) /\ ComePast(x, i) => BookingRow(b, i) \in remindRows'
              /\ remindNow > CloseOf(b, i) => remindSent'[BookingRow(b, i)] > 0
  <2>1. remindNow > CloseOf(b, i) => remindSent'[BookingRow(b, i)] > 0
    BY <1>11, <1>15, CloseOfInt DEF RemindKept, ClosedKept
  <2> SUFFICES ASSUME remindNow = CloseOf(b, i)
               PROVE  ("BOOKING" \in remindRan' => BookingRow(b, i) \in remindRows') /\ (ComePast(x, i) => BookingRow(b, i) \in remindRows')
    BY <2>1
  <2>2. "BOOKING" \in remindRan => BookingRow(b, i) \in remindRows'
    BY <1>12, <1>15 DEF RemindKept, ClosedKept
  <2>3. ComePast(p, i) => BookingRow(b, i) \in remindRows'
    BY <1>12, <1>15 DEF RemindKept, ClosedKept
  <2>4. i \in Nat \ {0} /\ i <= Len(RemindInts(b)) /\ Len(RemindInts(b)) \in Nat
    BY CloseOfInt
  <2>5. CASE Lists(b, p, x)
    <3>1. x.at = "list" /\ x.next = 1 /\ remindRan' = remindRan
      BY <2>5 DEF Lists
    <3>2. ~(1 > i)
      BY <2>4
    <3> QED
      BY <2>2, <3>1, <3>2 DEF ComePast
  <2>6. CASE Passes(b, r, p, x) \/ Sends(b, p, x)
    <3>1. Skips(b, p, x) /\ p.at # "idle"
      BY <2>6 DEF Passes, Sends
    <3>2. p.kind = "BOOKING" /\ p.next >= i => BookingRow(b, i) \in remindRows'
      BY <1>12, <1>14, <1>15, <2>6
    <3>3. CASE x.at = "list" /\ x.kind = p.kind /\ x.next = p.next + 1 /\ remindRan' = remindRan
      <4>1. ComePast(x, i) => p.kind = "BOOKING" /\ p.next >= i
        BY <1>6, <2>4, <3>3 DEF ComePast
      <4> QED
        BY <2>2, <3>2, <3>3, <4>1
    <3>4. CASE x.at = "idle" /\ remindRan' = remindRan \cup {p.kind} /\ (p.kind = "FOLLOWUP" \/ p.next >= Len(RemindInts(b)))
      <4>1. ~ComePast(x, i)
        BY <3>4 DEF ComePast
      <4>2. p.kind = "BOOKING" => p.next >= i
        <5> SUFFICES ASSUME p.kind = "BOOKING" PROVE p.next >= i
          OBVIOUS
        <5>1. p.next >= Len(RemindInts(b))
          BY <3>4
        <5>2. i <= Len(RemindInts(b)) /\ i \in Nat /\ Len(RemindInts(b)) \in Nat /\ p.next \in Nat
          BY <1>6, <2>4
        <5> DEFINE n == Len(RemindInts(b))
        <5>3. p.next >= n /\ i <= n /\ n \in Nat /\ i \in Nat /\ p.next \in Nat
          BY <5>1, <5>2
        <5> HIDE DEF n
        <5> QED
          BY <5>3
      <4> QED
        BY <2>2, <3>2, <3>4, <4>1, <4>2
    <3> QED
      BY <1>7, <3>1, <3>3, <3>4
  <2>7. CASE Claims(b, r, p, x)
    <3>1. ComePast(x, i) => ComePast(p, i) \/ (p.kind = "BOOKING" /\ p.next = i)
      BY <1>8, <2>7 DEF ComePast
    <3>2. p.kind = "BOOKING" /\ p.next = i => row = BookingRow(b, i)
      BY DEF RowToWrite, BookingRow
    <3> QED
      BY <1>8, <2>2, <2>3, <2>7, <3>1, <3>2
  <2> QED
    BY <1>6, <2>5, <2>6, <2>7 DEF RemindShape
<1>16. ClosedKept(b)'
  <2> SUFFICES ASSUME NEW CONSTANT i \in DOMAIN RemindInts(b), Standing(b, i)
               PROVE  /\ remindNow = CloseOf(b, i) /\ "BOOKING" \in remindRan' => BookingRow(b, i) \in remindRows'
                      /\ \A q \in RemindRuns(b) : remindNow = CloseOf(b, i) /\ ComePast(remindRun'[q], i) => BookingRow(b, i) \in remindRows'
                      /\ remindNow > CloseOf(b, i) => remindSent'[BookingRow(b, i)] > 0
    BY <1>3, <1>5 DEF ClosedKept, BookingRow
  <2>1. \A q \in RemindRuns(b) : remindNow = CloseOf(b, i) /\ ComePast(remindRun[q], i) => BookingRow(b, i) \in remindRows'
    BY <1>12 DEF RemindKept, ClosedKept
  <2> QED
    BY <1>2, <1>15, <2>1
<1> QED
  BY <1>9, <1>10, <1>13, <1>16 DEF RemindKept

RemindInv(b) == RemindTyped(b) /\ RowsOwned(b) /\ RowsCounted(b) /\ (b = TRUE => RemindKept(b))

LEMMA RemindStep ==
  ASSUME NEW CONSTANT b \in BOOLEAN, RemindInv(b), Remind(b)!Next \/ UNCHANGED remindVars
  PROVE  RemindInv(b)'
<1>1. RemindTyped(b) /\ RowsOwned(b) /\ RowsCounted(b) /\ (b = TRUE => RemindKept(b))
  BY DEF RemindInv
<1>2. ASSUME UNCHANGED <<remindRows, remindSent, remindLost, remindRun>> PROVE RowsOwned(b)' /\ RowsCounted(b)'
  <2>1. Sending(b)' = Sending(b) /\ MailsSent(b)' = MailsSent(b)
    BY <1>2 DEF Sending, MailsSent
  <2> QED
    BY <1>1, <1>2, <2>1 DEF RowsOwned, RowsCounted
<1>3. CASE RemindOthers(b)
  BY <1>1, <1>2, <1>3, RemindOthersTyped, RemindOthersKept DEF RemindInv
<1>4. CASE UNCHANGED remindVars
  <2>1. UNCHANGED <<remindNow, remindStart, remindDue, remindStatus, remindChanged, remindUnpaid, remindMoves, remindRows, remindSent,
                    remindLost, remindRun, remindRan>>
    BY <1>4 DEF remindVars
  <2>2. RemindTyped(b)'
    BY <1>1, <2>1 DEF RemindTyped
  <2>3. RemindKept(b) => RemindKept(b)'
    BY <2>1 DEF RemindKept, OnlyBefore, RowsMailed, SeenAsIs, ClosedKept, Open, Standing, CloseOf, Closing, Sending, BookingRow
  <2> QED
    BY <1>1, <1>2, <2>1, <2>2, <2>3 DEF RemindInv
<1>5. ASSUME RemindPasses(b) PROVE RemindInv(b)'
  <2>1. PICK k \in RemindJobs : ~Remind(b)!Listed(k) /\ remindRan' = remindRan \cup {k}
    BY <1>5 DEF RemindPasses
  <2>2. UNCHANGED <<remindNow, remindStart, remindDue, remindStatus, remindChanged, remindUnpaid, remindMoves, remindRows, remindSent,
                    remindLost, remindRun>>
    BY <1>5 DEF RemindPasses
  <2>3. RemindTyped(b)'
    BY <1>1, <2>1, <2>2 DEF RemindTyped
  <2>4. ASSUME b = TRUE PROVE RemindKept(b)'
    <3>1. RemindKept(b)
      BY <1>1, <2>4
    <3>2. OnlyBefore(b)' /\ RowsMailed(b)' /\ SeenAsIs(b)'
      BY <2>2, <3>1 DEF RemindKept, OnlyBefore, RowsMailed, SeenAsIs, Open, Sending
    <3>3. ASSUME NEW CONSTANT i \in DOMAIN RemindInts(b), Standing(b, i), remindNow = CloseOf(b, i) PROVE k # "BOOKING"
      <4>1. remindNow < remindStart /\ remindStart <= remindNow + RemindHorizon * RemindDay(b)
        BY <1>1, <3>3, CloseOfInt
      <4>2. Remind(b)!Upcoming
        BY <3>3, <4>1 DEF Remind!Upcoming, Standing, RemindDay
      <4> QED
        BY <2>1, <4>2 DEF Remind!Listed
    <3>4. ClosedKept(b)'
      <4> SUFFICES ASSUME NEW CONSTANT i \in DOMAIN RemindInts(b), Standing(b, i)
                   PROVE  /\ remindNow = CloseOf(b, i) /\ "BOOKING" \in remindRan' => BookingRow(b, i) \in remindRows
                          /\ \A r \in RemindRuns(b) : remindNow = CloseOf(b, i) /\ ComePast(remindRun[r], i) => BookingRow(b, i) \in remindRows
                          /\ remindNow > CloseOf(b, i) => remindSent[BookingRow(b, i)] > 0
        BY <2>2 DEF ClosedKept, Standing, CloseOf, Closing, BookingRow
      <4> QED
        BY <2>1, <3>1, <3>3 DEF RemindKept, ClosedKept
    <3> QED
      BY <3>2, <3>4 DEF RemindKept
  <2> QED
    BY <1>2, <2>2, <2>3, <2>4 DEF RemindInv
<1>6. ASSUME NEW r \in RemindRuns(b), RemindGoes(b, r) PROVE RemindInv(b)'
  <2>1. CASE RemindPasses(b)
    BY <1>5, <2>1
  <2>2. ASSUME NEW x \in RemindTurns(b), RemindShape(b, r, x) PROVE RemindInv(b)'
    <3>1. RemindTyped(b)'
      BY <1>1, <2>2, RemindTurnTyped
    <3>2. RowsOwned(b)' /\ RowsCounted(b)'
      BY <1>1, <2>2, RemindTurnOwned
    <3>3. b = TRUE => RemindKept(b)'
      BY <1>1, <2>2, RemindTurnKept
    <3> QED
      BY <3>1, <3>2, <3>3 DEF RemindInv
  <2> QED
    BY <1>1, <1>6, <2>1, <2>2, RemindShapes
<1>7. CASE Remind(b)!Next
  <2>1. RemindOthers(b) \/ \E r \in RemindRuns(b) : RemindGoes(b, r)
    BY <1>7 DEF Remind!Next, RemindOthers, RemindGoes, Remind!Jobs, RemindJobs, RemindRuns
  <2> QED
    BY <1>3, <1>6, <2>1
<1> QED
  BY <1>4, <1>7

(* From the steps' invariants to what the runs check.                        *)
LEMMA RemindTells ==
  ASSUME NEW CONSTANT b \in BOOLEAN, RemindInv(b)
  PROVE  Remind(b)!TypeOK /\ Remind(b)!RemindedOnce /\ Remind(b)!RowsAccounted /\ (b = TRUE => Remind(b)!NoneMissed)
<1>1. RemindTyped(b) /\ RowsOwned(b) /\ RowsCounted(b) /\ (b = TRUE => RemindKept(b))
  BY DEF RemindInv
<1>2. Remind(b)!Keys = RemindKeys(b) /\ Remind(b)!Days = RemindDays(b)
  BY DEF Remind!Keys, Remind!Jobs, Remind!Days, RemindKeys, RemindJobs, RemindDays, RemindInts
<1>3. Remind(b)!TypeOK
  <2>1. remindStart \in 0 .. RemindTime(b)
    BY <1>1, RemindConstants DEF RemindTyped
  <2>2. {remindStart, remindDue, remindChanged} \subseteq 0 .. RemindTime(b)
    BY <1>1, <2>1 DEF RemindTyped
  <2>3. remindRun \in [RemindScope[b].runs -> [at: {"idle", "list", "send"}, kind: Remind(b)!Jobs,
                         next: DOMAIN RemindScope[b].intervals, seen: 0 .. RemindScope[b].time]]
    BY <1>1 DEF RemindTyped, RemindTurns, RemindPoints, RemindJobs, Remind!Jobs, RemindRuns, RemindInts, RemindTime
  <2>4. /\ remindNow \in 0 .. RemindScope[b].time /\ {remindStart, remindDue, remindChanged} \subseteq 0 .. RemindScope[b].time
        /\ remindRan \subseteq Remind(b)!Jobs
    BY <1>1, <2>2 DEF RemindTyped, RemindTime, RemindJobs, Remind!Jobs
  <2>5. /\ remindStatus \in {"PENDING", "CONFIRMED", "CANCELLED", "COMPLETED"} /\ remindUnpaid \in BOOLEAN
        /\ remindMoves \in 0 .. RemindScope[b].moves /\ remindLost \in Nat
        /\ remindRows \subseteq {"BOOKING", "PAYMENT"} \X Remind(b)!Days /\ remindSent \in [Remind(b)!Keys -> Nat]
    BY <1>1, <1>2 DEF RemindTyped
  <2> QED
    BY <2>3, <2>4, <2>5 DEF Remind!TypeOK
<1>4. Remind(b)!RemindedOnce
  BY <1>1, <1>2 DEF Remind!RemindedOnce, RowsOwned
<1>5. Remind(b)!RowsAccounted
  <2>1. Cardinality(remindRows) = Cardinality({k \in RemindKeys(b) : remindSent[k] > 0})
                                    + Cardinality({r \in RemindRuns(b) : remindRun[r].at = "send"}) + remindLost
    BY <1>1 DEF RowsCounted, MailsSent, Sending
  <2>2. Remind(b)!Cardinality(remindRows) = Remind(b)!Cardinality({k \in RemindKeys(b) : remindSent[k] > 0})
                                    + Remind(b)!Cardinality({r \in RemindRuns(b) : remindRun[r].at = "send"}) + remindLost
    BY <2>1, RemindFinite
  <2> QED
    BY <1>2, <2>2 DEF Remind!RowsAccounted, RemindRuns
<1>6. ASSUME b = TRUE PROVE Remind(b)!NoneMissed
  <2> SUFFICES ASSUME remindMoves = 0, remindStatus = "CONFIRMED", NEW CONSTANT i \in DOMAIN RemindInts(b),
                      remindChanged + 1 < remindStart - Remind(b)!Closes(RemindInts(b)[i]),
                      remindStart - remindNow <= Remind(b)!Closes(RemindInts(b)[i])
               PROVE  remindSent[BookingRow(b, i)] = 1
    BY DEF Remind!NoneMissed, RemindInts, BookingRow
  <2> DEFINE c == Remind(b)!Closes(RemindInts(b)[i])
  <2>1. c \in Nat
    BY RemindConstants, LastHour
  <2>2. CloseOf(b, i) = remindStart - c - 1
    BY DEF CloseOf, Closing
  <2>3. remindStart \in Nat /\ remindNow \in Nat /\ remindChanged \in Nat /\ BookingRow(b, i) \in RemindKeys(b)
    <3>1. RemindTime(b) \in Nat /\ remindStart \in 1 .. RemindTime(b) /\ remindNow \in 0 .. RemindTime(b) /\ remindChanged \in 0 .. RemindTime(b)
      BY <1>1, RemindConstants DEF RemindTyped
    <3>2. BookingRow(b, i) \in RemindKeys(b)
      BY <1>1, CloseOfInt
    <3> QED
      BY <3>1, <3>2
  <2>4. remindChanged + 1 < remindStart - c /\ remindStart - remindNow <= c
    OBVIOUS
  <2> HIDE DEF c
  <2>5. remindChanged < CloseOf(b, i) /\ remindNow > CloseOf(b, i)
    BY <2>1, <2>2, <2>3, <2>4
  <2>6. remindSent[BookingRow(b, i)] > 0
    BY <1>1, <1>6, <2>5 DEF RemindKept, ClosedKept, Standing
  <2>7. remindSent[BookingRow(b, i)] <= 1 /\ remindSent[BookingRow(b, i)] \in Nat
    BY <1>1, <2>3 DEF RowsOwned, RemindTyped
  <2> QED
    BY <2>6, <2>7
<1> QED
  BY <1>3, <1>4, <1>5, <1>6

LEMMA RemindersTurn ==
  ASSUME [Next]_vars
  PROVE  /\ under = "reminders" => Remind(FALSE)!Next \/ UNCHANGED remindVars
         /\ under = "reminders, hourly" => Remind(TRUE)!Next \/ UNCHANGED remindVars
BY DEF Next, Turn, NoticesNext, vars, noticeVars, NotNotice, NotBreaker, NotHook, NotFlow, NotWait, NotMail, NotInbox,
       NotSub, NotConnect, NotSync, NotRemind, NotImport, NotNews, NotScreen, NotDigest

(* However the runs of the reminders' jobs overlap, fail and die, and however  *)
(* the booking is moved, nobody is reminded twice of the same and each row is  *)
(* one e-mail, sent, about to be sent, or lost; and while each job runs every  *)
(* hour and nothing fails, no reminder's window closes without it: for any     *)
(* runs, intervals, starts, hours and moves.                                 *)
THEOREM RemindersAreKept == Spec => []RemindedOnce
<1> DEFINE Both == (under = "reminders" => RemindInv(FALSE)) /\ (under = "reminders, hourly" => RemindInv(TRUE))
<1>1. ASSUME NEW CONSTANT b \in BOOLEAN, Remind(b)!Init PROVE RemindInv(b)
  BY <1>1, RemindInit, RemindKeptInit DEF RemindInv
<1>2. Init => Both
  <2> SUFFICES ASSUME Init, under \in {"reminders", "reminders, hourly"} PROVE Both
    OBVIOUS
  <2>1. IF under = "reminders, hourly" THEN Remind(TRUE)!Init ELSE Remind(FALSE)!Init
    BY DEF Init, Start, NoticesInit
  <2>2. CASE under = "reminders"
    BY <1>1, <2>1, <2>2
  <2>3. CASE under = "reminders, hourly"
    BY <1>1, <2>1, <2>3
  <2> QED
    BY <2>2, <2>3
<1>3. Both /\ [Next]_vars => Both'
  <2> SUFFICES ASSUME Both, [Next]_vars PROVE Both'
    OBVIOUS
  <2>1. under' = under
    BY UnderStays
  <2>2. under = "reminders" => RemindInv(FALSE)'
    BY RemindStep, RemindersTurn
  <2>3. under = "reminders, hourly" => RemindInv(TRUE)'
    BY RemindStep, RemindersTurn
  <2> QED
    BY <2>1, <2>2, <2>3
<1>4. Both => RemindedOnce
  BY RemindTells DEF RemindedOnce
<1> QED
  BY <1>2, <1>3, <1>4, PTL DEF Spec
-----------------------------------------------------------------------------
(* Division, as the hours of a day are reckoned.                             *)
LEMMA DivMod ==
  ASSUME NEW D \in Nat \ {0}, NEW m \in Nat
  PROVE  m = D * (m \div D) + (m % D) /\ m % D \in 0 .. D - 1 /\ m \div D \in Nat
<1>1. m % D \in 0 .. D - 1
  OBVIOUS
<1>2. m \div D \in Nat
  OBVIOUS
<1>3. m = D * (m \div D) + (m % D)
  OBVIOUS
<1> QED
  BY <1>1, <1>2, <1>3

LEMMA ModUnique ==
  ASSUME NEW D \in Nat \ {0}, NEW k \in Nat, NEW q \in 0 .. D - 1
  PROVE  (D * k + q) % D = q
<1> DEFINE m == D * k + q
           d == m \div D
           r == m % D
           z == d - k
<1>1. D * k \in Nat /\ m \in Nat
  OBVIOUS
<1>2. m = D * d + r /\ r \in 0 .. D - 1 /\ d \in Nat
  BY <1>1, DivMod
<1>3. m = D * k + q
  OBVIOUS
<1> HIDE DEF m, d, r
<1>4. D * (d - k) = D * d - D * k
  BY <1>2
<1>5. D * z = q - r /\ z \in Int
  BY <1>1, <1>2, <1>3, <1>4
<1> HIDE DEF z
<1>6. q - r < D /\ q - r > 0 - D
  BY <1>2
<1>7. z >= 1 => D * z >= D
  BY <1>5
<1>8. z <= 0 - 1 => D * z <= 0 - D
  BY <1>5
<1>9. z = 0
  <2>1. D * z \in Int /\ ~(z >= 1) /\ ~(z <= 0 - 1)
    BY <1>5, <1>6, <1>7, <1>8
  <2> QED
    BY <1>5, <2>1
<1>10. q = r
  BY <1>2, <1>5, <1>9
<1> QED
  BY <1>10 DEF m, r
-----------------------------------------------------------------------------
(* Who is told of a booking's changes.                                       *)
LEMMA SeqOfValues ==
  ASSUME NEW n \in Nat, NEW f, f = [i \in 1 .. n |-> f[i]], NEW S, \A i \in 1 .. n : f[i] \in S
  PROVE  f \in Seq(S) /\ Len(f) = n /\ DOMAIN f = 1 .. n
<1>1. f \in [1 .. n -> S]
  OBVIOUS
<1>2. f \in Seq(S)
  BY <1>1
<1>3. DOMAIN f = 1 .. n
  BY <1>1
<1> QED
  BY <1>2, <1>3, LenProperties

NewsKinds     == {"CREATED", "CONFIRMED", "RESCHEDULED", "CANCELLED", "COMPLETED", "NO_SHOW"}
NewsTime(b)   == IF b THEN MaxFailingNewsTime ELSE MaxNewsTime
Night(t)      == News(FALSE, 1)!InQuietHours(t)
Morning(t)    == t + News(FALSE, 1)!HoursUntilQuietEnd(t)

LEMMA NewsFinite ==
  ASSUME NEW CONSTANT b, NEW CONSTANT n, NEW S
  PROVE  News(b, n)!Cardinality(S) = Cardinality(S)
BY DEF News!Cardinality, Cardinality, News!IsFiniteSet, IsFiniteSet

LEMMA TellConstants ==
  /\ NewsMembers \in Seq(STRING) /\ NewsAutomations \in [NewsKinds -> Seq(STRING)]
  /\ SmsTries \in Nat \ {0}
  /\ \A b \in BOOLEAN : NewsTime(b) \in Nat /\ HoursOfDay <= NewsTime(b)
<1>1. \A b \in BOOLEAN : \A n \in NewsCounts : News(b, n)!NewsAssumption
  BY MessagesAssumption DEF NoticesAssumed, NewsCounts
<1>2. News(FALSE, MaxNews)!NewsAssumption /\ News(TRUE, MaxNews)!NewsAssumption
  BY <1>1 DEF NewsCounts
<1>3. /\ NewsMembers \in Seq(STRING) /\ NewsAutomations \in [NewsKinds -> Seq(STRING)] /\ SmsTries \in Nat \ {0}
      /\ MaxNewsTime \in Nat /\ HoursOfDay <= MaxNewsTime /\ MaxFailingNewsTime \in Nat /\ HoursOfDay <= MaxFailingNewsTime
  BY <1>2 DEF News!NewsAssumption, News!Kinds, NewsKinds
<1>4. \A b \in BOOLEAN : NewsTime(b) \in Nat /\ HoursOfDay <= NewsTime(b)
  BY <1>3 DEF NewsTime
<1> QED
  BY <1>3, <1>4

(* The night is over when its last hour is, whichever day it is.             *)
LEMMA NightEnds ==
  ASSUME NEW t \in Nat, Night(t)
  PROVE  Morning(t) \in Nat /\ ~Night(Morning(t))
<1> DEFINE D == HoursOfDay
           h == t % D
           d == t \div D
<1>1. D \in Nat \ {0} /\ NightFrom \in 0 .. D - 1 /\ NightTo \in 0 .. D - 1
  BY NewsConstants
<1>2. t = D * d + h /\ h \in 0 .. D - 1 /\ d \in Nat
  BY <1>1, DivMod
<1>3. \A u : Night(u) <=> IF NightFrom > NightTo THEN u % D >= NightFrom \/ u % D < NightTo
                         ELSE u % D >= NightFrom /\ u % D < NightTo
  BY DEF Night, News!InQuietHours
<1>4. Morning(t) = t + IF h >= NightFrom THEN (D - h) + NightTo ELSE NightTo - h
  BY DEF Morning, News!HoursUntilQuietEnd
<1>5. IF NightFrom > NightTo THEN h >= NightFrom \/ h < NightTo ELSE h >= NightFrom /\ h < NightTo
  BY <1>3
<1>6. \A k \in Nat : (D * k + NightTo) % D = NightTo
  BY <1>1, ModUnique
<1> HIDE DEF D, h, d
<1>7. D * d \in Nat /\ D * (d + 1) = D * d + D /\ D * (d + 1) \in Nat
  BY <1>1, <1>2
<1>8. CASE h >= NightFrom
  <2>1. Morning(t) = D * (d + 1) + NightTo
    BY <1>1, <1>2, <1>4, <1>7, <1>8
  <2>2. Morning(t) \in Nat /\ Morning(t) % D = NightTo
    BY <1>1, <1>2, <1>6, <1>7, <2>1
  <2> QED
    BY <1>1, <1>3, <2>2
<1>9. CASE ~(h >= NightFrom)
  <2>1. Morning(t) = D * d + NightTo
    BY <1>1, <1>2, <1>4, <1>7, <1>9
  <2>2. Morning(t) \in Nat /\ Morning(t) % D = NightTo
    BY <1>1, <1>2, <1>6, <1>7, <2>1
  <2> QED
    BY <1>1, <1>3, <2>2
<1> QED
  BY <1>8, <1>9

(* The tasks of an event are all of one try, or each of a try of its own.    *)
OneTry(t)  == \A i \in DOMAIN t : t[i].group = 0
OwnTries(t) == \A i, j \in DOMAIN t : t[i].group = t[j].group => i = j
TaskList(t) == Len(t) \in Nat /\ DOMAIN t = 1 .. Len(t) /\ (OneTry(t) \/ OwnTries(t))

LEMMA TasksListed ==
  ASSUME NEW CONSTANT b, NEW CONSTANT n, NEW k \in NewsKinds
  PROVE  TaskList(News(b, n)!Tasks(k))
<1> DEFINE m == Len(NewsMembers)
           a == NewsAutomations[k]
           c == Len(a)
<1>1. NewsMembers \in Seq(STRING) /\ a \in Seq(STRING)
  BY TellConstants
<1>2. m \in Nat /\ DOMAIN NewsMembers = 1 .. m /\ c \in Nat /\ DOMAIN a = 1 .. c
  BY <1>1, LenProperties
<1>3. ASSUME NEW what PROVE TaskList(News(b, n)!Staff(what))
  <2> DEFINE t == News(b, n)!Staff(what)
             S == {t[i] : i \in 1 .. m}
  <2>1. t = [i \in 1 .. m |-> [to |-> NewsMembers[i], what |-> what, group |-> 0]]
    BY <1>2 DEF News!Staff
  <2>2. t = [i \in 1 .. m |-> t[i]] /\ \A i \in 1 .. m : t[i].group = 0
    BY <2>1
  <2>3. \A i \in 1 .. m : t[i] \in S
    OBVIOUS
  <2> HIDE DEF t, S
  <2>4. Len(t) = m /\ DOMAIN t = 1 .. m
    BY <1>2, <2>2, <2>3, SeqOfValues
  <2> QED
    BY <1>2, <2>2, <2>4 DEF TaskList, OneTry, t
<1>4. \A what : News(b, n)!Client(what) = <<[to |-> "client", what |-> what, group |-> 0]>>
  BY DEF News!Client
<1>5. ASSUME NEW what PROVE TaskList(News(b, n)!Client(what))
  <2> DEFINE x == [to |-> "client", what |-> what, group |-> 0]
  <2>1. News(b, n)!Client(what) = <<x>> /\ x.group = 0
    BY <1>4
  <2> HIDE DEF x
  <2>2. Len(<<x>>) = 1 /\ DOMAIN <<x>> = 1 .. 1 /\ <<x>>[1] = x
    OBVIOUS
  <2> QED
    BY <2>1, <2>2 DEF TaskList, OneTry
<1>6. LET t == News(b, n)!Flows(k) IN
        t = [i \in 1 .. c |-> t[i]] /\ (\A i \in 1 .. c : t[i].group = i)
  <2> DEFINE t == News(b, n)!Flows(k)
  <2>1. t = [i \in 1 .. c |-> [to |-> "client", what |-> a[i], group |-> i]]
    BY <1>2 DEF News!Flows
  <2> QED
    BY <2>1
<1>7. TaskList(News(b, n)!Flows(k))
  <2> DEFINE t == News(b, n)!Flows(k)
             S == {t[i] : i \in 1 .. c}
  <2>1. \A i \in 1 .. c : t[i] \in S
    OBVIOUS
  <2>2. t = [i \in 1 .. c |-> t[i]] /\ (\A i \in 1 .. c : t[i].group = i)
    BY <1>6
  <2> HIDE DEF t, S
  <2>3. Len(t) = c /\ DOMAIN t = 1 .. c
    BY <1>2, <2>1, <2>2, SeqOfValues
  <2> QED
    BY <1>2, <2>2, <2>3 DEF TaskList, OwnTries, t
<1>8. ASSUME NEW what PROVE TaskList(News(b, n)!Client(what) \o News(b, n)!Flows(k))
  <2> DEFINE x == [to |-> "client", what |-> what, group |-> 0]
             t == News(b, n)!Flows(k)
             S == {x} \cup {t[i] : i \in 1 .. c}
             u == <<x>> \o t
  <2>1. x.group = 0 /\ x \in S /\ \A i \in 1 .. c : t[i] \in S
    OBVIOUS
  <2>2. t = [i \in 1 .. c |-> t[i]] /\ (\A i \in 1 .. c : t[i].group = i)
    BY <1>6
  <2> HIDE DEF x, t, S, c
  <2>3. t \in Seq(S) /\ Len(t) = c
    BY <1>2, <2>1, <2>2, SeqOfValues
  <2>4. <<x>> \in Seq(S) /\ Len(<<x>>) = 1 /\ <<x>>[1] = x
    BY <2>1
  <2>5. /\ u \in Seq(S) /\ Len(u) = 1 + c
        /\ \A i \in 1 .. 1 + c : u[i] = IF i <= 1 THEN <<x>>[i] ELSE t[i - 1]
    BY <2>3, <2>4, ConcatProperties
  <2> HIDE DEF u
  <2>6. DOMAIN u = 1 .. 1 + c /\ c \in Nat
    BY <1>2, <2>5, LenProperties
  <2>7. \A i \in 1 .. 1 + c : u[i].group = i - 1
    <3> SUFFICES ASSUME NEW i \in 1 .. 1 + c PROVE u[i].group = i - 1
      OBVIOUS
    <3>1. CASE i = 1
      BY <2>1, <2>4, <2>5, <3>1
    <3>2. CASE i # 1
      <4>1. i - 1 \in 1 .. c /\ ~(i <= 1)
        BY <2>6, <3>2
      <4> QED
        BY <2>2, <2>5, <4>1
    <3> QED
      BY <3>1, <3>2
  <2>8. OwnTries(u)
    BY <2>6, <2>7 DEF OwnTries
  <2>9. TaskList(u)
    BY <2>5, <2>6, <2>8 DEF TaskList
  <2>10. News(b, n)!Client(what) = <<x>>
    BY <1>4 DEF x
  <2> QED
    BY <2>9, <2>10 DEF t, u
<1>9. CASE k = "CREATED"
  BY <1>3, <1>9 DEF News!Tasks
<1>10. CASE k = "CONFIRMED" \/ k = "COMPLETED"
  BY <1>7, <1>10 DEF News!Tasks
<1>11. CASE k = "RESCHEDULED"
  BY <1>8, <1>11 DEF News!Tasks
<1>12. CASE k = "CANCELLED"
  BY <1>5, <1>12 DEF News!Tasks
<1>13. CASE k = "NO_SHOW"
  BY <1>3, <1>13 DEF News!Tasks
<1> QED
  BY <1>9, <1>10, <1>11, <1>12, <1>13 DEF NewsKinds

(* So what an error in a try skips is what comes next.                       *)
RestOfTry(t, i) == {j \in i .. Len(t) : t[j].group = t[i].group}

LEMMA GroupFollows ==
  ASSUME NEW CONSTANT b, NEW CONSTANT n, NEW t, TaskList(t), NEW i \in DOMAIN t
  PROVE  /\ News(b, n)!Cardinality(RestOfTry(t, i)) \in Nat \ {0}
         /\ \A j \in DOMAIN t : i <= j /\ j < i + News(b, n)!Cardinality(RestOfTry(t, i)) => t[j].group = t[i].group
<1> DEFINE g == RestOfTry(t, i)
           l == Len(t)
<1> USE DEF RestOfTry
<1>1. l \in Nat /\ DOMAIN t = 1 .. l /\ i \in 1 .. l /\ (OneTry(t) \/ OwnTries(t))
  BY DEF TaskList
<1> HIDE DEF l
<1>2. News(b, n)!Cardinality(g) = Cardinality(g)
  BY NewsFinite
<1>3. CASE OneTry(t)
  <2>1. \A j \in 1 .. l : t[j].group = 0
    BY <1>1, <1>3 DEF OneTry
  <2>2. g = i .. l
    BY <1>1, <2>1 DEF l
  <2>3. i \in Int /\ l \in Int /\ i <= l
    BY <1>1
  <2>4. Cardinality(i .. l) = l - i + 1
    BY <2>3, FS_Interval
  <2>5. News(b, n)!Cardinality(g) \in Nat \ {0}
    <3>1. l - i + 1 \in Nat \ {0}
      BY <2>3
    <3> QED
      BY <1>2, <2>2, <2>4, <3>1
  <2>6. \A j \in DOMAIN t : t[j].group = t[i].group
    BY <1>1, <2>1
  <2> QED
    BY <2>5, <2>6
<1>4. CASE OwnTries(t)
  <2>1. g = {i}
    BY <1>1, <1>4 DEF OwnTries, l
  <2>2. Cardinality(g) = 1
    BY <2>1, FS_Singleton
  <2>3. \A j \in DOMAIN t : i <= j /\ j < i + 1 => j = i
    BY <1>1
  <2>4. \A j \in DOMAIN t : i <= j /\ j < i + News(b, n)!Cardinality(g) => t[j].group = t[i].group
    BY <1>2, <2>2, <2>3
  <2> QED
    BY <1>2, <2>2, <2>4
<1> QED
  BY <1>1, <1>3, <1>4

(* Of an event: each task that the engine has passed was carried out, or      *)
(* dropped for the night, or came with or after a failure in its group.  Of   *)
(* an SMS: when it waits, what was sent and recorded, and how often it was     *)
(* tried.                                                                    *)
TellRows   == [at: {"none", "waiting", "send", "record", "ended"}, wake: Nat, tries: Nat]
TellEngine == [at: {"none", "look", "send", "done"}, i: Nat \ {0}]

SmsFine(b, t, r, x, w) ==
  /\ r.tries <= SmsTries
  /\ r.at \in {"waiting", "send", "record"} => r.tries < SmsTries
  /\ r.at \in {"send", "record"} => r.wake <= t
  /\ r.at = "waiting" /\ r.wake > t => ~Night(r.wake)
  /\ w <= 1 /\ w <= x /\ (w = 1 => r.at = "ended")
  /\ r.at = "none" => x = 0 /\ w = 0
  /\ r.at = "record" => x >= 1
  /\ b # TRUE => /\ r.at \in {"waiting", "send"} => x = 0
                 /\ r.at = "record" => x = 1
                 /\ r.at = "ended" => x = 1 /\ w = 1

Accounted(b, n, k, told, failed, i) ==
  LET t == News(b, n)!Tasks(k) IN
  i \in told \/ t[i].what = "SMS" \/ \E j \in failed : j <= i /\ t[j].group = t[i].group

EngineFine(b, n, k, g, told, failed) ==
  /\ \A i \in DOMAIN News(b, n)!Tasks(k) : i < g.i => Accounted(b, n, k, told, failed, i)
  /\ g.at = "done" /\ (k = "CREATED" => g.i > 1) => g.i > Len(News(b, n)!Tasks(k))
  /\ g.at = "look" => k = "CREATED" /\ g.i = 1

TellTyped(b, n) ==
  /\ newsNow \in 0 .. NewsTime(b)
  /\ newsStatus \in {"NONE", "PENDING", "CONFIRMED", "CANCELLED", "COMPLETED", "NO_SHOW"}
  /\ newsHeard \in Seq(NewsKinds) /\ Len(newsHeard) <= n
  /\ newsEngine \in [1 .. n -> TellEngine] /\ newsTold \in [1 .. n -> SUBSET Nat] /\ newsFailed \in [1 .. n -> SUBSET Nat]
  /\ newsSms \in [1 .. n -> TellRows] /\ newsTexts \in [1 .. n -> Nat] /\ newsRows \in [1 .. n -> Nat]

TellInv(b, n) ==
  /\ TellTyped(b, n)
  /\ \A e \in 1 .. n : SmsFine(b, newsNow, newsSms[e], newsTexts[e], newsRows[e])
  /\ \A e \in 1 .. n : e > Len(newsHeard) => newsEngine[e].at = "none" /\ newsSms[e].at = "none"
  /\ \A e \in 1 .. Len(newsHeard) : EngineFine(b, n, newsHeard[e], newsEngine[e], newsTold[e], newsFailed[e])

LEMMA TellInit ==
  ASSUME NEW CONSTANT b \in BOOLEAN, NEW CONSTANT n \in Nat, News(b, n)!Init PROVE TellInv(b, n)
<1>1. newsNow \in 0 .. NewsTime(b)
  <2>1. newsNow \in 0 .. HoursOfDay - 1 /\ HoursOfDay \in Nat \ {0} /\ NewsTime(b) \in Nat /\ HoursOfDay <= NewsTime(b)
    BY NewsConstants, TellConstants DEF News!Init
  <2> QED
    BY <2>1
<1>2. newsHeard = <<>> /\ newsHeard \in Seq(NewsKinds) /\ Len(newsHeard) = 0
  BY DEF News!Init
<1> DEFINE g == [at |-> "none", i |-> 1]
           r == [at |-> "none", wake |-> 0, tries |-> 0]
<1>3. /\ newsEngine = [e \in 1 .. n |-> g] /\ newsTold = [e \in 1 .. n |-> {}] /\ newsFailed = [e \in 1 .. n |-> {}]
      /\ newsSms = [e \in 1 .. n |-> r] /\ newsTexts = [e \in 1 .. n |-> 0] /\ newsRows = [e \in 1 .. n |-> 0]
      /\ newsStatus \in {"NONE", "PENDING", "CONFIRMED"}
  BY DEF News!Init, News!Ids, News!NoEngine, News!NoSms
<1>4. g \in TellEngine /\ r \in TellRows /\ g.at = "none" /\ r.at = "none"
  BY DEF TellEngine, TellRows
<1>5. SmsFine(b, newsNow, r, 0, 0)
  BY TellConstants DEF SmsFine
<1> HIDE DEF g, r
<1>6. TellTyped(b, n)
  BY <1>1, <1>2, <1>3, <1>4 DEF TellTyped
<1>7. \A e \in 1 .. n : SmsFine(b, newsNow, newsSms[e], newsTexts[e], newsRows[e]) /\ newsEngine[e].at = "none" /\ newsSms[e].at = "none"
  BY <1>3, <1>4, <1>5
<1>8. 1 .. Len(newsHeard) = {}
  BY <1>2
<1> QED
  BY <1>6, <1>7, <1>8 DEF TellInv

(* One SMS changes; one event's handling moves.                              *)
LEMMA TellSmsMoves ==
  ASSUME NEW CONSTANT b, NEW CONSTANT n \in Nat, TellInv(b, n), NEW e \in 1 .. n,
         NEW r \in TellRows, NEW x \in Nat, NEW w \in Nat,
         newsSms' = [newsSms EXCEPT ![e] = r], newsTexts' = [newsTexts EXCEPT ![e] = x],
         newsRows' = [newsRows EXCEPT ![e] = w],
         UNCHANGED <<newsNow, newsStatus, newsHeard, newsEngine, newsTold, newsFailed>>,
         newsSms[e].at # "none", SmsFine(b, newsNow, r, x, w)
  PROVE  TellInv(b, n)'
<1>1. TellTyped(b, n)
  BY DEF TellInv
<1>2. TellTyped(b, n)'
  BY <1>1 DEF TellTyped
<1>3. \A d \in 1 .. n : /\ newsSms'[d] = IF d = e THEN r ELSE newsSms[d]
                        /\ newsTexts'[d] = IF d = e THEN x ELSE newsTexts[d]
                        /\ newsRows'[d] = IF d = e THEN w ELSE newsRows[d]
  BY <1>1 DEF TellTyped
<1>4. \A d \in 1 .. n : SmsFine(b, newsNow', newsSms'[d], newsTexts'[d], newsRows'[d])
  BY <1>3 DEF TellInv
<1>5. \A d \in 1 .. n : d > Len(newsHeard') => newsEngine'[d].at = "none" /\ newsSms'[d].at = "none"
  BY <1>3 DEF TellInv
<1>6. \A d \in 1 .. Len(newsHeard') : EngineFine(b, n, newsHeard'[d], newsEngine'[d], newsTold'[d], newsFailed'[d])
  BY DEF TellInv
<1> QED
  BY <1>2, <1>4, <1>5, <1>6 DEF TellInv

LEMMA TellEngineMoves ==
  ASSUME NEW CONSTANT b, NEW CONSTANT n \in Nat, TellInv(b, n), NEW e \in 1 .. n,
         NEW g \in TellEngine, NEW told \in SUBSET Nat, NEW failed \in SUBSET Nat,
         newsEngine' = [newsEngine EXCEPT ![e] = g], newsTold' = [newsTold EXCEPT ![e] = told],
         newsFailed' = [newsFailed EXCEPT ![e] = failed],
         UNCHANGED <<newsNow, newsStatus, newsHeard, newsSms, newsTexts, newsRows>>,
         newsEngine[e].at # "none", EngineFine(b, n, newsHeard[e], g, told, failed)
  PROVE  TellInv(b, n)'
<1>1. TellTyped(b, n)
  BY DEF TellInv
<1>2. TellTyped(b, n)'
  BY <1>1 DEF TellTyped
<1>3. \A d \in 1 .. n : /\ newsEngine'[d] = IF d = e THEN g ELSE newsEngine[d]
                        /\ newsTold'[d] = IF d = e THEN told ELSE newsTold[d]
                        /\ newsFailed'[d] = IF d = e THEN failed ELSE newsFailed[d]
  BY <1>1 DEF TellTyped
<1>4. \A d \in 1 .. n : SmsFine(b, newsNow', newsSms'[d], newsTexts'[d], newsRows'[d])
  BY DEF TellInv
<1>5. \A d \in 1 .. n : d > Len(newsHeard') => newsEngine'[d].at = "none" /\ newsSms'[d].at = "none"
  BY <1>3 DEF TellInv
<1>6. Len(newsHeard) \in Nat /\ Len(newsHeard) <= n
  BY <1>1, LenProperties DEF TellTyped
<1>7. \A d \in 1 .. Len(newsHeard) : d \in 1 .. n
  BY <1>6
<1>8. \A d \in 1 .. Len(newsHeard') : EngineFine(b, n, newsHeard'[d], newsEngine'[d], newsTold'[d], newsFailed'[d])
  BY <1>3, <1>7 DEF TellInv
<1> QED
  BY <1>2, <1>4, <1>5, <1>8 DEF TellInv

(* Events join those that were heard.                                        *)
LEMMA TellEmits ==
  ASSUME NEW CONSTANT b \in BOOLEAN, NEW CONSTANT n \in Nat, TellInv(b, n), NEW s, NEW kinds \in Seq(NewsKinds),
         s \in {"NONE", "PENDING", "CONFIRMED", "CANCELLED", "COMPLETED", "NO_SHOW"}, News(b, n)!Emit(s, kinds)
  PROVE  TellInv(b, n)'
<1> DEFINE l == Len(newsHeard)
           c == Len(kinds)
           x == [at |-> "waiting", wake |-> newsNow, tries |-> 0]
           g(e) == [at |-> IF kinds[e - l] = "CREATED" THEN "look" ELSE "send", i |-> 1]
           texted == {e \in l + 1 .. l + c : kinds[e - l] \in News(b, n)!Sms}
<1>1. TellTyped(b, n)
  BY DEF TellInv
<1>2. newsHeard \in Seq(NewsKinds) /\ l \in Nat /\ c \in Nat /\ newsNow \in Nat
  <2>1. newsHeard \in Seq(NewsKinds) /\ newsNow \in 0 .. NewsTime(b) /\ NewsTime(b) \in Nat
    BY <1>1, TellConstants DEF TellTyped
  <2> QED
    BY <2>1, LenProperties
<1>3. /\ l + c <= n /\ newsStatus' = s /\ newsHeard' = newsHeard \o kinds
      /\ UNCHANGED <<newsNow, newsTold, newsFailed, newsTexts, newsRows>>
      /\ newsEngine' = [e \in 1 .. n |-> IF e \in l + 1 .. l + c THEN g(e) ELSE newsEngine[e]]
      /\ newsSms' = [e \in 1 .. n |-> IF e \in texted THEN x ELSE newsSms[e]]
  BY DEF News!Emit, News!Ids
<1>4. x \in TellRows /\ x.at = "waiting" /\ x.wake = newsNow /\ x.tries = 0
  BY <1>2 DEF TellRows
<1>5. \A e : g(e) \in TellEngine /\ g(e).i = 1 /\ g(e).at \in {"look", "send"} /\ (g(e).at = "look" => kinds[e - l] = "CREATED")
  BY DEF TellEngine
<1> HIDE DEF x, g
<1>6. /\ newsHeard' \in Seq(NewsKinds) /\ Len(newsHeard') = l + c
      /\ \A e \in 1 .. l + c : newsHeard'[e] = IF e <= l THEN newsHeard[e] ELSE kinds[e - l]
  BY <1>2, <1>3, ConcatProperties
<1> HIDE DEF l, c, texted
<1>7. TellTyped(b, n)'
  BY <1>1, <1>3, <1>4, <1>5, <1>6 DEF TellTyped
<1>8. \A e \in 1 .. n : e \in l + 1 .. l + c => e > l /\ newsEngine[e].at = "none" /\ newsSms[e].at = "none"
  BY <1>2 DEF TellInv, l
<1>9. ASSUME NEW e \in 1 .. n PROVE SmsFine(b, newsNow', newsSms'[e], newsTexts'[e], newsRows'[e])
  <2>1. SmsFine(b, newsNow, newsSms[e], newsTexts[e], newsRows[e])
    BY DEF TellInv
  <2>2. CASE e \in texted
    <3>1. newsSms[e].at = "none"
      BY <1>8, <2>2 DEF texted
    <3>2. newsTexts[e] = 0 /\ newsRows[e] = 0
      BY <2>1, <3>1 DEF SmsFine
    <3>3. SmsFine(b, newsNow, x, 0, 0)
      BY <1>2, <1>4, TellConstants DEF SmsFine
    <3>4. newsSms'[e] = x
      BY <1>3, <2>2
    <3> QED
      BY <1>3, <3>2, <3>3, <3>4
  <2>3. CASE e \notin texted
    BY <1>3, <2>1, <2>3
  <2> QED
    BY <2>2, <2>3
<1>10. ASSUME NEW e \in 1 .. n, e > Len(newsHeard') PROVE newsEngine'[e].at = "none" /\ newsSms'[e].at = "none"
  <2>1. e \notin l + 1 .. l + c /\ e > l
    BY <1>2, <1>6, <1>10
  <2>2. e \notin texted
    BY <2>1 DEF texted
  <2> QED
    BY <1>3, <2>1, <2>2 DEF TellInv, l
<1>11. ASSUME NEW e \in 1 .. Len(newsHeard')
       PROVE  EngineFine(b, n, newsHeard'[e], newsEngine'[e], newsTold'[e], newsFailed'[e])
  <2>1. e \in 1 .. l + c /\ e \in 1 .. n
    BY <1>2, <1>3, <1>6, <1>11
  <2>2. CASE e <= l
    <3>1. e \in 1 .. l /\ e \notin l + 1 .. l + c
      BY <1>2, <2>1, <2>2
    <3>2. newsHeard'[e] = newsHeard[e] /\ newsEngine'[e] = newsEngine[e]
      BY <1>3, <1>6, <2>1, <2>2, <3>1
    <3> QED
      BY <1>3, <3>1, <3>2 DEF TellInv, l
  <2>3. CASE ~(e <= l)
    <3>1. e \in l + 1 .. l + c
      BY <1>2, <2>1, <2>3
    <3>2. newsHeard'[e] = kinds[e - l] /\ newsEngine'[e] = g(e)
      BY <1>3, <1>6, <2>1, <2>3, <3>1
    <3>3. newsHeard'[e] \in NewsKinds
      BY <1>6, <1>11, ElementOfSeq
    <3>4. TaskList(News(b, n)!Tasks(newsHeard'[e]))
      BY <3>3, TasksListed
    <3>5. \A i \in DOMAIN News(b, n)!Tasks(newsHeard'[e]) : ~(i < 1)
      BY <3>4 DEF TaskList
    <3> QED
      BY <1>5, <3>2, <3>5 DEF EngineFine
  <2> QED
    BY <2>2, <2>3
<1> QED
  BY <1>7, <1>9, <1>10, <1>11 DEF TellInv

(* The owner's SMS: put off for the night, sent, recorded, or run again.     *)
LEMMA FinePutOff ==
  ASSUME NEW b, NEW t \in Nat, NEW r \in TellRows, NEW x \in Nat, NEW w \in Nat, NEW q \in TellRows,
         SmsFine(b, t, r, x, w), r.at = "waiting", q.at = "waiting", q.tries = 0, ~Night(q.wake)
  PROVE  SmsFine(b, t, q, x, w)
<1>1. w <= 1 /\ w <= x /\ w # 1 /\ (b # TRUE => x = 0)
  BY DEF SmsFine
<1>2. 0 <= SmsTries /\ 0 < SmsTries
  BY TellConstants
<1> QED
  BY <1>1, <1>2 DEF SmsFine

LEMMA FineSent ==
  ASSUME NEW b, NEW t \in Nat, NEW r \in TellRows, NEW x \in Nat, NEW w \in Nat, NEW q \in TellRows,
         SmsFine(b, t, r, x, w), r.at = "send", q.at = "record", q.wake = r.wake, q.tries = r.tries
  PROVE  SmsFine(b, t, q, x + 1, w)
<1>1. w <= 1 /\ w <= x /\ w # 1 /\ (b # TRUE => x = 0) /\ r.tries < SmsTries /\ r.tries <= SmsTries /\ r.wake <= t
  BY DEF SmsFine
<1>2. w <= x + 1 /\ x + 1 >= 1
  <2>1. w <= x
    BY <1>1
  <2> QED
    BY <2>1
<1>3. b # TRUE => x + 1 = 1
  <2>1. x = 0 => x + 1 = 1
    OBVIOUS
  <2> QED
    BY <1>1, <2>1
<1> QED
  BY <1>1, <1>2, <1>3 DEF SmsFine

LEMMA FineRecorded ==
  ASSUME NEW b, NEW t \in Nat, NEW r \in TellRows, NEW x \in Nat, NEW w \in Nat, NEW q \in TellRows,
         SmsFine(b, t, r, x, w), r.at = "record", q.at = "ended", q.wake = r.wake, q.tries = r.tries
  PROVE  SmsFine(b, t, q, x, w + 1)
<1>1. w <= 1 /\ w # 1 /\ x >= 1 /\ (b # TRUE => x = 1) /\ r.tries <= SmsTries
  BY DEF SmsFine
<1>2. w + 1 = 1 /\ w + 1 <= x
  BY <1>1
<1> DEFINE v == w + 1
<1>3. v <= 1 /\ v <= x /\ v = 1
  BY <1>2
<1> HIDE DEF v
<1>4. SmsFine(b, t, q, x, v)
  BY <1>1, <1>3 DEF SmsFine
<1> QED
  BY <1>4 DEF v

LEMMA TellSmsStep ==
  ASSUME NEW CONSTANT b \in BOOLEAN, NEW CONSTANT n \in Nat, TellInv(b, n), NEW e \in 1 .. n,
         News(b, n)!Job(e) \/ News(b, n)!Throws(e)
  PROVE  TellInv(b, n)'
<1> DEFINE r == newsSms[e]
           x == newsTexts[e]
           w == newsRows[e]
           Others == UNCHANGED <<newsNow, newsStatus, newsHeard, newsEngine, newsTold, newsFailed>>
<1>1. /\ r \in TellRows /\ x \in Nat /\ w \in Nat /\ newsNow \in Nat
      /\ newsTexts = [newsTexts EXCEPT ![e] = x] /\ newsRows = [newsRows EXCEPT ![e] = w]
  <2>1. newsNow \in 0 .. NewsTime(b) /\ NewsTime(b) \in Nat
    BY TellConstants DEF TellInv, TellTyped
  <2>2. r \in TellRows /\ x \in Nat /\ w \in Nat
    BY DEF TellInv, TellTyped
  <2>3. newsTexts = [newsTexts EXCEPT ![e] = x] /\ newsRows = [newsRows EXCEPT ![e] = w]
    BY DEF TellInv, TellTyped
  <2> QED
    BY <2>1, <2>2, <2>3
<1>2. SmsFine(b, newsNow, r, x, w)
  BY DEF TellInv
<1>3. ASSUME NEW q \in TellRows, NEW y \in Nat, NEW v \in Nat, Others, newsSms' = [newsSms EXCEPT ![e] = q],
             newsTexts' = [newsTexts EXCEPT ![e] = y], newsRows' = [newsRows EXCEPT ![e] = v],
             r.at # "none", SmsFine(b, newsNow, q, y, v)
      PROVE  TellInv(b, n)'
  BY <1>3, TellSmsMoves
<1>4. ASSUME NEW q, News(b, n)!Sms1(e, q) PROVE Others /\ newsSms' = [newsSms EXCEPT ![e] = q]
  BY <1>4 DEF News!Sms1
<1>5. r.at \in {"none", "waiting", "send", "record", "ended"} /\ r.wake \in Nat /\ r.tries \in Nat
  BY <1>1 DEF TellRows
<1>6. SmsTries \in Nat \ {0} /\ (b = TRUE \/ b # TRUE)
  BY TellConstants
<1>7. CASE News(b, n)!Wake(e)
  <2>1. r.at = "waiting" /\ r.wake <= newsNow /\ newsTexts' = newsTexts /\ newsRows' = newsRows
    BY <1>7 DEF News!Wake
  <2>2. CASE News(b, n)!InQuietHours(newsNow)
    <3> DEFINE m == Morning(newsNow)
               q == [r EXCEPT !.wake = m, !.tries = 0]
    <3>1. News(b, n)!Sms1(e, q)
      BY <1>7, <2>2 DEF News!Wake, Morning, News!HoursUntilQuietEnd
    <3>2. m \in Nat /\ ~Night(m)
      BY <1>1, <2>2, NightEnds DEF Night, News!InQuietHours
    <3> HIDE DEF m
    <3>3. q \in TellRows /\ q.at = "waiting" /\ q.wake = m /\ q.tries = 0
      BY <1>1, <2>1, <3>2 DEF TellRows
    <3> HIDE DEF q
    <3>4. SmsFine(b, newsNow, q, x, w)
      BY <1>1, <1>2, <2>1, <3>2, <3>3, FinePutOff
    <3>5. Others /\ newsSms' = [newsSms EXCEPT ![e] = q]
      BY <1>4, <3>1
    <3> QED
      BY <1>1, <1>3, <2>1, <3>3, <3>4, <3>5
  <2>3. CASE ~News(b, n)!InQuietHours(newsNow)
    <3> DEFINE q == [r EXCEPT !.at = "send"]
    <3>1. News(b, n)!Sms1(e, q)
      BY <1>7, <2>3 DEF News!Wake
    <3>2. q \in TellRows /\ q.at = "send" /\ q.wake = r.wake /\ q.tries = r.tries
      BY <1>1 DEF TellRows
    <3> HIDE DEF q
    <3>3. SmsFine(b, newsNow, q, x, w)
      BY <1>2, <1>6, <2>1, <3>2 DEF SmsFine
    <3>4. Others /\ newsSms' = [newsSms EXCEPT ![e] = q]
      BY <1>4, <3>1
    <3> QED
      BY <1>1, <1>3, <2>1, <3>2, <3>3, <3>4
  <2> QED
    BY <2>2, <2>3
<1>8. CASE News(b, n)!SendSms(e)
  <2>1. r.at = "send" /\ newsRows' = newsRows
    BY <1>8 DEF News!SendSms
  <2>2. CASE News(b, n)!Sms1(e, [r EXCEPT !.at = "record"]) /\ newsTexts' = [newsTexts EXCEPT ![e] = x + 1]
    <3> DEFINE q == [r EXCEPT !.at = "record"]
    <3>1. q \in TellRows /\ q.at = "record" /\ q.wake = r.wake /\ q.tries = r.tries
      BY <1>1 DEF TellRows
    <3>2. Others /\ newsSms' = [newsSms EXCEPT ![e] = q]
      BY <1>4, <2>2
    <3> HIDE DEF q
    <3>3. SmsFine(b, newsNow, q, x + 1, w)
      BY <1>1, <1>2, <2>1, <3>1, FineSent
    <3>4. x + 1 \in Nat
      BY <1>1
    <3> QED
      BY <1>1, <1>3, <2>1, <2>2, <3>1, <3>2, <3>3, <3>4
  <2>3. CASE b /\ News(b, n)!Sms1(e, [r EXCEPT !.at = "ended"]) /\ newsTexts' = newsTexts
    <3> DEFINE q == [r EXCEPT !.at = "ended"]
    <3>1. q \in TellRows /\ q.at = "ended" /\ q.wake = r.wake /\ q.tries = r.tries
      BY <1>1 DEF TellRows
    <3>2. Others /\ newsSms' = [newsSms EXCEPT ![e] = q]
      BY <1>4, <2>3
    <3>3. b = TRUE
      BY <2>3, Zenon
    <3> HIDE DEF q
    <3>4. SmsFine(b, newsNow, q, x, w)
      BY <1>1, <1>2, <2>1, <3>1, <3>3 DEF SmsFine
    <3> QED
      BY <1>1, <1>3, <2>1, <2>3, <3>1, <3>2, <3>4
  <2> QED
    BY <1>8, <2>2, <2>3 DEF News!SendSms
<1>9. CASE News(b, n)!Record(e)
  <2> DEFINE q == [r EXCEPT !.at = "ended"]
  <2>1. r.at = "record" /\ newsTexts' = newsTexts /\ newsRows' = [newsRows EXCEPT ![e] = w + 1] /\ News(b, n)!Sms1(e, q)
    BY <1>9 DEF News!Record
  <2>2. q \in TellRows /\ q.at = "ended" /\ q.wake = r.wake /\ q.tries = r.tries
    BY <1>1 DEF TellRows
  <2>3. Others /\ newsSms' = [newsSms EXCEPT ![e] = q]
    BY <1>4, <2>1
  <2> HIDE DEF q
  <2>4. w = 0 /\ w + 1 = 1 /\ w + 1 \in Nat
    BY <1>1, <1>2, <2>1 DEF SmsFine
  <2>5. SmsFine(b, newsNow, q, x, w + 1)
    BY <1>1, <1>2, <2>1, <2>2, FineRecorded
  <2> QED
    BY <1>1, <1>3, <2>1, <2>2, <2>3, <2>4, <2>5
<1>10. CASE News(b, n)!Throws(e)
  <2> DEFINE k == r.tries + 1
             a == IF k < SmsTries THEN "waiting" ELSE "ended"
             q == [r EXCEPT !.at = a, !.tries = k]
  <2>1. /\ b /\ (r.at \in {"send", "record"} \/ (r.at = "waiting" /\ r.wake <= newsNow))
        /\ newsTexts' = newsTexts /\ newsRows' = newsRows /\ News(b, n)!Sms1(e, q)
    BY <1>10 DEF News!Throws
  <2>2. b = TRUE
    BY <2>1, Zenon
  <2>3. k \in Nat /\ a \in {"waiting", "ended"} /\ (a = "waiting" => k < SmsTries)
    BY <1>5
  <2>4. k <= SmsTries /\ r.wake <= newsNow
    BY <1>2, <1>5, <1>6, <2>1 DEF SmsFine
  <2>5. Others /\ newsSms' = [newsSms EXCEPT ![e] = q]
    BY <1>4, <2>1
  <2> HIDE DEF k, a
  <2>6. q \in TellRows /\ q.at = a /\ q.wake = r.wake /\ q.tries = k
    BY <1>1, <2>3 DEF TellRows
  <2> HIDE DEF q
  <2>7. SmsFine(b, newsNow, q, x, w)
    BY <1>1, <1>2, <1>5, <2>1, <2>2, <2>3, <2>4, <2>6 DEF SmsFine
  <2>8. r.at # "none"
    BY <2>1
  <2> QED
    BY <1>1, <1>3, <2>1, <2>5, <2>6, <2>7, <2>8
<1> QED
  BY <1>7, <1>8, <1>9, <1>10 DEF News!Job

(* The engine carries out a task, or its error skips what is left of its try. *)
LEMMA TellEngineStep ==
  ASSUME NEW CONSTANT b \in BOOLEAN, NEW CONSTANT n \in Nat, TellInv(b, n), NEW e \in 1 .. n,
         News(b, n)!Handler(e) \/ News(b, n)!SkipGroup(e)
  PROVE  TellInv(b, n)'
<1> DEFINE g == newsEngine[e]
           k == newsHeard[e]
           t == News(b, n)!Tasks(k)
           told == newsTold[e]
           failed == newsFailed[e]
           Others == UNCHANGED <<newsNow, newsStatus, newsHeard, newsSms, newsTexts, newsRows>>
<1>1. /\ g \in TellEngine /\ told \in SUBSET Nat /\ failed \in SUBSET Nat
      /\ newsTold = [newsTold EXCEPT ![e] = told] /\ newsFailed = [newsFailed EXCEPT ![e] = failed]
  <2>1. g \in TellEngine /\ told \in SUBSET Nat /\ failed \in SUBSET Nat
    BY DEF TellInv, TellTyped
  <2>2. newsTold = [newsTold EXCEPT ![e] = told] /\ newsFailed = [newsFailed EXCEPT ![e] = failed]
    BY DEF TellInv, TellTyped
  <2> QED
    BY <2>1, <2>2
<1>2. g.at # "none"
  BY DEF News!Handler, News!Look, News!Carry, News!Done, News!SkipGroup
<1>3. e \in 1 .. Len(newsHeard) /\ k \in NewsKinds
  <2>1. newsHeard \in Seq(NewsKinds) /\ Len(newsHeard) \in Nat
    BY LenProperties DEF TellInv, TellTyped
  <2>2. ~(e > Len(newsHeard))
    BY <1>2 DEF TellInv
  <2>3. e \in 1 .. Len(newsHeard)
    BY <2>1, <2>2
  <2> QED
    BY <2>1, <2>3, ElementOfSeq
<1>4. EngineFine(b, n, k, g, told, failed)
  BY <1>3 DEF TellInv
<1>5. TaskList(t)
  BY <1>3, TasksListed
<1>6. Len(t) \in Nat /\ DOMAIN t = 1 .. Len(t)
  BY <1>5 DEF TaskList
<1>7. g.at \in {"none", "look", "send", "done"} /\ g.i \in Nat \ {0}
  BY <1>1 DEF TellEngine
<1>8. ASSUME NEW h \in TellEngine, NEW T \in SUBSET Nat, NEW F \in SUBSET Nat, Others,
             newsEngine' = [newsEngine EXCEPT ![e] = h], newsTold' = [newsTold EXCEPT ![e] = T],
             newsFailed' = [newsFailed EXCEPT ![e] = F], EngineFine(b, n, k, h, T, F)
      PROVE  TellInv(b, n)'
  BY <1>2, <1>8, TellEngineMoves
<1>9. News(b, n)!TasksOf(e) = t
  BY DEF News!TasksOf
<1>10. ASSUME NEW i \in DOMAIN t, NEW T, told \subseteq T, NEW F, failed \subseteq F, i < g.i
       PROVE  Accounted(b, n, k, T, F, i)
  BY <1>4, <1>10 DEF EngineFine, Accounted
<1> HIDE DEF t
<1>11. CASE News(b, n)!Look(e)
  <2> DEFINE h == [at |-> IF newsStatus = "PENDING" THEN "send" ELSE "done", i |-> 1]
  <2>1. /\ g.at = "look" /\ newsEngine' = [newsEngine EXCEPT ![e] = h]
        /\ Others /\ newsTold' = newsTold /\ newsFailed' = newsFailed
    BY <1>11 DEF News!Look, News!Engine
  <2>2. h \in TellEngine /\ h.i = 1 /\ h.at # "look"
    BY DEF TellEngine
  <2> HIDE DEF h
  <2>3. k = "CREATED" /\ g.i = 1
    BY <1>4, <2>1 DEF EngineFine
  <2>4. \A i \in DOMAIN t : ~(i < h.i)
    BY <1>6, <2>2
  <2>5. EngineFine(b, n, k, h, told, failed)
    BY <2>2, <2>3, <2>4 DEF EngineFine, t
  <2> QED
    BY <1>1, <1>8, <2>1, <2>2, <2>5
<1>12. CASE News(b, n)!Carry(e)
  <2> DEFINE i == g.i
             h == [g EXCEPT !.i = i + 1]
             T == IF News(b, n)!Dropped(t[i]) THEN told ELSE told \cup {i}
  <2>1. /\ g.at = "send" /\ i <= Len(t) /\ newsEngine' = [newsEngine EXCEPT ![e] = h] /\ Others
        /\ newsTold' = IF News(b, n)!Dropped(t[i]) THEN newsTold ELSE [newsTold EXCEPT ![e] = told \cup {i}]
        /\ newsFailed' = newsFailed
    BY <1>9, <1>12 DEF News!Carry, News!Engine
  <2>2. newsTold' = [newsTold EXCEPT ![e] = T] /\ T \in SUBSET Nat /\ told \subseteq T
    BY <1>1, <1>7, <2>1
  <2>3. h \in TellEngine /\ h.i = i + 1 /\ h.at = "send"
    BY <1>1, <1>7, <2>1 DEF TellEngine
  <2>4. Accounted(b, n, k, T, failed, i)
    BY DEF Accounted, News!Dropped, t
  <2> HIDE DEF h, T
  <2>5. ASSUME NEW j \in DOMAIN t, j < h.i PROVE Accounted(b, n, k, T, failed, j)
    <3>1. j = i \/ j < i
      BY <1>6, <1>7, <2>3, <2>5
    <3> QED
      BY <1>10, <2>2, <2>4, <3>1
  <2>6. EngineFine(b, n, k, h, T, failed)
    BY <2>3, <2>5 DEF EngineFine, t
  <2> QED
    BY <1>1, <1>8, <2>1, <2>2, <2>3, <2>6
<1>13. CASE News(b, n)!Done(e)
  <2> DEFINE h == [g EXCEPT !.at = "done"]
  <2>1. /\ g.at = "send" /\ g.i > Len(t) /\ newsEngine' = [newsEngine EXCEPT ![e] = h]
        /\ Others /\ newsTold' = newsTold /\ newsFailed' = newsFailed
    BY <1>9, <1>13 DEF News!Done, News!Engine
  <2>2. h \in TellEngine /\ h.i = g.i /\ h.at = "done"
    BY <1>1 DEF TellEngine
  <2> HIDE DEF h
  <2>3. EngineFine(b, n, k, h, told, failed)
    BY <1>4, <2>1, <2>2 DEF EngineFine, t
  <2> QED
    BY <1>1, <1>8, <2>1, <2>2, <2>3
<1>14. CASE News(b, n)!SkipGroup(e)
  <2> DEFINE i == g.i
             c == News(b, n)!Cardinality(RestOfTry(t, i))
             h == [g EXCEPT !.i = i + c]
             F == failed \cup {i}
  <2>1. /\ g.at = "send" /\ i <= Len(t) /\ newsEngine' = [newsEngine EXCEPT ![e] = h] /\ Others
        /\ newsFailed' = [newsFailed EXCEPT ![e] = F] /\ newsTold' = newsTold
    BY <1>9, <1>14 DEF News!SkipGroup, News!Engine, RestOfTry
  <2>2. i \in DOMAIN t
    BY <1>6, <1>7, <2>1
  <2>3. /\ c \in Nat \ {0}
        /\ \A j \in DOMAIN t : i <= j /\ j < i + c => t[j].group = t[i].group
    BY <1>5, <2>2, GroupFollows
  <2> HIDE DEF c
  <2>4. i + c \in Nat \ {0}
    BY <1>7, <2>3
  <2>5. h \in TellEngine /\ h.i = i + c /\ h.at = "send"
    BY <1>1, <2>1, <2>4 DEF TellEngine
  <2>6. F \in SUBSET Nat /\ failed \subseteq F /\ i \in F
    BY <1>1, <1>7
  <2> HIDE DEF h, F
  <2>7. ASSUME NEW j \in DOMAIN t, j < h.i PROVE Accounted(b, n, k, told, F, j)
    <3>1. CASE j < i
      BY <1>10, <2>6, <3>1
    <3>2. CASE ~(j < i)
      <4>1. i <= j /\ j < i + c
        BY <1>6, <1>7, <2>5, <2>7, <3>2
      <4>2. t[j].group = t[i].group
        BY <2>3, <4>1
      <4> QED
        BY <2>6, <4>1, <4>2 DEF Accounted, t
    <3> QED
      BY <3>1, <3>2
  <2>8. EngineFine(b, n, k, h, told, F)
    BY <2>5, <2>7 DEF EngineFine, t
  <2> QED
    BY <1>1, <1>8, <2>1, <2>5, <2>6, <2>8
<1> QED
  BY <1>11, <1>12, <1>13, <1>14 DEF News!Handler

LEMMA TellStep ==
  ASSUME NEW CONSTANT b \in BOOLEAN, NEW CONSTANT n \in Nat, TellInv(b, n), [News(b, n)!Next]_newsVars
  PROVE  TellInv(b, n)'
<1>1. newsStatus \in {"NONE", "PENDING", "CONFIRMED", "CANCELLED", "COMPLETED", "NO_SHOW"}
  BY DEF TellInv, TellTyped
<1>2. ASSUME NEW s, NEW kinds, kinds \in Seq(NewsKinds), News(b, n)!Emit(s, kinds),
             s \in {"NONE", "PENDING", "CONFIRMED", "CANCELLED", "COMPLETED", "NO_SHOW"}
      PROVE  TellInv(b, n)'
  BY <1>2, TellEmits
<1>3. \A k \in NewsKinds : <<k>> \in Seq(NewsKinds)
  OBVIOUS
<1>4. ASSUME NEW auto \in BOOLEAN, News(b, n)!Book(auto) PROVE TellInv(b, n)'
  <2>1. News(b, n)!Emit("CONFIRMED", <<"CREATED", "CONFIRMED">>) \/ News(b, n)!Emit("PENDING", <<"CREATED">>)
    BY <1>4, Zenon DEF News!Book
  <2>2. <<"CREATED", "CONFIRMED">> \in Seq(NewsKinds) /\ <<"CREATED">> \in Seq(NewsKinds)
    BY DEF NewsKinds
  <2> QED
    BY <1>2, <2>1, <2>2
<1>5. ASSUME News(b, n)!Confirm \/ News(b, n)!Cancel \/ News(b, n)!Move \/ News(b, n)!Complete \/ News(b, n)!NoShow
      PROVE  TellInv(b, n)'
  <2>1. "CONFIRMED" \in NewsKinds /\ "CANCELLED" \in NewsKinds /\ "RESCHEDULED" \in NewsKinds
        /\ "COMPLETED" \in NewsKinds /\ "NO_SHOW" \in NewsKinds
    BY DEF NewsKinds
  <2>2. \/ News(b, n)!Emit("CONFIRMED", <<"CONFIRMED">>) \/ News(b, n)!Emit("CANCELLED", <<"CANCELLED">>)
        \/ News(b, n)!Emit(newsStatus, <<"RESCHEDULED">>) \/ News(b, n)!Emit("COMPLETED", <<"COMPLETED">>)
        \/ News(b, n)!Emit("NO_SHOW", <<"NO_SHOW">>)
    BY <1>5 DEF News!Confirm, News!Cancel, News!Move, News!Complete, News!NoShow
  <2> QED
    BY <1>1, <1>2, <1>3, <2>1, <2>2
<1>6. ASSUME News(b, n)!Tick PROVE TellInv(b, n)'
  <2>1. /\ newsNow' = newsNow + 1
        /\ UNCHANGED <<newsStatus, newsHeard, newsEngine, newsTold, newsFailed, newsSms, newsTexts, newsRows>>
    BY <1>6 DEF News!Tick
  <2>2. newsNow \in Nat /\ newsNow' \in 0 .. NewsTime(b)
    <3>1. NewsTime(b) \in Nat /\ newsNow \in 0 .. NewsTime(b)
      BY TellConstants DEF TellInv, TellTyped
    <3>2. newsNow < NewsTime(b)
      BY <1>6 DEF News!Tick, NewsTime
    <3> QED
      BY <2>1, <3>1, <3>2
  <2>3. \A e \in 1 .. n : SmsFine(b, newsNow', newsSms'[e], newsTexts'[e], newsRows'[e])
    <3> SUFFICES ASSUME NEW e \in 1 .. n PROVE SmsFine(b, newsNow', newsSms'[e], newsTexts'[e], newsRows'[e])
      OBVIOUS
    <3>1. SmsFine(b, newsNow, newsSms[e], newsTexts[e], newsRows[e]) /\ newsSms[e].wake \in Nat
      BY DEF TellInv, TellTyped, TellRows
    <3> DEFINE r == newsSms[e]
               x == newsTexts[e]
               w == newsRows[e]
               t == newsNow
               u == newsNow'
    <3>2. SmsFine(b, t, r, x, w) /\ r.wake \in Nat /\ t \in Nat /\ u = t + 1
      BY <2>1, <2>2, <3>1
    <3>3. newsSms'[e] = r /\ newsTexts'[e] = x /\ newsRows'[e] = w
      BY <2>1
    <3> HIDE DEF r, x, w, t, u
    <3>4. (r.wake <= t => r.wake <= u) /\ (r.wake > u => r.wake > t)
      BY <3>2
    <3>5. SmsFine(b, u, r, x, w)
      BY <3>2, <3>4 DEF SmsFine
    <3> QED
      BY <3>3, <3>5 DEF u
  <2> QED
    BY <2>1, <2>2, <2>3 DEF TellInv, TellTyped
<1>7. ASSUME NEW e \in 1 .. n,
             News(b, n)!Handler(e) \/ News(b, n)!SkipGroup(e) \/ News(b, n)!Job(e) \/ News(b, n)!Throws(e)
      PROVE  TellInv(b, n)'
  BY <1>7, TellSmsStep, TellEngineStep
<1>8. CASE UNCHANGED newsVars
  BY <1>8 DEF newsVars, TellInv, TellTyped
<1>9. CASE News(b, n)!Next
  BY <1>4, <1>5, <1>6, <1>7, <1>9 DEF News!Next, News!Ids
<1> QED
  BY <1>8, <1>9

LEMMA TellTells ==
  ASSUME NEW CONSTANT b \in BOOLEAN, NEW CONSTANT n \in Nat, TellInv(b, n) PROVE TextsAccounted(b, n)
<1>1. TellTyped(b, n) /\ SmsTries \in Nat
  BY TellConstants DEF TellInv
<1>2. Len(newsHeard) \in Nat /\ DOMAIN newsHeard = 1 .. Len(newsHeard) /\ newsHeard \in Seq(NewsKinds)
  BY <1>1, LenProperties DEF TellTyped
<1>3. \A e \in 1 .. n : SmsFine(b, newsNow, newsSms[e], newsTexts[e], newsRows[e]) /\ newsSms[e] \in TellRows
  BY <1>1 DEF TellInv, TellTyped
<1>4. News(b, n)!TypeOK
  <2>1. \A e \in 1 .. n : newsSms[e].tries \in 0 .. SmsTries
    <3> SUFFICES ASSUME NEW e \in 1 .. n PROVE newsSms[e].tries \in 0 .. SmsTries
      OBVIOUS
    <3> DEFINE k == newsSms[e].tries
    <3>1. k \in Nat /\ k <= SmsTries
      BY <1>3 DEF SmsFine, TellRows
    <3> HIDE DEF k
    <3>2. k \in 0 .. SmsTries
      BY <1>1, <3>1
    <3> QED
      BY <3>2 DEF k
  <2>2. \A e \in 1 .. n : /\ newsSms[e].at \in {"none", "waiting", "send", "record", "ended"} /\ newsSms[e].wake \in Nat
                          /\ newsEngine[e].at \in {"none", "look", "send", "done"} /\ newsEngine[e].i \in Nat \ {0}
                          /\ newsTold[e] \subseteq Nat /\ newsFailed[e] \subseteq Nat
                          /\ newsTexts[e] \in Nat /\ newsRows[e] \in Nat
    BY <1>1 DEF TellTyped, TellRows, TellEngine
  <2>3. newsNow \in 0 .. (IF b THEN MaxFailingNewsTime ELSE MaxNewsTime)
    BY <1>1 DEF TellTyped, NewsTime
  <2> QED
    BY <1>1, <2>1, <2>2, <2>3 DEF TellTyped, News!TypeOK, News!Ids, News!Kinds, NewsKinds
<1>5. News(b, n)!FailuresAreIsolated
  <2> SUFFICES ASSUME NEW e \in DOMAIN newsHeard, newsEngine[e].at = "done", newsHeard[e] = "CREATED" => newsEngine[e].i > 1,
                      NEW i \in DOMAIN News(b, n)!TasksOf(e)
               PROVE  i \in newsTold[e] \/ News(b, n)!Excused(e, i)
    BY DEF News!FailuresAreIsolated
  <2> DEFINE k == newsHeard[e]
             t == News(b, n)!Tasks(k)
  <2>1. EngineFine(b, n, k, newsEngine[e], newsTold[e], newsFailed[e])
    BY <1>2 DEF TellInv
  <2>2. newsEngine[e].i > Len(t)
    BY <2>1 DEF EngineFine
  <2>3. k \in NewsKinds
    BY <1>2, ElementOfSeq
  <2>4. TaskList(t)
    BY <2>3, TasksListed
  <2>5. i \in DOMAIN t
    BY DEF News!TasksOf
  <2>6. newsEngine[e].i \in Nat
    <3>1. Len(newsHeard) <= n
      BY <1>1 DEF TellTyped
    <3>2. e \in 1 .. n
      BY <1>2, <3>1
    <3> QED
      BY <1>1, <3>2 DEF TellTyped, TellEngine
  <2> HIDE DEF t, k
  <2>7. i < newsEngine[e].i
    BY <2>2, <2>4, <2>5, <2>6 DEF TaskList
  <2>8. Accounted(b, n, k, newsTold[e], newsFailed[e], i)
    BY <2>1, <2>5, <2>7 DEF EngineFine, t
  <2> QED
    BY <2>8 DEF Accounted, News!Excused, News!TasksOf, k
<1>6. News(b, n)!TextsAreAccounted
  <2> SUFFICES ASSUME NEW e \in 1 .. n
               PROVE  /\ newsRows[e] <= 1 /\ newsRows[e] <= newsTexts[e]
                      /\ newsRows[e] = 1 => newsSms[e].at = "ended"
                      /\ b # TRUE /\ newsSms[e].at = "ended" => newsTexts[e] = 1 /\ newsRows[e] = 1
    BY DEF News!TextsAreAccounted, News!Ids
  <2> QED
    BY <1>3 DEF SmsFine
<1>7. News(b, n)!WaitsForMorning
  <2>1. \A t : News(b, n)!InQuietHours(t) <=> Night(t)
    BY DEF News!InQuietHours, Night
  <2> QED
    BY <1>3, <2>1 DEF News!WaitsForMorning, News!Ids, SmsFine
<1> QED
  BY <1>4, <1>5, <1>6, <1>7 DEF TextsAccounted
-----------------------------------------------------------------------------
(* What fails costs only what comes after it in its own try, and an SMS on    *)
(* record was sent once it was due: for any number of changes of a booking,   *)
(* of staff, of automations, of hours and of tries.                          *)
ChangesInv ==
  /\ under = "news" => TellInv(FALSE, MaxNews)
  /\ under = "news, steps fail" => TellInv(TRUE, MaxFailingNews)

THEOREM ChangesAreToldAlways == Spec => []ChangesAreTold
<1>1. MaxNews \in Nat /\ MaxFailingNews \in Nat /\ TRUE \in BOOLEAN /\ FALSE \in BOOLEAN
  BY NewsConstants
<1>2. Init => ChangesInv
  <2> SUFFICES ASSUME Init PROVE ChangesInv
    OBVIOUS
  <2>1. /\ under = "news" => News(FALSE, MaxNews)!Init
        /\ under = "news, steps fail" => News(TRUE, MaxFailingNews)!Init
    BY DEF Init, Start, NoticesInit
  <2> QED
    BY <1>1, <2>1, TellInit DEF ChangesInv
<1>3. ChangesInv /\ [Next]_vars => ChangesInv'
  <2> SUFFICES ASSUME ChangesInv, [Next]_vars PROVE ChangesInv'
    OBVIOUS
  <2>1. under' = under
    BY UnderStays
  <2>2. under = "news" => TellInv(FALSE, MaxNews)'
    BY <1>1, TellStep, NoticeTurns DEF ChangesInv
  <2>3. under = "news, steps fail" => TellInv(TRUE, MaxFailingNews)'
    BY <1>1, TellStep, NoticeTurns DEF ChangesInv
  <2> QED
    BY <2>1, <2>2, <2>3 DEF ChangesInv
<1>4. ChangesInv => ChangesAreTold
  BY <1>1, TellTells DEF ChangesInv, ChangesAreTold
<1> QED
  BY <1>2, <1>3, <1>4, PTL DEF Spec
-----------------------------------------------------------------------------
(* What the owner's screens show.  In both circumstances, b: whether the      *)
(* deliveries overlap.                                                       *)
ScreenJobs(b)  == IF b THEN OverlapJobs ELSE PushJobs
ScreenPages(b) == IF b THEN OverlapPages ELSE PushPages
ScreenTime(b)  == IF b THEN MaxOverlapTime ELSE MaxPushTime
Deliveries(b)  == [at: PushPoints, count: Nat, left: SUBSET ScreenPages(b), sent: Nat, tries: Nat, failures: Nat]

ShowTables(b) ==
  /\ screenNow \in 0 .. ScreenTime(b) /\ screenGone \subseteq PushEndpoints
  /\ DOMAIN screenRows \subseteq ScreenPages(b) /\ \A p \in DOMAIN screenRows : screenRows[p] \in PushEndpoints
  /\ screenPage \in [ScreenPages(b) -> [at: {"new", "create", "done"}, endpoint: PushEndpoints]]
  /\ screenRate \in [n: Nat, until: Nat] /\ screenPushed \in [0 .. ScreenTime(b) -> Nat]
  /\ screenDevice \in [active: BOOLEAN, failures: Nat]

(* A telephone that is on has not failed too often: not by its row, nor by    *)
(* the count that a delivery has read and is about to write anew.             *)
DeviceFine ==
  /\ screenDevice.failures <= MaxPushFailures
  /\ screenDevice.active = TRUE => screenDevice.failures < MaxPushFailures

DeliveryFine(r) ==
  /\ r.tries <= PushTries
  /\ r.at # "done" => r.tries < PushTries
  /\ r.at = "send" => r.failures < MaxPushFailures

ShowInv(b) ==
  /\ ShowTables(b) /\ DeviceFine
  /\ screenJob \in [ScreenJobs(b) -> Deliveries(b)]
  /\ \A j \in ScreenJobs(b) : DeliveryFine(screenJob[j])

LEMMA ShowConstants ==
  /\ IsFiniteSet(PushPages) /\ PushLimit \in Nat \ {0} /\ PushHour \in Nat \ {0} /\ OverlapHour \in Nat \ {0}
  /\ MaxPushFailures \in Nat \ {0} /\ PushTries \in Nat \ {0} /\ MaxPushTime \in Nat /\ MaxOverlapTime \in Nat
<1>1. \A b \in BOOLEAN : Screen(b)!PushAssumption
  BY MessagesAssumption DEF NoticesAssumed
<1>2. Screen(TRUE)!PushAssumption /\ Screen(FALSE)!PushAssumption
  BY <1>1
<1>3. /\ Screen(FALSE)!IsFiniteSet(PushPages) /\ {PushLimit, PushHour, MaxPushFailures, PushTries} \subseteq Nat \ {0}
      /\ MaxPushTime \in Nat
  BY <1>2 DEF Screen!PushAssumption
<1>4. {PushLimit, OverlapHour, MaxPushFailures, PushTries} \subseteq Nat \ {0} /\ MaxOverlapTime \in Nat
  BY <1>2 DEF Screen!PushAssumption
<1>5. IsFiniteSet(PushPages)
  BY <1>3 DEF Screen!IsFiniteSet, IsFiniteSet
<1> QED
  BY <1>3, <1>4, <1>5

LEMMA ShowInit == ASSUME NEW CONSTANT b \in BOOLEAN, Screen(b)!Init PROVE ShowInv(b)
<1> DEFINE r == [at |-> "new", count |-> 0, left |-> {}, sent |-> 0, tries |-> 0, failures |-> 0]
<1>1. ScreenTime(b) \in Nat /\ 0 <= MaxPushFailures /\ 0 < MaxPushFailures /\ 0 <= PushTries /\ 0 < PushTries
  BY ShowConstants DEF ScreenTime
<1>2. /\ screenNow = 0 /\ screenRows = <<>> /\ screenGone = {}
      /\ screenPage \in [ScreenPages(b) -> [at: {"new"}, endpoint: PushEndpoints]]
      /\ screenRate = [n |-> 0, until |-> 0] /\ screenJob = [j \in ScreenJobs(b) |-> r]
      /\ screenPushed = [t \in 0 .. ScreenTime(b) |-> 0] /\ screenDevice = [active |-> TRUE, failures |-> 0]
  BY DEF Screen!Init, Screen!NoJob, ScreenPages, ScreenJobs, ScreenTime
<1>3. r \in Deliveries(b) /\ DeliveryFine(r)
  BY <1>1 DEF Deliveries, PushPoints, DeliveryFine
<1> HIDE DEF r
<1>4. screenJob \in [ScreenJobs(b) -> Deliveries(b)] /\ \A j \in ScreenJobs(b) : DeliveryFine(screenJob[j])
  BY <1>2, <1>3
<1>5. DOMAIN screenRows = {}
  BY <1>2
<1>6. screenPage \in [ScreenPages(b) -> [at: {"new", "create", "done"}, endpoint: PushEndpoints]]
  BY <1>2
<1>7. screenPushed \in [0 .. ScreenTime(b) -> Nat] /\ screenNow \in 0 .. ScreenTime(b) /\ screenRate \in [n: Nat, until: Nat]
  BY <1>1, <1>2
<1>8. ShowTables(b) /\ DeviceFine
  BY <1>1, <1>2, <1>5, <1>6, <1>7 DEF ShowTables, DeviceFine
<1> QED
  BY <1>4, <1>8 DEF ShowInv

LEMMA ShowMoves ==
  ASSUME NEW CONSTANT b \in BOOLEAN, ShowInv(b), NEW j \in ScreenJobs(b), NEW x \in Deliveries(b),
         screenJob' = [screenJob EXCEPT ![j] = x], DeliveryFine(x), ShowTables(b)', DeviceFine'
  PROVE  ShowInv(b)'
<1>1. screenJob' \in [ScreenJobs(b) -> Deliveries(b)]
  BY DEF ShowInv
<1>2. \A i \in ScreenJobs(b) : screenJob'[i] = IF i = j THEN x ELSE screenJob[i]
  BY DEF ShowInv
<1>3. \A i \in ScreenJobs(b) : DeliveryFine(screenJob'[i])
  BY <1>2 DEF ShowInv
<1> QED
  BY <1>1, <1>3 DEF ShowInv

ShowQuiet == UNCHANGED <<screenNow, screenPage, screenGone, screenRate, screenPushed, screenDevice>>

(* The rows of browsers may lose one.                                        *)
LEMMA ShowWithout ==
  ASSUME NEW CONSTANT b \in BOOLEAN, ShowTables(b), NEW p, screenRows' = Screen(b)!Without(p)
  PROVE  DOMAIN screenRows' \subseteq ScreenPages(b) /\ \A q \in DOMAIN screenRows' : screenRows'[q] \in PushEndpoints
<1>1. screenRows' = [r \in DOMAIN screenRows \ {p} |-> screenRows[r]]
  BY DEF Screen!Without
<1> QED
  BY <1>1 DEF ShowTables

LEMMA ShowBrowsers ==
  ASSUME NEW CONSTANT b \in BOOLEAN, ShowInv(b), NEW j \in ScreenJobs(b), NEW p \in ScreenPages(b),
         Screen(b)!Push(j, p) \/ Screen(b)!PushGone(j, p) \/ Screen(b)!PushFails(j, p)
  PROVE  ShowInv(b)'
<1> DEFINE r == screenJob[j]
           After == Screen(b)!AfterBrowsers(j)
<1>1. r \in Deliveries(b) /\ DeliveryFine(r) /\ ShowTables(b)
  BY DEF ShowInv
<1>2. r.left \ {p} \in SUBSET ScreenPages(b) /\ r.sent \in Nat /\ r.sent + 1 \in Nat
  BY <1>1 DEF Deliveries
<1>3. After \in {"done", "device"}
  BY DEF Screen!AfterBrowsers
<1> HIDE DEF After
<1>4. \E sent \in Nat : Screen(b)!Onward(j, r.left \ {p}, sent)
  BY <1>2 DEF Screen!Push, Screen!PushGone, Screen!PushFails
<1>5. r.at = "push" /\ UNCHANGED <<screenNow, screenPage, screenGone, screenRate, screenDevice>>
  BY DEF Screen!Push, Screen!PushGone, Screen!PushFails
<1>6. PICK sent \in Nat : Screen(b)!Onward(j, r.left \ {p}, sent)
  BY <1>4
<1> DEFINE left == r.left \ {p}
           at == IF left # {} THEN "push" ELSE IF sent > 0 THEN "count" ELSE After
           x  == [r EXCEPT !.left = left, !.sent = sent, !.at = at]
<1>7. screenJob' = [screenJob EXCEPT ![j] = x]
  BY <1>6 DEF Screen!Onward, After
<1>8. at \in PushPoints /\ at # "send" /\ left \in SUBSET ScreenPages(b)
  BY <1>2, <1>3 DEF PushPoints
<1> HIDE DEF at, left
<1>9. x \in Deliveries(b) /\ x.at = at /\ x.tries = r.tries
  BY <1>1, <1>8 DEF Deliveries
<1> HIDE DEF x
<1>10. DeliveryFine(x)
  BY <1>1, <1>5, <1>8, <1>9 DEF DeliveryFine
<1>11. DOMAIN screenRows' \subseteq ScreenPages(b) /\ \A q \in DOMAIN screenRows' : screenRows'[q] \in PushEndpoints
  <2>1. screenRows' = screenRows \/ screenRows' = Screen(b)!Without(p)
    BY DEF Screen!Push, Screen!PushGone, Screen!PushFails
  <2> QED
    BY <1>1, <2>1, ShowWithout DEF ShowTables
<1>12. screenPushed' \in [0 .. ScreenTime(b) -> Nat]
  <2>1. screenPushed' = screenPushed \/ screenPushed' = [screenPushed EXCEPT ![screenNow] = screenPushed[screenNow] + 1]
    BY DEF Screen!Push, Screen!PushGone, Screen!PushFails
  <2>2. screenPushed \in [0 .. ScreenTime(b) -> Nat] /\ screenNow \in 0 .. ScreenTime(b)
    BY <1>1 DEF ShowTables
  <2>3. screenPushed[screenNow] + 1 \in Nat
    BY <2>2
  <2> QED
    BY <2>1, <2>2, <2>3
<1>13. ShowTables(b)' /\ DeviceFine'
  BY <1>1, <1>5, <1>11, <1>12 DEF ShowInv, ShowTables, DeviceFine
<1> QED
  BY <1>7, <1>9, <1>10, <1>13, ShowMoves

LEMMA ShowDelivers ==
  ASSUME NEW CONSTANT b \in BOOLEAN, ShowInv(b), NEW j \in ScreenJobs(b),
         Screen(b)!Step(j) \/ Screen(b)!Throws(j)
  PROVE  ShowInv(b)'
<1> DEFINE r == screenJob[j]
           After == Screen(b)!AfterBrowsers(j)
           Others == UNCHANGED <<screenNow, screenRows, screenPage, screenGone, screenRate, screenPushed, screenDevice>>
<1>1. r \in Deliveries(b) /\ DeliveryFine(r) /\ ShowTables(b) /\ DeviceFine
  BY DEF ShowInv
<1>2. After \in {"done", "device"}
  BY DEF Screen!AfterBrowsers
<1>3. ASSUME NEW x \in Deliveries(b), screenJob' = [screenJob EXCEPT ![j] = x], DeliveryFine(x), Others PROVE ShowInv(b)'
  <2>1. ShowTables(b)' /\ DeviceFine'
    BY <1>1, <1>3 DEF ShowTables, DeviceFine
  <2> QED
    BY <1>3, <2>1, ShowMoves
<1>4. r.tries \in Nat /\ PushTries \in Nat \ {0} /\ MaxPushFailures \in Nat \ {0} /\ 0 <= PushTries /\ 0 < PushTries
  BY <1>1, ShowConstants DEF Deliveries
<1> HIDE DEF After
<1>5. CASE Screen(b)!Begin(j)
  <2> DEFINE x == [r EXCEPT !.at = "rate"]
  <2>1. r.at = "new" /\ screenJob' = [screenJob EXCEPT ![j] = x] /\ Others
    BY <1>5 DEF Screen!Begin
  <2>2. x \in Deliveries(b) /\ x.at = "rate" /\ x.tries = r.tries
    BY <1>1 DEF Deliveries, PushPoints
  <2> HIDE DEF x
  <2>3. DeliveryFine(x)
    BY <1>1, <2>1, <2>2 DEF DeliveryFine
  <2> QED
    BY <1>3, <2>1, <2>2, <2>3
<1>6. CASE Screen(b)!ReadRate(j)
  <2> DEFINE n == Screen(b)!Count
             at == IF n >= PushLimit THEN After ELSE "rows"
             x == [r EXCEPT !.count = n, !.at = at]
  <2>1. r.at = "rate" /\ screenJob' = [screenJob EXCEPT ![j] = x] /\ Others
    BY <1>6 DEF Screen!ReadRate, After
  <2>2. n \in Nat /\ at \in PushPoints /\ at # "send"
    <3>1. n \in Nat
      BY <1>1 DEF Screen!Count, ShowTables
    <3> HIDE DEF n
    <3> QED
      BY <1>2, <3>1 DEF PushPoints
  <2> HIDE DEF n, at
  <2>3. x \in Deliveries(b) /\ x.at = at /\ x.tries = r.tries
    BY <1>1, <2>2 DEF Deliveries
  <2> HIDE DEF x
  <2>4. DeliveryFine(x)
    BY <1>1, <2>1, <2>2, <2>3 DEF DeliveryFine
  <2> QED
    BY <1>3, <2>1, <2>3, <2>4
<1>7. CASE Screen(b)!ReadRows(j)
  <2> DEFINE at == IF screenRows = <<>> THEN After ELSE "push"
             d == DOMAIN screenRows
             x == [r EXCEPT !.left = d, !.sent = 0, !.at = at]
  <2>1. r.at = "rows" /\ screenJob' = [screenJob EXCEPT ![j] = x] /\ Others
    BY <1>7 DEF Screen!ReadRows, After
  <2>2. d \in SUBSET ScreenPages(b) /\ at \in PushPoints /\ at # "send"
    BY <1>1, <1>2 DEF ShowTables, PushPoints
  <2> HIDE DEF d, at
  <2>3. x \in Deliveries(b) /\ x.at = at /\ x.tries = r.tries
    BY <1>1, <2>2 DEF Deliveries
  <2> HIDE DEF x
  <2>4. DeliveryFine(x)
    BY <1>1, <2>1, <2>2, <2>3 DEF DeliveryFine
  <2> QED
    BY <1>3, <2>1, <2>3, <2>4
<1>8. CASE Screen(b)!SetRate(j)
  <2> DEFINE x == [r EXCEPT !.at = After]
  <2>1. /\ r.at = "count" /\ screenJob' = [screenJob EXCEPT ![j] = x]
        /\ UNCHANGED <<screenNow, screenRows, screenPage, screenGone, screenPushed, screenDevice>>
    BY <1>8 DEF Screen!SetRate, After
  <2>2. x \in Deliveries(b) /\ x.at = After /\ x.tries = r.tries
    BY <1>1, <1>2 DEF Deliveries, PushPoints
  <2> HIDE DEF x
  <2>3. DeliveryFine(x)
    BY <1>1, <1>2, <2>1, <2>2 DEF DeliveryFine
  <2>4. screenRate' \in [n: Nat, until: Nat]
    <3> DEFINE n == r.count + r.sent
               u == screenNow + IF b THEN OverlapHour ELSE PushHour
    <3>1. n \in Nat
      BY <1>1 DEF Deliveries
    <3>2. u \in Nat
      <4>1. ScreenTime(b) \in Nat /\ screenNow \in 0 .. ScreenTime(b)
        BY <1>1, ShowConstants DEF ShowTables, ScreenTime
      <4> QED
        BY <4>1, ShowConstants
    <3>3. screenRate' = [n |-> n, until |-> u]
      BY <1>8 DEF Screen!SetRate
    <3> HIDE DEF n, u
    <3> QED
      BY <3>1, <3>2, <3>3
  <2>5. ShowTables(b)' /\ DeviceFine'
    BY <1>1, <2>1, <2>4 DEF ShowTables, DeviceFine
  <2> QED
    BY <2>1, <2>2, <2>3, <2>5, ShowMoves
<1>9. CASE Screen(b)!ReadDevice(j)
  <2> DEFINE at == IF screenDevice.active THEN "send" ELSE "done"
             f  == screenDevice.failures
             x  == [r EXCEPT !.at = at, !.failures = f]
  <2>1. r.at = "device" /\ screenJob' = [screenJob EXCEPT ![j] = x] /\ Others
    BY <1>9 DEF Screen!ReadDevice
  <2>2. at \in PushPoints /\ f \in Nat /\ (at = "send" => screenDevice.active)
    BY <1>1 DEF PushPoints, ShowTables
  <2>3. at = "send" => f < MaxPushFailures
    <3>1. at = "send" => screenDevice.active = TRUE
      BY <1>1, <2>2 DEF ShowTables
    <3> QED
      BY <1>1, <3>1 DEF DeviceFine
  <2> HIDE DEF at, f
  <2>4. x \in Deliveries(b) /\ x.at = at /\ x.tries = r.tries /\ x.failures = f
    BY <1>1, <2>2 DEF Deliveries
  <2> HIDE DEF x
  <2>5. DeliveryFine(x)
    BY <1>1, <2>1, <2>2, <2>3, <2>4 DEF DeliveryFine
  <2> QED
    BY <1>3, <2>1, <2>4, <2>5
<1>10. CASE Screen(b)!SendDevice(j)
  <2> DEFINE x == [r EXCEPT !.at = "done"]
             k == r.failures + 1
             on == k < MaxPushFailures
  <2>1. /\ r.at = "send" /\ screenJob' = [screenJob EXCEPT ![j] = x]
        /\ UNCHANGED <<screenNow, screenRows, screenPage, screenGone, screenPushed, screenRate>>
    BY <1>10 DEF Screen!SendDevice
  <2>2. x \in Deliveries(b) /\ x.at = "done" /\ x.tries = r.tries
    BY <1>1 DEF Deliveries, PushPoints
  <2>3. DeliveryFine(x)
    BY <1>1, <2>2 DEF DeliveryFine
  <2>4. \/ screenDevice' = screenDevice
        \/ screenDevice' = [screenDevice EXCEPT !.active = FALSE]
        \/ screenDevice' = [active |-> on, failures |-> k]
    BY <1>10 DEF Screen!SendDevice
  <2>5. k \in Nat /\ k <= MaxPushFailures /\ on \in BOOLEAN /\ (on = TRUE => k < MaxPushFailures)
    <3>1. r.failures \in Nat /\ r.failures < MaxPushFailures
      BY <1>1, <2>1 DEF Deliveries, DeliveryFine
    <3> QED
      BY <1>4, <3>1
  <2> HIDE DEF x, k, on
  <2>6. screenDevice \in [active: BOOLEAN, failures: Nat]
    BY <1>1 DEF ShowTables
  <2>7. screenDevice' \in [active: BOOLEAN, failures: Nat] /\ DeviceFine'
    <3>1. CASE screenDevice' = screenDevice
      BY <1>1, <2>6, <3>1 DEF DeviceFine
    <3>2. CASE screenDevice' = [screenDevice EXCEPT !.active = FALSE]
      <4>1. screenDevice'.active = FALSE /\ screenDevice'.failures = screenDevice.failures
        BY <2>6, <3>2
      <4> QED
        BY <1>1, <2>6, <3>2, <4>1 DEF DeviceFine
    <3>3. CASE screenDevice' = [active |-> on, failures |-> k]
      BY <2>5, <3>3 DEF DeviceFine
    <3> QED
      BY <2>4, <3>1, <3>2, <3>3
  <2>8. ShowTables(b)'
    BY <1>1, <2>1, <2>7 DEF ShowTables
  <2> QED
    BY <2>1, <2>2, <2>3, <2>7, <2>8, ShowMoves
<1>11. CASE Screen(b)!Throws(j)
  <2> DEFINE n == [at |-> "new", count |-> 0, left |-> {}, sent |-> 0, tries |-> 0, failures |-> 0]
             k == r.tries + 1
             a == IF k < PushTries THEN "new" ELSE "done"
             x == [n EXCEPT !.at = "device"]
             y == [n EXCEPT !.at = a, !.tries = k]
  <2>1. /\ r.at # "done" /\ Others
        /\ screenJob' = [screenJob EXCEPT ![j] = x] \/ screenJob' = [screenJob EXCEPT ![j] = y]
    BY <1>11 DEF Screen!Throws, Screen!NoJob
  <2>2. n \in Deliveries(b) /\ n.tries = 0
    BY DEF Deliveries, PushPoints
  <2>3. k \in Nat /\ k <= PushTries /\ a \in {"new", "done"} /\ (a # "done" => k < PushTries)
    BY <1>1, <1>4, <2>1 DEF DeliveryFine
  <2> HIDE DEF n, k, a
  <2>4. x \in Deliveries(b) /\ x.at = "device" /\ x.tries = 0
    BY <2>2 DEF Deliveries, PushPoints
  <2>5. y \in Deliveries(b) /\ y.at = a /\ y.tries = k
    BY <2>2, <2>3 DEF Deliveries, PushPoints
  <2> HIDE DEF x, y
  <2>6. DeliveryFine(x)
    BY <1>4, <2>4 DEF DeliveryFine
  <2>7. DeliveryFine(y)
    BY <2>3, <2>5 DEF DeliveryFine
  <2> QED
    BY <1>3, <2>1, <2>4, <2>5, <2>6, <2>7
<1>12. ASSUME NEW p \in ScreenPages(b), Screen(b)!Push(j, p) \/ Screen(b)!PushGone(j, p) PROVE ShowInv(b)'
  BY <1>12, ShowBrowsers
<1> QED
  BY <1>5, <1>6, <1>7, <1>8, <1>9, <1>10, <1>11, <1>12 DEF Screen!Step, ScreenPages

LEMMA ShowStep ==
  ASSUME NEW CONSTANT b \in BOOLEAN, ShowInv(b), [Screen(b)!Next]_screenVars
  PROVE  ShowInv(b)'
<1>1. ShowTables(b) /\ DeviceFine
  BY DEF ShowInv
<1>2. ASSUME screenJob' = screenJob, ShowTables(b)', DeviceFine' PROVE ShowInv(b)'
  BY <1>2 DEF ShowInv
<1>3. ASSUME NEW p \in ScreenPages(b), Screen(b)!Look(p) PROVE ShowInv(b)'
  <2> DEFINE at == IF \E r \in DOMAIN screenRows : screenRows[r] = screenPage[p].endpoint THEN "done" ELSE "create"
  <2>1. /\ screenPage' = [screenPage EXCEPT ![p].at = at]
        /\ UNCHANGED <<screenNow, screenRows, screenGone, screenRate, screenJob, screenPushed, screenDevice>>
    BY <1>3 DEF Screen!Look
  <2>2. at \in {"new", "create", "done"}
    OBVIOUS
  <2> HIDE DEF at
  <2>3. screenPage' \in [ScreenPages(b) -> [at: {"new", "create", "done"}, endpoint: PushEndpoints]]
    BY <1>1, <2>1, <2>2 DEF ShowTables
  <2>4. ShowTables(b)' /\ DeviceFine'
    BY <1>1, <2>1, <2>3 DEF ShowTables, DeviceFine
  <2> QED
    BY <1>2, <2>1, <2>4
<1>4. ASSUME NEW p \in ScreenPages(b), Screen(b)!Create(p) PROVE ShowInv(b)'
  <2>1. /\ screenPage' = [screenPage EXCEPT ![p].at = "done"]
        /\ screenRows' = [r \in DOMAIN screenRows \cup {p} |-> IF r = p THEN screenPage[p].endpoint ELSE screenRows[r]]
        /\ UNCHANGED <<screenNow, screenGone, screenRate, screenJob, screenPushed, screenDevice>>
    BY <1>4 DEF Screen!Create
  <2>2. screenPage' \in [ScreenPages(b) -> [at: {"new", "create", "done"}, endpoint: PushEndpoints]]
    BY <1>1, <2>1 DEF ShowTables
  <2>3. screenPage[p].endpoint \in PushEndpoints
    BY <1>1 DEF ShowTables
  <2>4. DOMAIN screenRows' \subseteq ScreenPages(b) /\ \A q \in DOMAIN screenRows' : screenRows'[q] \in PushEndpoints
    BY <1>1, <2>1, <2>3 DEF ShowTables
  <2>5. ShowTables(b)' /\ DeviceFine'
    BY <1>1, <2>1, <2>2, <2>4 DEF ShowTables, DeviceFine
  <2> QED
    BY <1>2, <2>1, <2>5
<1>5. ASSUME NEW p \in ScreenPages(b), Screen(b)!Unsubscribe(p) PROVE ShowInv(b)'
  <2>1. /\ screenRows' = Screen(b)!Without(p)
        /\ UNCHANGED <<screenNow, screenPage, screenGone, screenRate, screenJob, screenPushed, screenDevice>>
    BY <1>5 DEF Screen!Unsubscribe
  <2>2. DOMAIN screenRows' \subseteq ScreenPages(b) /\ \A q \in DOMAIN screenRows' : screenRows'[q] \in PushEndpoints
    BY <1>1, <2>1, ShowWithout
  <2>3. ShowTables(b)' /\ DeviceFine'
    BY <1>1, <2>1, <2>2 DEF ShowTables, DeviceFine
  <2> QED
    BY <1>2, <2>1, <2>3
<1>6. ASSUME NEW e \in PushEndpoints, Screen(b)!Expire(e) PROVE ShowInv(b)'
  <2>1. /\ screenGone' = screenGone \cup {e}
        /\ UNCHANGED <<screenNow, screenRows, screenPage, screenRate, screenJob, screenPushed, screenDevice>>
    BY <1>6 DEF Screen!Expire
  <2>2. ShowTables(b)' /\ DeviceFine'
    BY <1>1, <2>1 DEF ShowTables, DeviceFine
  <2> QED
    BY <1>2, <2>1, <2>2
<1>7. ASSUME Screen(b)!Tick PROVE ShowInv(b)'
  <2>1. /\ screenNow < ScreenTime(b) /\ screenNow' = screenNow + 1
        /\ UNCHANGED <<screenRows, screenPage, screenGone, screenRate, screenJob, screenPushed, screenDevice>>
    BY <1>7 DEF Screen!Tick, ScreenTime
  <2>2. ScreenTime(b) \in Nat /\ screenNow \in 0 .. ScreenTime(b)
    BY <1>1, ShowConstants DEF ShowTables, ScreenTime
  <2>3. screenNow' \in 0 .. ScreenTime(b)
    BY <2>1, <2>2
  <2>4. ShowTables(b)' /\ DeviceFine'
    BY <1>1, <2>1, <2>3 DEF ShowTables, DeviceFine
  <2> QED
    BY <1>2, <2>1, <2>4
<1>8. ASSUME Screen(b)!Register \/ Screen(b)!SwitchOff PROVE ShowInv(b)'
  <2>1. /\ screenDevice' \in {[active |-> TRUE, failures |-> 0], [screenDevice EXCEPT !.active = FALSE]}
        /\ UNCHANGED <<screenNow, screenRows, screenPage, screenGone, screenRate, screenJob, screenPushed>>
    BY <1>8 DEF Screen!Register, Screen!SwitchOff
  <2>2. screenDevice \in [active: BOOLEAN, failures: Nat] /\ 0 < MaxPushFailures /\ 0 <= MaxPushFailures
    BY <1>1, ShowConstants DEF ShowTables
  <2>3. screenDevice' \in [active: BOOLEAN, failures: Nat] /\ DeviceFine'
    <3>1. CASE screenDevice' = [active |-> TRUE, failures |-> 0]
      BY <2>2, <3>1 DEF DeviceFine
    <3>2. CASE screenDevice' = [screenDevice EXCEPT !.active = FALSE]
      <4>1. screenDevice'.active = FALSE /\ screenDevice'.failures = screenDevice.failures
        BY <2>2, <3>2
      <4> QED
        BY <1>1, <2>2, <3>2, <4>1 DEF DeviceFine
    <3> QED
      BY <2>1, <3>1, <3>2
  <2>4. ShowTables(b)'
    BY <1>1, <2>1, <2>3 DEF ShowTables
  <2> QED
    BY <1>2, <2>1, <2>3, <2>4
<1>9. ASSUME NEW j \in ScreenJobs(b),
             Screen(b)!Step(j) \/ Screen(b)!Throws(j) \/ \E p \in ScreenPages(b) : Screen(b)!PushFails(j, p)
      PROVE  ShowInv(b)'
  BY <1>9, ShowDelivers, ShowBrowsers
<1>10. CASE UNCHANGED screenVars
  <2>1. ShowTables(b)' /\ DeviceFine'
    BY <1>1, <1>10 DEF screenVars, ShowTables, DeviceFine
  <2> QED
    BY <1>2, <1>10, <2>1 DEF screenVars
<1>11. CASE Screen(b)!Next
  BY <1>3, <1>4, <1>5, <1>6, <1>7, <1>8, <1>9, <1>11 DEF Screen!Next, ScreenPages, ScreenJobs
<1> QED
  BY <1>10, <1>11

LEMMA ShowTells ==
  ASSUME NEW CONSTANT b \in BOOLEAN, ShowInv(b) PROVE Screen(b)!TypeOK /\ Screen(b)!BrokenIsOff
<1>1. ShowTables(b) /\ DeviceFine /\ screenJob \in [ScreenJobs(b) -> Deliveries(b)]
  BY DEF ShowInv
<1>2. MaxPushFailures \in Nat /\ PushTries \in Nat
  BY ShowConstants
<1>3. screenDevice \in [active: BOOLEAN, failures: 0 .. MaxPushFailures]
  <2>1. screenDevice \in [active: BOOLEAN, failures: Nat]
    BY <1>1 DEF ShowTables
  <2>2. screenDevice.failures \in 0 .. MaxPushFailures
    BY <1>1, <1>2, <2>1 DEF DeviceFine
  <2> QED
    BY <2>1, <2>2
<1>4. screenJob \in [ScreenJobs(b) -> [at: PushPoints, count: Nat, left: SUBSET ScreenPages(b), sent: Nat,
                                      tries: 0 .. PushTries, failures: Nat]]
  <2> SUFFICES ASSUME NEW j \in ScreenJobs(b)
               PROVE  screenJob[j] \in [at: PushPoints, count: Nat, left: SUBSET ScreenPages(b), sent: Nat,
                                       tries: 0 .. PushTries, failures: Nat]
    BY <1>1
  <2>1. screenJob[j] \in Deliveries(b) /\ DeliveryFine(screenJob[j])
    BY <1>1 DEF ShowInv
  <2>2. screenJob[j].tries \in 0 .. PushTries
    BY <1>2, <2>1 DEF Deliveries, DeliveryFine
  <2> QED
    BY <2>1, <2>2 DEF Deliveries
<1>5. Screen(b)!TypeOK
  BY <1>1, <1>3, <1>4 DEF Screen!TypeOK, ShowTables, ScreenPages, ScreenJobs, ScreenTime, PushPoints
<1>6. Screen(b)!BrokenIsOff
  <2>1. screenDevice.active \in BOOLEAN /\ screenDevice.failures \in Nat
    BY <1>1 DEF ShowTables
  <2>2. screenDevice.failures >= MaxPushFailures => screenDevice.active # TRUE
    <3>1. screenDevice.active = TRUE => screenDevice.failures < MaxPushFailures
      BY <1>1 DEF DeviceFine
    <3>2. ~(screenDevice.failures >= MaxPushFailures /\ screenDevice.failures < MaxPushFailures)
      BY <1>2, <2>1
    <3> QED
      BY <3>1, <3>2
  <2> QED
    BY <2>1, <2>2 DEF Screen!BrokenIsOff
<1> QED
  BY <1>5, <1>6

(* How much is shown in an hour, when the deliveries do not overlap.  What    *)
(* was shown in the hour up to now is what the counter says, or what the      *)
(* delivery that shows it has read there and adds; each of its browsers is    *)
(* reached once.                                                             *)
PaceTime    == 0 .. MaxPushTime
PushedIn(p, T) == Screen(FALSE)!FoldSet(LAMBDA u, n : p[u] + n, 0, T)
HourFrom(t) == {u \in PaceTime : t <= u /\ u < t + PushHour}
HourTo(t)   == {u \in PaceTime : t < u + PushHour /\ u <= t}
Lately      == PushedIn(screenPushed, HourTo(screenNow))

PaceRows   == [at: PushPoints, count: Nat, left: SUBSET PushPages, sent: Nat, tries: Nat, failures: Nat]
Pushing(r) == r.at \in {"push", "count"} /\ r.sent > 0

Counted ==
  /\ \A u \in PaceTime : screenPushed[u] > 0 => u + PushHour <= screenRate.until
  /\ screenNow < screenRate.until => Lately <= screenRate.n

(* k: what the last hour has shown; d: the rows there are.                   *)
PacedBy(r, k, d) ==
  /\ r.at \in {"rows", "push", "count"} => r.count + 1 <= PushLimit
  /\ r.at = "rows" => k <= r.count
  /\ r.at \in {"push", "count"} => k <= r.count + r.sent
  /\ r.at = "push" => r.left \subseteq d /\ r.sent + Cardinality(r.left) <= Cardinality(PushPages)

MostInAnHour == PushLimit - 1 + Cardinality(PushPages)

PaceInv ==
  /\ \A u \in PaceTime : u > screenNow => screenPushed[u] = 0
  /\ (\A j \in PushJobs : ~Pushing(screenJob[j])) => Counted
  /\ \A j \in PushJobs : PacedBy(screenJob[j], Lately, DOMAIN screenRows)
  /\ \A t \in PaceTime : PushedIn(screenPushed, HourFrom(t)) <= MostInAnHour

LEMMA PaceTyped ==
  ASSUME ShowInv(FALSE)
  PROVE  /\ screenNow \in PaceTime /\ screenNow \in Nat /\ screenPushed \in [PaceTime -> Nat]
         /\ screenRate \in [n: Nat, until: Nat]
         /\ screenJob \in [PushJobs -> PaceRows] /\ DOMAIN screenRows \subseteq PushPages
<1>1. ScreenTime(FALSE) = MaxPushTime /\ ScreenPages(FALSE) = PushPages /\ ScreenJobs(FALSE) = PushJobs /\ MaxPushTime \in Nat
  BY ShowConstants DEF ScreenTime, ScreenPages, ScreenJobs
<1>2. Deliveries(FALSE) = PaceRows
  BY <1>1 DEF Deliveries, PaceRows
<1>3. screenNow \in 0 .. MaxPushTime /\ screenPushed \in [0 .. MaxPushTime -> Nat] /\ DOMAIN screenRows \subseteq PushPages
  BY <1>1 DEF ShowInv, ShowTables
<1>4. screenRate \in [n: Nat, until: Nat] /\ screenJob \in [PushJobs -> PaceRows]
  BY <1>1, <1>2 DEF ShowInv, ShowTables
<1>5. screenNow \in Nat
  BY <1>1, <1>3
<1> QED
  BY <1>3, <1>4, <1>5 DEF PaceTime

LEMMA PaceConstants ==
  /\ IsFiniteSet(PushPages) /\ Cardinality(PushPages) \in Nat /\ PushLimit \in Nat /\ PushLimit >= 1 /\ PushHour \in Nat
  /\ MaxPushTime \in Nat /\ IsFiniteSet(PaceTime) /\ PaceTime \subseteq Nat
<1>1. MaxPushTime \in Nat /\ IsFiniteSet(PushPages) /\ PushLimit \in Nat \ {0} /\ PushHour \in Nat \ {0}
  BY ShowConstants
<1>2. IsFiniteSet(PaceTime) /\ PaceTime \subseteq Nat
  BY <1>1, FS_Interval DEF PaceTime
<1>3. Cardinality(PushPages) \in Nat
  BY <1>1, FS_CardinalityType
<1> QED
  BY <1>1, <1>2, <1>3

LEMMA PushedFolded ==
  ASSUME NEW p, NEW T, IsFiniteSet(T)
  PROVE  \E g : Sums(g, p, T) /\ PushedIn(p, T) = g[T]
<1> DEFINE body(g) == [s \in SUBSET T |-> IF s = {} THEN 0 ELSE p[CHOOSE x \in s : TRUE] + g[s \ {CHOOSE x \in s : TRUE}]]
           g == CHOOSE g : g = body(g)
<1>1. PushedIn(p, T) = g[T]
  BY Zenon DEF PushedIn, Screen!FoldSet, Screen!MapThenFoldSet
<1>2. PICK h : Sums(h, p, T)
  BY SumExists
<1>3. \A e : body(e) = [s \in SUBSET T |-> IF s = {} THEN 0 ELSE p[Taken(s)] + e[Rest(s)]]
  BY Zenon DEF Taken, Rest
<1>4. h = body(h)
  BY <1>2, <1>3, Zenon DEF Sums
<1>5. g = body(g)
  BY <1>4, Zenon
<1>6. Sums(g, p, T)
  BY <1>3, <1>5, Zenon DEF Sums
<1> QED
  BY <1>1, <1>6, Zenon

(* All sums over times, of one function.                                     *)
LEMMA PushedSums ==
  ASSUME NEW p, NEW g, Sums(g, p, PaceTime), NEW A \in SUBSET PaceTime
  PROVE  PushedIn(p, A) = g[A]
<1>1. IsFiniteSet(PaceTime) /\ IsFiniteSet(A)
  BY PaceConstants, FS_Subset
<1>2. PICK h : Sums(h, p, A) /\ PushedIn(p, A) = h[A]
  BY <1>1, PushedFolded
<1>3. h[A] = g[A]
  BY <1>1, <1>2, SumsOfPart
<1> QED
  BY <1>2, <1>3

(* What is shown at times that are not in B counts nothing.                  *)
LEMMA PushedCovers ==
  ASSUME NEW p \in [PaceTime -> Nat], NEW A \in SUBSET PaceTime, NEW B \in SUBSET PaceTime,
         \A u \in A \ B : p[u] = 0
  PROVE  PushedIn(p, A) \in Nat /\ PushedIn(p, B) \in Nat /\ PushedIn(p, A) <= PushedIn(p, B)
<1>1. IsFiniteSet(A) /\ IsFiniteSet(B)
  BY PaceConstants, FS_Subset
<1>2. PICK g : Sums(g, p, A) /\ PushedIn(p, A) = g[A]
  BY <1>1, PushedFolded
<1>3. PICK h : Sums(h, p, B) /\ PushedIn(p, B) = h[B]
  BY <1>1, PushedFolded
<1>4. \A u \in A \cup B : p[u] \in Nat
  OBVIOUS
<1>5. g[A] \in Nat /\ h[B] \in Nat /\ g[A] <= h[B]
  BY <1>1, <1>2, <1>3, <1>4, SumCovers
<1> QED
  BY <1>2, <1>3, <1>5

LEMMA PushedNever ==
  ASSUME NEW p, NEW A \in SUBSET PaceTime, \A u \in A : p[u] = 0
  PROVE  PushedIn(p, A) = 0
<1>1. IsFiniteSet(A)
  BY PaceConstants, FS_Subset
<1>2. PICK g : Sums(g, p, A) /\ PushedIn(p, A) = g[A]
  BY <1>1, PushedFolded
<1> QED
  BY <1>1, <1>2, SumOfNothing

(* One more is shown.                                                        *)
LEMMA PushedDiffers ==
  ASSUME NEW p, NEW q, NEW a \in PaceTime, \A x \in PaceTime : p[x] \in Nat /\ q[x] = IF x = a THEN p[x] + 1 ELSE p[x],
         NEW g, Sums(g, p, PaceTime), NEW h, Sums(h, q, PaceTime)
  PROVE  \A T \in SUBSET PaceTime : h[T] = IF a \in T THEN g[T] + 1 ELSE g[T]
<1>1. IsFiniteSet(PaceTime)
  BY PaceConstants
<1> QED
  BY <1>1, SumDiffers

LEMMA PushedMore ==
  ASSUME NEW p, NEW q, NEW a \in PaceTime, NEW A \in SUBSET PaceTime,
         \A x \in PaceTime : p[x] \in Nat /\ q[x] = IF x = a THEN p[x] + 1 ELSE p[x]
  PROVE  PushedIn(q, A) = IF a \in A THEN PushedIn(p, A) + 1 ELSE PushedIn(p, A)
<1>1. IsFiniteSet(PaceTime)
  BY PaceConstants
<1>2. PICK g : Sums(g, p, PaceTime)
  BY <1>1, SumExists
<1>3. PICK h : Sums(h, q, PaceTime)
  BY <1>1, SumExists
<1>4. \A T \in SUBSET PaceTime : h[T] = IF a \in T THEN g[T] + 1 ELSE g[T]
  BY <1>2, <1>3, PushedDiffers
<1>5. h[A] = IF a \in A THEN g[A] + 1 ELSE g[A]
  BY <1>4
<1>6. PushedIn(p, A) = g[A] /\ PushedIn(q, A) = h[A]
  BY <1>2, <1>3, PushedSums
<1> QED
  BY <1>5, <1>6

LEMMA PacedKept ==
  ASSUME NEW r \in PaceRows, NEW k \in Nat, NEW m \in Nat, m <= k, NEW d, NEW e, d \subseteq e, PacedBy(r, k, d)
  PROVE  PacedBy(r, m, e)
<1>1. r.count \in Nat /\ r.sent \in Nat
  BY DEF PaceRows
<1>2. r.at = "rows" => m <= r.count
  BY <1>1 DEF PacedBy
<1>3. r.at \in {"push", "count"} => m <= r.count + r.sent
  BY <1>1 DEF PacedBy
<1>4. r.at = "push" => r.left \subseteq e
  BY DEF PacedBy
<1> QED
  BY <1>2, <1>3, <1>4 DEF PacedBy

LEMMA LatelyTyped == ASSUME ShowInv(FALSE) PROVE Lately \in Nat
<1>1. screenPushed \in [PaceTime -> Nat] /\ HourTo(screenNow) \in SUBSET PaceTime
  BY PaceTyped DEF HourTo
<1> QED
  BY <1>1, PushedCovers DEF Lately

LEMMA PaceInit == ASSUME Screen(FALSE)!Init, ShowInv(FALSE) PROVE PaceInv
<1>1. /\ \A u \in PaceTime : screenPushed[u] = 0
      /\ \A j \in PushJobs : screenJob[j].at = "new"
      /\ screenRate.n = 0 /\ screenRate.until = 0 /\ screenNow = 0
  BY DEF Screen!Init, Screen!NoJob, PaceTime
<1>2. \A A \in SUBSET PaceTime : PushedIn(screenPushed, A) = 0
  BY <1>1, PushedNever
<1>3. Counted
  BY <1>1, PaceTyped DEF Counted
<1>4. \A j \in PushJobs : PacedBy(screenJob[j], Lately, DOMAIN screenRows)
  BY <1>1 DEF PacedBy
<1>5. 0 <= MostInAnHour
  BY PaceConstants DEF MostInAnHour
<1>6. \A t \in PaceTime : PushedIn(screenPushed, HourFrom(t)) <= MostInAnHour
  BY <1>2, <1>5 DEF HourFrom
<1> QED
  BY <1>1, <1>3, <1>4, <1>6 DEF PaceInv

(* A delivery moves, and no other is at work.                                *)
LEMMA PaceMoves ==
  ASSUME ShowInv(FALSE), PaceInv, NEW j \in PushJobs, NEW x \in PaceRows, screenJob' = [screenJob EXCEPT ![j] = x],
         \A i \in PushJobs : i # j => ~AtWork(i),
         PacedBy(x, Lately', DOMAIN screenRows'), ~Pushing(x) => Counted',
         \A u \in PaceTime : u > screenNow' => screenPushed'[u] = 0,
         \A t \in PaceTime : PushedIn(screenPushed', HourFrom(t)) <= MostInAnHour
  PROVE  PaceInv'
<1>1. \A i \in PushJobs : screenJob'[i] = IF i = j THEN x ELSE screenJob[i]
  BY PaceTyped
<1>2. \A i \in PushJobs : PacedBy(screenJob'[i], Lately', DOMAIN screenRows')
  <2> SUFFICES ASSUME NEW i \in PushJobs PROVE PacedBy(screenJob'[i], Lately', DOMAIN screenRows')
    OBVIOUS
  <2>1. CASE i = j
    BY <1>1, <2>1
  <2>2. CASE i # j
    <3>1. screenJob'[i].at \in {"new", "done"}
      BY <1>1, <2>2 DEF AtWork
    <3> QED
      BY <3>1 DEF PacedBy
  <2> QED
    BY <2>1, <2>2
<1>3. (\A i \in PushJobs : ~Pushing(screenJob'[i])) => Counted'
  BY <1>1
<1>4. (\A i \in PushJobs : ~Pushing(screenJob[i]))' => Counted'
  BY <1>3 DEF Pushing
<1>5. (\A i \in PushJobs : PacedBy(screenJob[i], Lately, DOMAIN screenRows))'
  BY <1>2 DEF PacedBy
<1>6. (\A u \in PaceTime : u > screenNow => screenPushed[u] = 0)'
  BY DEF PaceTime
<1>7. (\A t \in PaceTime : PushedIn(screenPushed, HourFrom(t)) <= MostInAnHour)'
  BY DEF PaceTime, HourFrom, MostInAnHour
<1> QED
  BY <1>4, <1>5, <1>6, <1>7 DEF PaceInv

(* It moves, shows nothing, and has shown nothing that is not counted.       *)
LEMMA PaceMovesOn ==
  ASSUME ShowInv(FALSE), PaceInv, NEW j \in PushJobs, NEW x \in PaceRows, screenJob' = [screenJob EXCEPT ![j] = x],
         \A i \in PushJobs : i # j => ~AtWork(i), ~Pushing(screenJob[j]),
         PacedBy(x, Lately, DOMAIN screenRows), UNCHANGED <<screenNow, screenRows, screenRate, screenPushed>>
  PROVE  PaceInv'
<1>1. \A i \in PushJobs : ~Pushing(screenJob[i])
  BY DEF AtWork, Pushing
<1>2. Counted
  BY <1>1 DEF PaceInv
<1>3. Lately' = Lately
  BY DEF Lately
<1>4. Counted'
  BY <1>2, <1>3 DEF Counted
<1>5. PacedBy(x, Lately', DOMAIN screenRows')
  BY <1>3
<1>6. /\ \A u \in PaceTime : u > screenNow' => screenPushed'[u] = 0
      /\ \A t \in PaceTime : PushedIn(screenPushed', HourFrom(t)) <= MostInAnHour
  BY DEF PaceInv
<1> QED
  BY <1>4, <1>5, <1>6, PaceMoves

(* What the counter says, when all that was shown is counted.                *)
LEMMA PaceRead ==
  ASSUME ShowInv(FALSE), Counted
  PROVE  Screen(FALSE)!Count \in Nat /\ Lately <= Screen(FALSE)!Count
<1>1. Screen(FALSE)!Count = IF screenNow < screenRate.until THEN screenRate.n ELSE 0
  BY DEF Screen!Count
<1>2. screenRate.n \in Nat /\ screenRate.until \in Nat /\ screenNow \in Nat /\ screenPushed \in [PaceTime -> Nat]
  BY PaceTyped
<1>3. CASE screenNow < screenRate.until
  BY <1>1, <1>2, <1>3 DEF Counted
<1>4. CASE ~(screenNow < screenRate.until)
  <2>1. ASSUME NEW u \in HourTo(screenNow) PROVE screenPushed[u] = 0
    <3>1. u \in PaceTime /\ u \in Nat /\ screenNow < u + PushHour /\ screenPushed[u] \in Nat /\ PushHour \in Nat
      BY <1>2, <2>1, PaceConstants DEF HourTo
    <3>2. screenPushed[u] > 0 => u + PushHour <= screenRate.until
      BY <3>1 DEF Counted
    <3> QED
      BY <1>2, <1>4, <3>1, <3>2
  <2>2. Lately = 0
    BY <2>1, PushedNever DEF Lately, HourTo
  <2>3. Screen(FALSE)!Count = 0
    BY <1>1, <1>4
  <2>4. \A n, k : n = 0 /\ k = 0 => n \in Nat /\ k <= n
    OBVIOUS
  <2> QED
    BY <2>2, <2>3, <2>4, Zenon
<1> QED
  BY <1>3, <1>4

LEMMA PaceWaits ==
  ASSUME ShowInv(FALSE), ScreenInv, PaceInv, NEW j \in PushJobs,
         \/ Screen(FALSE)!Begin(j) \/ Screen(FALSE)!ReadRate(j) \/ Screen(FALSE)!ReadRows(j)
         \/ Screen(FALSE)!ReadDevice(j) \/ Screen(FALSE)!SendDevice(j)
  PROVE  PaceInv'
<1> DEFINE r == screenJob[j]
           After == Screen(FALSE)!AfterBrowsers(j)
           Still == UNCHANGED <<screenNow, screenRows, screenRate, screenPushed>>
<1>1. r \in PaceRows /\ PacedBy(r, Lately, DOMAIN screenRows) /\ Lately \in Nat
  BY PaceTyped, LatelyTyped DEF PaceInv
<1>2. After \in {"done", "device"}
  BY DEF Screen!AfterBrowsers
<1>3. ASSUME NEW x \in PaceRows, screenJob' = [screenJob EXCEPT ![j] = x], Still, PacedBy(x, Lately, DOMAIN screenRows),
             r.at \notin {"push", "count"}, AtWork(j) \/ \A i \in PushJobs : ~AtWork(i)
      PROVE  PaceInv'
  <2>1. \A i \in PushJobs : i # j => ~AtWork(i)
    BY <1>3 DEF ScreenInv, ScreenAlone
  <2>2. ~Pushing(r)
    BY <1>3 DEF Pushing
  <2> QED
    BY <1>3, <2>1, <2>2, PaceMovesOn
<1> HIDE DEF After
<1>4. CASE Screen(FALSE)!Begin(j)
  <2> DEFINE x == [r EXCEPT !.at = "rate"]
  <2>1. r.at = "new" /\ screenJob' = [screenJob EXCEPT ![j] = x] /\ Still
    BY <1>4 DEF Screen!Begin
  <2>2. \A i \in PushJobs : ~AtWork(i)
    BY <1>4 DEF Screen!Begin, Screen!Busy, AtWork
  <2>3. x \in PaceRows /\ x.at = "rate"
    BY <1>1 DEF PaceRows, PushPoints
  <2> HIDE DEF x
  <2>4. PacedBy(x, Lately, DOMAIN screenRows)
    BY <2>3 DEF PacedBy
  <2> QED
    BY <1>3, <2>1, <2>2, <2>3, <2>4
<1>5. CASE Screen(FALSE)!ReadRate(j)
  <2> DEFINE n == Screen(FALSE)!Count
             at == IF n >= PushLimit THEN After ELSE "rows"
             x == [r EXCEPT !.count = n, !.at = at]
  <2>1. r.at = "rate" /\ screenJob' = [screenJob EXCEPT ![j] = x] /\ Still
    BY <1>5 DEF Screen!ReadRate, After
  <2>2. AtWork(j)
    BY <2>1 DEF AtWork
  <2>3. \A i \in PushJobs : ~Pushing(screenJob[i])
    <3>1. \A i \in PushJobs : i # j => ~AtWork(i)
      BY <2>2 DEF ScreenInv, ScreenAlone
    <3> QED
      BY <2>1, <3>1 DEF AtWork, Pushing
  <2>4. n \in Nat /\ Lately <= n
    BY <2>3, PaceRead DEF PaceInv
  <2> HIDE DEF n
  <2>5. at \in PushPoints /\ at \notin {"push", "count"} /\ (at = "rows" => n + 1 <= PushLimit)
    BY <1>2, <2>4, PaceConstants DEF PushPoints
  <2> HIDE DEF at
  <2>6. x \in PaceRows /\ x.at = at /\ x.count = n
    BY <1>1, <2>4, <2>5 DEF PaceRows
  <2> HIDE DEF x
  <2>7. PacedBy(x, Lately, DOMAIN screenRows)
    BY <2>4, <2>5, <2>6 DEF PacedBy
  <2> QED
    BY <1>3, <2>1, <2>2, <2>6, <2>7
<1>6. CASE Screen(FALSE)!ReadRows(j)
  <2> DEFINE d == DOMAIN screenRows
             at == IF screenRows = <<>> THEN After ELSE "push"
             x == [r EXCEPT !.left = d, !.sent = 0, !.at = at]
  <2>1. r.at = "rows" /\ screenJob' = [screenJob EXCEPT ![j] = x] /\ Still
    BY <1>6 DEF Screen!ReadRows, After
  <2>2. AtWork(j)
    BY <2>1 DEF AtWork
  <2>3. d \in SUBSET PushPages /\ Cardinality(d) \in Nat /\ Cardinality(d) <= Cardinality(PushPages)
    BY PaceTyped, PaceConstants, FS_Subset, FS_CardinalityType
  <2>4. r.count \in Nat /\ r.count + 1 <= PushLimit /\ Lately <= r.count
    BY <1>1, <2>1 DEF PacedBy, PaceRows
  <2>5. at \in PushPoints /\ at \notin {"rows", "count"}
    BY <1>2 DEF PushPoints
  <2>6. x \in PaceRows /\ x.at = at /\ x.count = r.count /\ x.sent = 0 /\ x.left = d
    BY <1>1, <2>3, <2>5 DEF PaceRows
  <2>7. 0 + Cardinality(d) <= Cardinality(PushPages) /\ Lately <= r.count + 0
    BY <2>3, <2>4
  <2> HIDE DEF x, at
  <2>8. PacedBy(x, Lately, d)
    BY <2>4, <2>5, <2>6, <2>7 DEF PacedBy
  <2> QED
    BY <1>3, <2>1, <2>2, <2>6, <2>8
<1>7. CASE Screen(FALSE)!ReadDevice(j)
  <2> DEFINE at == IF screenDevice.active THEN "send" ELSE "done"
             f == screenDevice.failures
             x == [r EXCEPT !.at = at, !.failures = f]
  <2>1. r.at = "device" /\ screenJob' = [screenJob EXCEPT ![j] = x] /\ Still
    BY <1>7 DEF Screen!ReadDevice
  <2>2. AtWork(j) /\ f \in Nat
    BY <2>1 DEF AtWork, ShowInv, ShowTables
  <2>3. at \in {"send", "done"}
    OBVIOUS
  <2> HIDE DEF at, f
  <2>4. x \in PaceRows /\ x.at = at
    BY <1>1, <2>2, <2>3 DEF PaceRows, PushPoints
  <2> HIDE DEF x
  <2>5. PacedBy(x, Lately, DOMAIN screenRows)
    BY <2>3, <2>4 DEF PacedBy
  <2> QED
    BY <1>3, <2>1, <2>2, <2>4, <2>5
<1>8. CASE Screen(FALSE)!SendDevice(j)
  <2> DEFINE x == [r EXCEPT !.at = "done"]
  <2>1. r.at = "send" /\ screenJob' = [screenJob EXCEPT ![j] = x] /\ Still
    BY <1>8 DEF Screen!SendDevice
  <2>2. AtWork(j)
    BY <2>1 DEF AtWork
  <2>3. x \in PaceRows /\ x.at = "done"
    BY <1>1 DEF PaceRows, PushPoints
  <2> HIDE DEF x
  <2>4. PacedBy(x, Lately, DOMAIN screenRows)
    BY <2>3 DEF PacedBy
  <2> QED
    BY <1>3, <2>1, <2>2, <2>3, <2>4
<1> QED
  BY <1>4, <1>5, <1>6, <1>7, <1>8

(* An hour in which something is shown now began within the last one.        *)
LEMMA HourToNow ==
  ASSUME ShowInv(FALSE), PaceInv, NEW t \in PaceTime, screenNow \in HourFrom(t)
  PROVE  PushedIn(screenPushed, HourFrom(t)) \in Nat /\ PushedIn(screenPushed, HourFrom(t)) <= Lately
<1>1. screenNow \in Nat /\ screenPushed \in [PaceTime -> Nat] /\ PushHour \in Nat /\ PaceTime \subseteq Nat
  BY PaceTyped, PaceConstants
<1>2. HourFrom(t) \in SUBSET PaceTime /\ HourTo(screenNow) \in SUBSET PaceTime
  BY DEF HourFrom, HourTo
<1>3. ASSUME NEW u \in HourFrom(t) \ HourTo(screenNow) PROVE screenPushed[u] = 0
  <2>1. t \in Nat /\ u \in Nat /\ u \in PaceTime /\ t <= u /\ screenNow < t + PushHour
    BY <1>1, <1>3 DEF HourFrom
  <2>2. screenNow < u + PushHour
    BY <1>1, <2>1
  <2>3. u > screenNow
    BY <1>1, <1>3, <2>1, <2>2 DEF HourTo
  <2> QED
    BY <2>1, <2>3 DEF PaceInv
<1> QED
  BY <1>1, <1>2, <1>3, PushedCovers DEF Lately

(* One browser less is left.                                                 *)
LEMMA OneLeftLess ==
  ASSUME ShowInv(FALSE), NEW j \in PushJobs, NEW p \in screenJob[j].left
  PROVE  /\ Cardinality(screenJob[j].left) \in Nat /\ Cardinality(screenJob[j].left \ {p}) \in Nat
         /\ Cardinality(screenJob[j].left) = Cardinality(screenJob[j].left \ {p}) + 1
<1>1. screenJob[j].left \in SUBSET PushPages
  BY PaceTyped DEF PaceRows
<1>2. IsFiniteSet(screenJob[j].left) /\ IsFiniteSet(screenJob[j].left \ {p})
  BY <1>1, PaceConstants, FS_Subset
<1>3. Cardinality(screenJob[j].left \ {p}) = Cardinality(screenJob[j].left) - 1
  BY <1>2, FS_RemoveElement
<1> QED
  BY <1>2, <1>3, FS_CardinalityType

LEMMA PaceCounts ==
  ASSUME ShowInv(FALSE), ScreenInv, PaceInv, NEW j \in PushJobs, Screen(FALSE)!SetRate(j)
  PROVE  PaceInv'
<1> DEFINE r == screenJob[j]
           After == Screen(FALSE)!AfterBrowsers(j)
           x == [r EXCEPT !.at = After]
<1>1. r \in PaceRows /\ PacedBy(r, Lately, DOMAIN screenRows) /\ Lately \in Nat
  BY PaceTyped, LatelyTyped DEF PaceInv
<1>2. After \in {"done", "device"}
  BY DEF Screen!AfterBrowsers
<1>3. /\ r.at = "count" /\ screenJob' = [screenJob EXCEPT ![j] = x]
      /\ screenRate' = [n |-> r.count + r.sent, until |-> screenNow + PushHour]
      /\ UNCHANGED <<screenNow, screenRows, screenPushed>>
  BY DEF Screen!SetRate
<1> HIDE DEF After
<1>4. x \in PaceRows /\ x.at = After
  BY <1>1, <1>2 DEF PaceRows, PushPoints
<1> HIDE DEF x
<1>5. \A i \in PushJobs : i # j => ~AtWork(i)
  BY <1>3 DEF ScreenInv, ScreenAlone, AtWork
<1>6. PacedBy(x, Lately', DOMAIN screenRows')
  BY <1>2, <1>4 DEF PacedBy
<1>7. Lately' = Lately
  BY <1>3 DEF Lately
<1>8. Lately <= r.count + r.sent
  BY <1>1, <1>3 DEF PacedBy
<1>9. screenRate'.n = r.count + r.sent /\ screenRate'.until = screenNow + PushHour
  BY <1>3
<1>10. \A u \in PaceTime : screenPushed[u] > 0 => u + PushHour <= screenNow + PushHour
  <2>1. screenNow \in Nat /\ PushHour \in Nat /\ PaceTime \subseteq Nat /\ screenPushed \in [PaceTime -> Nat]
    BY PaceTyped, PaceConstants
  <2>2. ASSUME NEW u \in PaceTime, screenPushed[u] > 0 PROVE u <= screenNow
    <3>1. ~(u > screenNow)
      BY <2>2 DEF PaceInv
    <3> QED
      BY <2>1, <3>1
  <2> QED
    BY <2>1, <2>2
<1>11. Counted'
  <2>1. \A u \in PaceTime : screenPushed'[u] > 0 => u + PushHour <= screenRate'.until
    BY <1>3, <1>9, <1>10
  <2>2. Lately' <= screenRate'.n
    BY <1>7, <1>8, <1>9
  <2> QED
    BY <2>1, <2>2 DEF Counted, PaceTime
<1>12. /\ \A u \in PaceTime : u > screenNow' => screenPushed'[u] = 0
       /\ \A t \in PaceTime : PushedIn(screenPushed', HourFrom(t)) <= MostInAnHour
  BY <1>3 DEF PaceInv
<1> QED
  BY <1>3, <1>4, <1>5, <1>6, <1>11, <1>12, PaceMoves

(* One more is shown, or a row is gone: the browser is not left.             *)
LEMMA PacePushes ==
  ASSUME ShowInv(FALSE), ScreenInv, PaceInv, NEW j \in PushJobs, NEW p \in PushPages,
         Screen(FALSE)!Push(j, p) \/ Screen(FALSE)!PushGone(j, p)
  PROVE  PaceInv'
<1> DEFINE r == screenJob[j]
           After == Screen(FALSE)!AfterBrowsers(j)
           left  == r.left \ {p}
           seen  == Screen(FALSE)!Push(j, p)
           more  == IF seen THEN 1 ELSE 0
           sent  == r.sent + more
           at    == IF left # {} THEN "push" ELSE IF sent > 0 THEN "count" ELSE After
           x     == [r EXCEPT !.left = left, !.sent = sent, !.at = at]
<1>1. r \in PaceRows /\ PacedBy(r, Lately, DOMAIN screenRows) /\ Lately \in Nat
  BY PaceTyped, LatelyTyped DEF PaceInv
<1>2. /\ screenNow \in PaceTime /\ screenNow \in Nat /\ screenPushed \in [PaceTime -> Nat] /\ PushHour \in Nat /\ PushHour >= 1
      /\ PushLimit \in Nat /\ Cardinality(PushPages) \in Nat
  BY PaceTyped, PaceConstants, ShowConstants
<1>3. r.at = "push" /\ p \in r.left /\ UNCHANGED <<screenNow, screenRate>>
  BY DEF Screen!Push, Screen!PushGone
<1>4. /\ r.count \in Nat /\ r.sent \in Nat /\ r.left \subseteq DOMAIN screenRows /\ r.count + 1 <= PushLimit
      /\ Lately <= r.count + r.sent /\ r.sent + Cardinality(r.left) <= Cardinality(PushPages)
  BY <1>1, <1>3 DEF PaceRows, PacedBy
<1>5. After \in {"done", "device"}
  BY DEF Screen!AfterBrowsers
<1>6. screenJob' = [screenJob EXCEPT ![j] = x]
  <2>1. seen => Screen(FALSE)!Onward(j, left, r.sent + 1)
    BY <1>3, <1>4 DEF Screen!Push
  <2>2. Screen(FALSE)!PushGone(j, p) => Screen(FALSE)!Onward(j, left, r.sent)
    BY DEF Screen!PushGone
  <2>3. seen \/ (~seen /\ Screen(FALSE)!PushGone(j, p))
    BY Zenon
  <2> HIDE DEF seen
  <2>4. r.sent + 0 = r.sent
    BY <1>4
  <2>5. Screen(FALSE)!Onward(j, left, sent)
    BY <2>1, <2>2, <2>3, <2>4
  <2> QED
    BY <2>5 DEF Screen!Onward
<1>7. more \in {0, 1} /\ sent \in Nat
  <2>1. more \in {0, 1}
    OBVIOUS
  <2> HIDE DEF more
  <2> QED
    BY <1>4, <2>1
<1>8. Cardinality(left) \in Nat /\ Cardinality(r.left) = Cardinality(left) + 1
  BY <1>3, OneLeftLess
<1>9. DOMAIN screenRows' \subseteq DOMAIN screenRows /\ left \subseteq DOMAIN screenRows'
  <2>1. seen => screenRows' = screenRows
    BY DEF Screen!Push
  <2>2. Screen(FALSE)!PushGone(j, p) => DOMAIN screenRows' = DOMAIN screenRows \ {p}
    BY DEF Screen!PushGone, Screen!Without
  <2> QED
    BY <1>4, <2>1, <2>2
<1>10. /\ \A u \in PaceTime : screenPushed'[u] = IF u = screenNow THEN screenPushed[u] + more ELSE screenPushed[u]
  <2>1. seen => screenPushed' = [screenPushed EXCEPT ![screenNow] = screenPushed[screenNow] + 1]
    BY DEF Screen!Push
  <2>2. ~seen => screenPushed' = screenPushed
    BY DEF Screen!PushGone
  <2>3. CASE seen
    BY <1>2, <2>1, <2>3
  <2>4. CASE ~seen
    <3>1. \A u \in PaceTime : screenPushed[u] + 0 = screenPushed[u]
      BY <1>2
    <3> QED
      BY <2>2, <2>4, <3>1
  <2> QED
    BY <2>3, <2>4
<1>11. ASSUME NEW A \in SUBSET PaceTime
       PROVE  PushedIn(screenPushed', A) = IF screenNow \in A THEN PushedIn(screenPushed, A) + more ELSE PushedIn(screenPushed, A)
  <2>1. PushedIn(screenPushed, A) \in Nat
    BY <1>2, PushedCovers
  <2>2. CASE more = 1
    <3>1. \A u \in PaceTime : screenPushed[u] \in Nat
      BY <1>2
    <3>2. \A u \in PaceTime : screenPushed'[u] = IF u = screenNow THEN screenPushed[u] + 1 ELSE screenPushed[u]
      BY <1>10, <2>2, Zenon
    <3> HIDE DEF more
    <3> QED
      BY <1>2, <2>2, <3>1, <3>2, PushedMore
  <2>3. CASE more = 0
    <3>1. screenPushed' = screenPushed
      <4> SUFFICES ASSUME seen PROVE FALSE
        BY DEF Screen!PushGone
      <4> HIDE DEF seen
      <4>1. more = 1
        BY DEF more
      <4> HIDE DEF more
      <4> QED
        BY <2>3, <4>1
    <3> HIDE DEF more
    <3> QED
      BY <2>1, <2>3, <3>1
  <2> QED
    BY <1>7, <2>2, <2>3
<1> HIDE DEF more, seen
<1>12. Lately' = Lately + more
  <2>1. screenNow \in HourTo(screenNow)
    BY <1>2 DEF HourTo
  <2>2. HourTo(screenNow) \in SUBSET PaceTime
    BY DEF HourTo
  <2>3. PushedIn(screenPushed', HourTo(screenNow)) = Lately + more
    BY <1>11, <2>1, <2>2 DEF Lately
  <2> QED
    BY <1>3, <2>3 DEF Lately
<1>13. Lately' <= r.count + sent
  <2> HIDE DEF r
  <2>1. sent = r.sent + more
    OBVIOUS
  <2> QED
    BY <1>1, <1>4, <1>7, <1>12, <2>1
<1>14. sent + Cardinality(left) <= Cardinality(PushPages)
  <2> DEFINE c == Cardinality(left)
  <2>1. c \in Nat /\ Cardinality(r.left) = c + 1
    BY <1>8
  <2> HIDE DEF r, c
  <2>2. sent <= r.sent + 1
    BY <1>4, <1>7
  <2>3. r.sent + (c + 1) <= Cardinality(PushPages)
    BY <1>4, <2>1
  <2> HIDE DEF sent
  <2>4. sent + c <= Cardinality(PushPages)
    BY <1>2, <1>4, <1>7, <2>1, <2>2, <2>3
  <2> QED
    BY <2>4 DEF c
<1>15. at \in PushPoints /\ at # "rows" /\ left \in SUBSET PushPages /\ (sent > 0 => at \in {"push", "count"})
  BY <1>1, <1>5 DEF PushPoints, PaceRows
<1>16. at = "count" \/ at = "push" \/ at \in {"done", "device"}
  BY <1>5
<1> HIDE DEF at, sent, After
<1>17. x \in PaceRows /\ x.at = at /\ x.count = r.count /\ x.sent = sent /\ x.left = left
  BY <1>1, <1>7, <1>15 DEF PaceRows
<1> HIDE DEF x, left
<1>18. PacedBy(x, Lately', DOMAIN screenRows')
  BY <1>4, <1>9, <1>13, <1>14, <1>15, <1>17 DEF PacedBy
<1>19. \A i \in PushJobs : i # j => ~AtWork(i)
  BY <1>3 DEF ScreenInv, ScreenAlone, AtWork
<1>20. ~Pushing(x) => Counted'
  <2> SUFFICES ASSUME ~Pushing(x) PROVE Counted'
    OBVIOUS
  <2>1. sent = 0
    BY <1>7, <1>15, <1>17 DEF Pushing
  <2>2. r.sent = 0 /\ more = 0
    BY <1>4, <1>7, <2>1 DEF sent
  <2>3. \A i \in PushJobs : ~Pushing(screenJob[i])
    BY <1>19, <2>2 DEF Pushing, AtWork
  <2>4. Counted /\ Lately' = Lately
    BY <1>1, <1>12, <2>2, <2>3 DEF PaceInv
  <2>5. \A u \in PaceTime : screenPushed'[u] = screenPushed[u]
    BY <1>2, <1>10, <2>2
  <2>6. screenRate' = screenRate /\ screenNow' = screenNow
    BY <1>3
  <2> QED
    BY <2>4, <2>5, <2>6 DEF Counted, PaceTime
<1>21. \A u \in PaceTime : u > screenNow' => screenPushed'[u] = 0
  <2> SUFFICES ASSUME NEW u \in PaceTime, u > screenNow PROVE screenPushed'[u] = 0
    BY <1>3
  <2>1. u \in Nat /\ u # screenNow
    BY <1>2, PaceConstants
  <2> QED
    BY <1>10, <2>1 DEF PaceInv
<1>22. ASSUME NEW t \in PaceTime PROVE PushedIn(screenPushed', HourFrom(t)) <= MostInAnHour
  <2>1. HourFrom(t) \in SUBSET PaceTime
    BY DEF HourFrom
  <2>2. CASE screenNow \notin HourFrom(t)
    BY <1>11, <2>1, <2>2 DEF PaceInv
  <2>3. CASE screenNow \in HourFrom(t)
    <3> DEFINE w == PushedIn(screenPushed, HourFrom(t))
               k == Lately
               c == Cardinality(left)
               d == Cardinality(PushPages)
    <3>1. PushedIn(screenPushed', HourFrom(t)) = w + more
      BY <1>11, <2>1, <2>3
    <3>2. w \in Nat /\ w <= k
      BY <2>3, HourToNow
    <3>3. k \in Nat /\ c \in Nat /\ d \in Nat
      BY <1>1, <1>2, <1>8
    <3>4. k <= r.count + r.sent /\ sent + c <= d /\ r.count + 1 <= PushLimit /\ sent = r.sent + more
      BY <1>4, <1>14 DEF sent
    <3> HIDE DEF w, k, c, d, r
    <3>5. w + more <= PushLimit - 1 + d
      BY <1>2, <1>4, <1>7, <3>2, <3>3, <3>4
    <3> QED
      BY <3>1, <3>5 DEF MostInAnHour, d
  <2> QED
    BY <2>2, <2>3
<1> QED
  BY <1>6, <1>17, <1>18, <1>19, <1>20, <1>21, <1>22, PaceMoves

LEMMA PaceTicks == ASSUME ShowInv(FALSE), PaceInv, Screen(FALSE)!Tick PROVE PaceInv'
<1>1. screenNow' = screenNow + 1 /\ UNCHANGED <<screenRows, screenRate, screenJob, screenPushed>>
  BY DEF Screen!Tick
<1>2. /\ screenNow \in Nat /\ screenPushed \in [PaceTime -> Nat] /\ screenRate.until \in Nat /\ PushHour \in Nat
      /\ PaceTime \subseteq Nat
  BY PaceTyped, PaceConstants
<1>3. Lately' \in Nat /\ Lately \in Nat /\ Lately' <= Lately
  <2>1. HourTo(screenNow') \in SUBSET PaceTime /\ HourTo(screenNow) \in SUBSET PaceTime
    BY DEF HourTo
  <2>2. ASSUME NEW u \in HourTo(screenNow') \ HourTo(screenNow) PROVE screenPushed[u] = 0
    <3>1. u \in PaceTime /\ u \in Nat /\ screenNow + 1 < u + PushHour /\ ~(screenNow < u + PushHour /\ u <= screenNow)
      BY <1>1, <1>2, <2>2 DEF HourTo
    <3>2. u > screenNow
      BY <1>2, <3>1
    <3> QED
      BY <3>1, <3>2 DEF PaceInv
  <2> DEFINE d == HourTo(screenNow')
  <2>3. PushedIn(screenPushed, d) \in Nat /\ Lately \in Nat /\ PushedIn(screenPushed, d) <= Lately
    BY <1>2, <2>1, <2>2, PushedCovers DEF Lately
  <2>4. Lately' = PushedIn(screenPushed, d)
    BY <1>1 DEF Lately
  <2> QED
    BY <2>3, <2>4
<1>4. (\A u \in PaceTime : u > screenNow => screenPushed[u] = 0)'
  <2> SUFFICES ASSUME NEW u \in PaceTime, u > screenNow + 1 PROVE screenPushed[u] = 0
    BY <1>1 DEF PaceTime
  <2>1. u > screenNow
    BY <1>2
  <2> QED
    BY <2>1 DEF PaceInv
<1>5. Counted => Counted'
  <2> SUFFICES ASSUME Counted PROVE Counted'
    OBVIOUS
  <2>1. screenNow' < screenRate.until => Lately' <= screenRate.n
    <3> DEFINE k == Lately
               m == Lately'
    <3>1. screenNow < screenRate.until => k <= screenRate.n
      BY DEF Counted
    <3>2. k \in Nat /\ m \in Nat /\ m <= k /\ screenRate.n \in Nat
      BY <1>3, PaceTyped
    <3> HIDE DEF k, m
    <3>3. screenNow' < screenRate.until => m <= screenRate.n
      BY <1>1, <1>2, <3>1, <3>2
    <3> QED
      BY <3>3 DEF m
  <2> QED
    BY <1>1, <2>1 DEF Counted, PaceTime
<1>6. (\A j \in PushJobs : PacedBy(screenJob[j], Lately, DOMAIN screenRows))'
  <2>1. ASSUME NEW j \in PushJobs PROVE PacedBy(screenJob[j], Lately', DOMAIN screenRows)
    <3>1. screenJob[j] \in PaceRows /\ PacedBy(screenJob[j], Lately, DOMAIN screenRows)
      BY PaceTyped DEF PaceInv
    <3> QED
      BY <1>3, <3>1, PacedKept
  <2> QED
    BY <1>1, <2>1 DEF PacedBy
<1>7. (\A t \in PaceTime : PushedIn(screenPushed, HourFrom(t)) <= MostInAnHour)'
  BY <1>1 DEF PaceInv, PaceTime, HourFrom, MostInAnHour
<1>8. ((\A j \in PushJobs : ~Pushing(screenJob[j])) => Counted)'
  BY <1>1, <1>5 DEF PaceInv, Pushing
<1> QED
  BY <1>4, <1>6, <1>7, <1>8 DEF PaceInv

(* What changes neither the counter, a delivery, nor what was shown.         *)
LEMMA PaceLooks ==
  ASSUME ShowInv(FALSE), PaceInv, UNCHANGED <<screenNow, screenRate, screenJob, screenPushed>>,
         DOMAIN screenRows \subseteq DOMAIN screenRows'
  PROVE  PaceInv'
<1>1. Lately' = Lately /\ Lately \in Nat
  BY LatelyTyped DEF Lately
<1>2. (\A j \in PushJobs : PacedBy(screenJob[j], Lately, DOMAIN screenRows))'
  <2>1. ASSUME NEW j \in PushJobs PROVE PacedBy(screenJob[j], Lately, DOMAIN screenRows')
    <3>1. screenJob[j] \in PaceRows /\ PacedBy(screenJob[j], Lately, DOMAIN screenRows) /\ Lately <= Lately
      BY <1>1, PaceTyped DEF PaceInv
    <3> QED
      BY <1>1, <3>1, PacedKept
  <2> QED
    BY <1>1, <2>1 DEF PacedBy
<1>3. ((\A j \in PushJobs : ~Pushing(screenJob[j])) => Counted)'
  BY <1>1 DEF PaceInv, Pushing, Counted, PaceTime
<1>4. (\A t \in PaceTime : PushedIn(screenPushed, HourFrom(t)) <= MostInAnHour)'
  BY DEF PaceInv, PaceTime, HourFrom, MostInAnHour
<1>5. (\A u \in PaceTime : u > screenNow => screenPushed[u] = 0)'
  BY DEF PaceInv, PaceTime
<1> QED
  BY <1>2, <1>3, <1>4, <1>5 DEF PaceInv

LEMMA PaceStep ==
  ASSUME ShowInv(FALSE), ScreenInv, PaceInv, Screen(FALSE)!Next \/ UNCHANGED screenVars
  PROVE  PaceInv'
<1>1. CASE UNCHANGED screenVars
  BY <1>1, PaceLooks DEF screenVars
<1>2. ASSUME NEW p \in PushPages, Screen(FALSE)!Look(p) \/ Screen(FALSE)!Create(p) \/ Screen(FALSE)!Unsubscribe(p) PROVE PaceInv'
  <2>1. DOMAIN screenRows \subseteq DOMAIN screenRows' /\ UNCHANGED <<screenNow, screenRate, screenJob, screenPushed>>
    BY <1>2 DEF Screen!Look, Screen!Create, Screen!Unsubscribe
  <2> QED
    BY <2>1, PaceLooks
<1>3. ASSUME NEW e \in PushEndpoints, Screen(FALSE)!Expire(e) PROVE PaceInv'
  BY <1>3, PaceLooks DEF Screen!Expire
<1>4. CASE Screen(FALSE)!Tick
  BY <1>4, PaceTicks
<1>5. CASE Screen(FALSE)!Register \/ Screen(FALSE)!SwitchOff
  BY <1>5, PaceLooks DEF Screen!Register, Screen!SwitchOff
<1>6. ASSUME NEW j \in PushJobs, Screen(FALSE)!Step(j) PROVE PaceInv'
  BY <1>6, PaceWaits, PaceCounts, PacePushes DEF Screen!Step
<1>7. ASSUME NEW j \in PushJobs PROVE ~(Screen(FALSE)!Throws(j) \/ \E p \in PushPages : Screen(FALSE)!PushFails(j, p))
  BY DEF Screen!Throws, Screen!PushFails
<1> QED
  BY <1>1, <1>2, <1>3, <1>4, <1>5, <1>6, <1>7 DEF Screen!Next

LEMMA PaceTells == ASSUME PaceInv PROVE Screen(FALSE)!WithinLimit
<1>1. Screen(FALSE)!Cardinality(PushPages) = Cardinality(PushPages)
  BY DEF Screen!Cardinality, Cardinality, Screen!IsFiniteSet, IsFiniteSet
<1>2. \A t \in 0 .. MaxPushTime : Screen(FALSE)!Within(t) = PushedIn(screenPushed, HourFrom(t))
  BY Zenon DEF Screen!Within, PushedIn, HourFrom, PaceTime
<1>3. \A t \in 0 .. MaxPushTime : PushedIn(screenPushed, HourFrom(t)) <= MostInAnHour
  BY DEF PaceInv, PaceTime
<1> QED
  BY <1>1, <1>2, <1>3 DEF Screen!WithinLimit, MostInAnHour

LEMMA ScreensTurn ==
  ASSUME [Next]_vars
  PROVE  /\ under = "screens" => Screen(FALSE)!Next \/ UNCHANGED screenVars
         /\ under = "screens, at once" => Screen(TRUE)!Next \/ UNCHANGED screenVars
BY DEF Next, Turn, NoticesNext, vars, noticeVars, NotNotice, NotBreaker, NotHook, NotFlow, NotWait, NotMail, NotInbox,
       NotSub, NotConnect, NotSync, NotRemind, NotImport, NotNews, NotScreen, NotDigest

(* Deliveries one after the other never show more in an hour than the limit   *)
(* and the browsers that the last delivery within it still reaches; and a     *)
(* telephone that failed too often is off, however deliveries overlap, fail   *)
(* and are tried again: for any deliveries, browsers, hours, tries and limits. *)
THEOREM ScreensAreKept == Spec => []ScreensAccounted
<1> DEFINE Alone == ScreenInv /\ ShowInv(FALSE) /\ PaceInv
           Both  == (under = "screens" => Alone) /\ (under = "screens, at once" => ShowInv(TRUE))
<1>1. Init => Both
  <2> SUFFICES ASSUME Init, under \in {"screens", "screens, at once"} PROVE Both
    OBVIOUS
  <2>1. IF under = "screens" THEN Screen(FALSE)!Init ELSE Screen(TRUE)!Init
    BY DEF Init, Start, NoticesInit
  <2>2. CASE under = "screens"
    <3>1. ShowInv(FALSE) /\ ScreenInv
      BY <2>1, <2>2, ShowInit, ScreenInit
    <3> QED
      BY <2>1, <2>2, <3>1, PaceInit
  <2>3. CASE under = "screens, at once"
    BY <2>1, <2>3, ShowInit
  <2> QED
    BY <2>2, <2>3
<1>2. Both /\ [Next]_vars => Both'
  <2> SUFFICES ASSUME Both, [Next]_vars PROVE Both'
    OBVIOUS
  <2>1. under' = under
    BY UnderStays
  <2>2. under = "screens" => Alone'
    <3> SUFFICES ASSUME under = "screens" PROVE Alone'
      OBVIOUS
    <3>1. Screen(FALSE)!Next \/ UNCHANGED screenVars
      BY ScreensTurn
    <3>2. ShowInv(FALSE)'
      BY <3>1, ShowStep
    <3>3. ScreenInv'
      BY <3>1, ScreenStep
    <3> QED
      BY <3>1, <3>2, <3>3, PaceStep
  <2>3. under = "screens, at once" => ShowInv(TRUE)'
    BY ShowStep, ScreensTurn
  <2> QED
    BY <2>1, <2>2, <2>3
<1>3. Both => ScreensAccounted
  BY ShowTells, PaceTells DEF ScreensAccounted
<1> QED
  BY <1>1, <1>2, <1>3, PTL DEF Spec
-----------------------------------------------------------------------------
(* All that is sent for reminders, digests and changes, imported, and shown   *)
(* on screens is accounted for, whatever overlaps, fails and is tried again.  *)
THEOREM NoticesAccountedAlways == Spec => []NoticesAccounted
BY RemindersAreKept, DigestsAreWhole, ImportsAreWhole, ChangesAreToldAlways, ScreensAreKept, PTL DEF NoticesAccounted
=============================================================================
