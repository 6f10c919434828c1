--------------------------- MODULE KnowledgeProofs ---------------------------
(***************************************************************************)
(* Proofs about the knowledge base, the searches in it, the script that    *)
(* evaluates what is answered from it and the history that an answer is    *)
(* told, which Services.cfg checks among the services, for any values of   *)
(* their constants.  A section calls the slots of Services by the names    *)
(* that they have in its module, unless another section has that name for  *)
(* another slot.                                                           *)
(***************************************************************************)
EXTENDS ServiceProofs

-----------------------------------------------------------------------------
(* KnowledgeBase.  Its rows, which have the third slot, are not renamed:   *)
(* Accounts has a variable of that name.                                   *)

states   == v1
passages == v2
bodies   == v4
active   == v5
promoter == v6
job      == v7

USE DEF states, passages, bodies, active, promoter, job

Gens    == 1..MaxKbGenerations
Acls    == {acl \in KbAccesses \cup {Kb!PrivateTo(p) : p \in KbPeople} : acl.scope # "none"}
Plans   == UNION {[D -> Acls] : D \in SUBSET KbDocuments}
Members == KbPeople \cup {"nobody"}

CreateJobs    == [op : {"create"}, documents : Plans]
MergeJobs     == [op : {"merge"}, by : KbPeople, document : KbDocuments, access : Acls, base : Gens]
RebuildJobs   == [op : {"rebuild"}, by : KbPeople, removed : SUBSET KbDocuments, base : Gens]
WriteJobs     == {j \in [op : {"write"}, generation : Gens, documents : Plans, left : SUBSET KbDocuments] :
                    j.left \subseteq DOMAIN j.documents}
BeginningJobs == [op : {"authorize", "list"}, generation : Gens, next : {"check", "idle"}, by : Members]
FillingJobs   == {j \in [op : {"validate", "reread", "fill"}, generation : Gens, next : {"check", "idle"}, by : Members,
                         missing : SUBSET KbDocuments, validated : Plans,
                         read : {<<>>} \cup (KbDocuments \X Nat)] :
                    /\ j.op # "validate" => j.missing \subseteq DOMAIN j.validated
                    /\ j.op = "fill" => j.read # <<>> /\ j.read[1] \in DOMAIN j.validated}
PromotingJobs == [op : {"check", "activate"}, generation : Gens, by : Members]

Jobs == {Kb!Idle} \cup CreateJobs \cup MergeJobs \cup RebuildJobs \cup WriteJobs \cup BeginningJobs \cup FillingJobs
        \cup PromotingJobs

KbTyped ==
  /\ states \in [Gens -> {"absent", "indexing", "ready", "failed", "active", "archived"}]
  /\ passages \in [Gens -> [KbDocuments -> Seq(Acls)]]
  /\ v3 \in [Gens -> [KbDocuments -> Acls \cup {Kb!NoRow}]]
  /\ bodies \in [Gens -> [KbDocuments -> [passages : Nat, original : BOOLEAN]]]
  /\ active \in Gens
  /\ job \in [Workers -> Jobs]

(* A generation that was built to the end, and what it then holds.         *)
Built(g) == states[g] \in {"ready", "active", "archived"}

Whole(g, d) ==
  /\ Len(passages[g][d]) = PassagesEach /\ bodies[g][d] = Kb!Original /\ v3[g][d] = passages[g][d][1]
  /\ \A i \in DOMAIN passages[g][d] : passages[g][d][i] = passages[g][d][1]

BuiltAreWhole == \A g \in Gens : g # 1 /\ Built(g) => \A d \in KbDocuments : passages[g][d] # <<>> => Whole(g, d)

OneIsActive ==
  /\ \A g \in Gens : states[g] = "active" <=> g = active
  /\ states[1] \in {"active", "archived"}

(* What a writer has written so far of the documents it was given.         *)
Written(j, d) ==
  LET stored == passages[j.generation][d]
  IN  /\ d \notin DOMAIN j.documents => stored = <<>>
      /\ d \in DOMAIN j.documents => \A i \in DOMAIN stored : stored[i] = j.documents[d]
      /\ d \in DOMAIN j.documents \ j.left =>
           /\ Len(stored) = PassagesEach
           /\ bodies[j.generation][d] = Kb!Original /\ v3[j.generation][d] = j.documents[d]

AbsentAreEmpty == \A g \in Gens : states[g] = "absent" => \A d \in KbDocuments : passages[g][d] = <<>>

OneWriter ==
  \A w, x \in Workers :
    job[w].op = "write" /\ job[x].op = "write" /\ job[w].generation = job[x].generation => w = x

(* The documents of a generation are a member's own, or public.            *)
OwnedBy(p, g) ==
  \A d \in KbDocuments : passages[g][d] # <<>> =>
    passages[g][d][1].owner = p.user \/ passages[g][d][1].scope = "public"

WriterIsSafe(j) == j.op = "write" => states[j.generation] = "indexing" /\ \A d \in KbDocuments : Written(j, d)

(* What a promotion or a backfill has read stays true.                     *)
ReaderIsSafe(j) ==
  /\ j.op = "validate" => \A d \in j.missing : passages[j.generation][d] # <<>>
  /\ j.op = "authorize" => j.by \in KbPeople \ KbOperators /\ Built(j.generation)
  /\ \/ j.op \in {"list", "validate", "reread", "fill"} /\ j.next = "check"
     \/ j.op \in {"check", "activate"}
     => j.by \in KbPeople /\ (j.by \notin KbOperators => Built(j.generation) /\ OwnedBy(j.by, j.generation))

KbSafe ==
  /\ KbTyped /\ BuiltAreWhole /\ OneIsActive /\ AbsentAreEmpty /\ OneWriter
  /\ \A w \in Workers : WriterIsSafe(job[w]) /\ ReaderIsSafe(job[w])
  /\ \A p \in KbPeople \ KbOperators : promoter = p.user => OwnedBy(p, active)

-----------------------------------------------------------------------------

LEMMA NoRowIsNoAccess == Kb!NoRow \notin Acls
BY DEF Kb!NoRow, Acls

LEMMA KindsOfJobs ==
  ASSUME NEW j \in Jobs
  PROVE  /\ j.op = "create" => j \in CreateJobs
         /\ j.op = "merge" => j \in MergeJobs
         /\ j.op = "rebuild" => j \in RebuildJobs
         /\ j.op = "write" => j \in WriteJobs
         /\ j.op \in {"authorize", "list"} => j \in BeginningJobs
         /\ j.op \in {"validate", "reread", "fill"} => j \in FillingJobs
         /\ j.op \in {"check", "activate"} => j \in PromotingJobs
<1> HIDE DEF Gens, Plans, Acls, Members
<1> QED
  BY DEF Jobs, Kb!Idle, CreateJobs, MergeJobs, RebuildJobs, WriteJobs, BeginningJobs, FillingJobs, PromotingJobs

LEMMA IdleIsSafe == Kb!Idle \in Jobs /\ Kb!Idle.op = "idle" /\ WriterIsSafe(Kb!Idle) /\ ReaderIsSafe(Kb!Idle)
BY DEF Jobs, Kb!Idle, WriterIsSafe, ReaderIsSafe

LEMMA StoredIsTyped ==
  ASSUME KbTyped, NEW g \in Gens
  PROVE  /\ Kb!SeedDocuments(g) \in Plans
         /\ DOMAIN Kb!SeedDocuments(g) = {d \in KbDocuments : passages[g][d] # <<>>}
         /\ \A d \in DOMAIN Kb!SeedDocuments(g) : Kb!SeedDocuments(g)[d] = passages[g][d][1]
<1> DEFINE D == {d \in KbDocuments : passages[g][d] # <<>>}
           s == [d \in D |-> passages[g][d][1]]
<1>1. \A d \in D : passages[g][d][1] \in Acls
  <2>1. ASSUME NEW d \in D PROVE passages[g][d][1] \in Acls
    <3>1. passages[g][d] \in Seq(Acls) /\ passages[g][d] # <<>>
      BY DEF KbTyped
    <3> QED
      BY <3>1
  <2> QED
    BY <2>1
<1>2. s \in [D -> Acls] /\ D \in SUBSET KbDocuments
  BY <1>1
<1>3. s \in Plans
  BY <1>2 DEF Plans
<1>4. Kb!SeedDocuments(g) = s
  BY DEF Kb!SeedDocuments, Kb!StoredDocuments
<1> QED
  BY <1>3, <1>4

LEMMA KbInitSafe == Kb!KbInit => KbSafe
<1> SUFFICES ASSUME Kb!KbInit PROVE KbSafe
  OBVIOUS
<1>0. 1 \in Gens /\ Gens = Kb!Generations
  BY GenerationsAreNumbered DEF Gens, Kb!Generations
<1>1. /\ states = [g \in Gens |-> IF g = 1 THEN "active" ELSE "absent"]
      /\ passages = [g \in Gens |-> [d \in KbDocuments |-> IF g = 1 THEN Legacy[d] ELSE <<>>]]
      /\ v3 = [g \in Gens |-> [d \in KbDocuments |-> Kb!NoRow]]
      /\ bodies = [g \in Gens |-> [d \in KbDocuments |-> [passages |-> 0, original |-> FALSE]]]
      /\ active = 1 /\ promoter = "operator" /\ job = [w \in Workers |-> Kb!Idle]
  BY <1>0 DEF Kb!KbInit, Kb!NoBody
<1>2. \A d \in KbDocuments : Legacy[d] \in Seq(Acls)
  <2>1. KbAccesses \subseteq Acls
    BY AccessIsGiven DEF Acls
  <2>2. ASSUME NEW d \in KbDocuments PROVE Legacy[d] \in Seq(Acls)
    <3>1. Legacy[d] \in Seq(KbAccesses)
      BY AccessIsGiven
    <3> QED
      BY <2>1, <3>1
  <2> QED
    BY <2>2
<1>3. passages \in [Gens -> [KbDocuments -> Seq(Acls)]]
  <2>1. <<>> \in Seq(Acls)
    OBVIOUS
  <2> HIDE DEF Gens, Acls
  <2> QED
    BY <1>1, <1>2, <2>1
<1>4. KbTyped
  <2> HIDE DEF Gens, Acls
  <2> QED
    BY <1>0, <1>1, <1>3, IdleIsSafe DEF KbTyped
<1>5. BuiltAreWhole /\ OneIsActive /\ AbsentAreEmpty /\ OneWriter
  BY <1>0, <1>1, IdleIsSafe DEF BuiltAreWhole, Built, OneIsActive, AbsentAreEmpty, OneWriter
<1>6. \A w \in Workers : WriterIsSafe(job[w]) /\ ReaderIsSafe(job[w])
  BY <1>1, IdleIsSafe
<1>7. \A p \in KbPeople \ KbOperators : promoter # p.user
  BY <1>1, PeopleAreDistinct
<1> QED
  BY <1>4, <1>5, <1>6, <1>7 DEF KbSafe

-----------------------------------------------------------------------------
(* A call takes up its next job, and no table is written.                  *)
LEMMA JobMovesSafely ==
  ASSUME KbSafe, NEW w \in Workers, NEW j \in Jobs, job' = [job EXCEPT ![w] = j], UNCHANGED Kb!tables,
         j.op # "write", ReaderIsSafe(j)
  PROVE  KbSafe'
<1>1. UNCHANGED <<states, passages, v3, bodies, active, promoter>>
  BY DEF Kb!tables
<1>2. KbTyped'
  BY <1>1 DEF KbSafe, KbTyped
<1>3. \A x \in Workers : job'[x] = IF x = w THEN j ELSE job[x]
  BY DEF KbSafe, KbTyped
<1>4. BuiltAreWhole' /\ OneIsActive' /\ AbsentAreEmpty'
  BY <1>1 DEF KbSafe, BuiltAreWhole, Built, Whole, OneIsActive, AbsentAreEmpty
<1>5. OneWriter'
  BY <1>3 DEF KbSafe, OneWriter
<1>6. ASSUME NEW x \in Workers PROVE WriterIsSafe(job[x])' /\ ReaderIsSafe(job[x])'
  <2>1. CASE x = w
    BY <1>1, <1>3, <2>1 DEF WriterIsSafe, ReaderIsSafe, Built, OwnedBy
  <2>2. CASE x # w
    <3>1. job'[x] = job[x] /\ WriterIsSafe(job[x]) /\ ReaderIsSafe(job[x])
      BY <1>3, <2>2 DEF KbSafe
    <3>2. WriterIsSafe(job[x])'
      BY <1>1, <3>1 DEF WriterIsSafe, Written
    <3>3. ReaderIsSafe(job[x])'
      BY <1>1, <3>1 DEF ReaderIsSafe, Built, OwnedBy
    <3> QED
      BY <3>2, <3>3
  <2> QED
    BY <2>1, <2>2
<1>7. (\A p \in KbPeople \ KbOperators : promoter = p.user => OwnedBy(p, active))'
  BY <1>1 DEF KbSafe, OwnedBy
<1> QED
  BY <1>2, <1>4, <1>5, <1>6, <1>7 DEF KbSafe

LEMMA EndingIsSafe ==
  ASSUME KbSafe, NEW w \in Workers, Kb!End(w), UNCHANGED Kb!tables
  PROVE  KbSafe'
<1>1. job' = [job EXCEPT ![w] = Kb!Idle]
  BY DEF Kb!End, Kb!Go
<1> QED
  BY <1>1, IdleIsSafe, JobMovesSafely

(* A job that neither writes nor promotes.                                 *)
LEMMA PlainJobIsSafe ==
  ASSUME NEW j, \/ j.op \in {"idle", "create", "merge", "rebuild"}
                \/ j.op = "list" /\ j.next = "idle"
  PROVE  ReaderIsSafe(j) /\ j.op # "write"
BY DEF ReaderIsSafe

LEMMA LatestIsTyped == ASSUME KbTyped PROVE Kb!LatestReadyOrActive \in Gens
<1> DEFINE ready == {g \in Kb!Generations : states[g] = "ready"}
           T == {MaxKbGenerations - g : g \in ready}
<1>0. Kb!Generations = Gens /\ active \in Gens /\ MaxKbGenerations \in Nat
  BY GenerationsAreNumbered DEF Kb!Generations, Gens, KbTyped
<1>1. CASE ready = {}
  BY <1>0, <1>1 DEF Kb!LatestReadyOrActive
<1>2. CASE ready # {}
  <2>1. T \in SUBSET (0..MaxKbGenerations) /\ T # {}
    BY <1>0, <1>2 DEF Gens
  <2>2. PICK k \in T : \A j \in T : k <= j
    <3> HIDE DEF T
    <3> QED
      BY <1>0, <2>1, LeastOfInitial
  <2>3. PICK g \in ready : k = MaxKbGenerations - g
    OBVIOUS
  <2>4. ASSUME NEW h \in ready PROVE h <= g
    <3>1. MaxKbGenerations - h \in T
      OBVIOUS
    <3>2. MaxKbGenerations - g <= MaxKbGenerations - h
      BY <2>2, <2>3, <3>1
    <3>3. g \in Int /\ h \in Int /\ MaxKbGenerations \in Int
      BY <1>0 DEF Gens
    <3> QED
      BY <3>2, <3>3
  <2>5. (CHOOSE f \in ready : \A h \in ready : h <= f) \in ready
    BY <2>4
  <2> QED
    BY <1>0, <1>2, <2>5 DEF Kb!LatestReadyOrActive
<1> QED
  BY <1>1, <1>2

LEMMA PrivateIsAccess == ASSUME NEW p \in KbPeople PROVE Kb!PrivateTo(p) \in Acls
BY DEF Acls, Kb!PrivateTo

LEMMA GivenIsAccess == KbAccesses \subseteq Acls
BY AccessIsGiven DEF Acls

LEMMA BeginsAreSafe ==
  ASSUME KbSafe, NEW w \in Workers, Kb!BeginSeed(w) \/ Kb!BeginMerge(w) \/ Kb!BeginRebuild(w) \/ Kb!BeginBackfill(w)
  PROVE  KbSafe'
<1>0. KbTyped /\ Kb!LatestReadyOrActive \in Gens /\ active \in Gens
  BY LatestIsTyped DEF KbSafe, KbTyped
<1>1. UNCHANGED Kb!tables
  BY DEF Kb!BeginSeed, Kb!BeginMerge, Kb!BeginRebuild, Kb!BeginBackfill
<1>2. CASE Kb!BeginSeed(w)
  <2>1. PICK d \in KbDocuments, acl \in KbAccesses :
          job' = [job EXCEPT ![w] = [op |-> "create", documents |-> [x \in {d} |-> acl]]]
    BY <1>2 DEF Kb!BeginSeed, Kb!Go
  <2> DEFINE plan == [x \in {d} |-> acl]
             j == [op |-> "create", documents |-> plan]
  <2>2. plan \in [{d} -> Acls] /\ {d} \in SUBSET KbDocuments
    BY GivenIsAccess
  <2>3. plan \in Plans
    BY <2>2 DEF Plans
  <2> HIDE DEF plan
  <2>4. j \in Jobs /\ j.op = "create"
    BY <2>3 DEF Jobs, CreateJobs
  <2>5. job' = [job EXCEPT ![w] = j]
    BY <2>1 DEF plan
  <2> HIDE DEF j
  <2> QED
    BY <1>1, <2>4, <2>5, PlainJobIsSafe, JobMovesSafely
<1>3. CASE Kb!BeginMerge(w)
  <2>1. PICK p \in KbPeople :
          \E d \in IF p \in KbOperators THEN KbDocuments ELSE KbUploadsOf[p],
             acl \in IF p \in KbOperators THEN KbAccesses ELSE {Kb!PrivateTo(p)} :
            job' = [job EXCEPT ![w] = [op |-> "merge", by |-> p, document |-> d, access |-> acl,
                                       base |-> Kb!LatestReadyOrActive]]
    BY <1>3 DEF Kb!BeginMerge, Kb!Go
  <2>2. PICK d \in KbDocuments, acl \in Acls :
          job' = [job EXCEPT ![w] = [op |-> "merge", by |-> p, document |-> d, access |-> acl,
                                     base |-> Kb!LatestReadyOrActive]]
    BY <2>1, DocumentsAreNumbered, GivenIsAccess, PrivateIsAccess
  <2> DEFINE j == [op |-> "merge", by |-> p, document |-> d, access |-> acl, base |-> Kb!LatestReadyOrActive]
  <2>3. j \in Jobs /\ j.op = "merge"
    BY <1>0 DEF Jobs, MergeJobs
  <2>4. job' = [job EXCEPT ![w] = j]
    BY <2>2
  <2> HIDE DEF j
  <2> QED
    BY <1>1, <2>3, <2>4, PlainJobIsSafe, JobMovesSafely
<1>4. CASE Kb!BeginRebuild(w)
  <2>1. PICK p \in KbPeople, removed \in {{}} \cup {{d} : d \in KbDocuments} :
          job' = [job EXCEPT ![w] = [op |-> "rebuild", by |-> p, removed |-> removed, base |-> Kb!LatestReadyOrActive]]
    BY <1>4 DEF Kb!BeginRebuild, Kb!Go
  <2> DEFINE j == [op |-> "rebuild", by |-> p, removed |-> removed, base |-> Kb!LatestReadyOrActive]
  <2>2. removed \in SUBSET KbDocuments
    OBVIOUS
  <2>3. j \in Jobs /\ j.op = "rebuild"
    BY <1>0, <2>2 DEF Jobs, RebuildJobs
  <2>4. job' = [job EXCEPT ![w] = j]
    BY <2>1
  <2> HIDE DEF j
  <2> QED
    BY <1>1, <2>3, <2>4, PlainJobIsSafe, JobMovesSafely
<1>5. CASE Kb!BeginBackfill(w)
  <2> DEFINE j == [op |-> "list", generation |-> active, next |-> "idle", by |-> "nobody"]
  <2>1. job' = [job EXCEPT ![w] = j]
    BY <1>5 DEF Kb!BeginBackfill, Kb!Go
  <2>2. j \in Jobs /\ j.op = "list" /\ j.next = "idle"
    BY <1>0 DEF Jobs, BeginningJobs, Members
  <2> HIDE DEF j
  <2> QED
    BY <1>1, <2>1, <2>2, PlainJobIsSafe, JobMovesSafely
<1> QED
  BY <1>2, <1>3, <1>4, <1>5

LEMMA KbLoadsAreSafe ==
  ASSUME KbSafe, NEW w \in Workers, Kb!LoadAndMerge(w) \/ Kb!LoadAndRemove(w)
  PROVE  KbSafe'
<1>0. KbTyped /\ job[w] \in Jobs
  BY DEF KbSafe, KbTyped
<1>1. UNCHANGED Kb!tables
  BY DEF Kb!LoadAndMerge, Kb!LoadAndRemove
<1>2. ASSUME NEW plan \in Plans, job' = [job EXCEPT ![w] = [op |-> "create", documents |-> plan]] PROVE KbSafe'
  <2> DEFINE j == [op |-> "create", documents |-> plan]
  <2>1. j \in Jobs /\ j.op = "create" /\ job' = [job EXCEPT ![w] = j]
    BY <1>2 DEF Jobs, CreateJobs
  <2> HIDE DEF j
  <2> QED
    BY <1>1, <2>1, PlainJobIsSafe, JobMovesSafely
<1>3. CASE Kb!LoadAndMerge(w)
  <2>1. job[w] \in MergeJobs
    BY <1>0, <1>3, KindsOfJobs DEF Kb!LoadAndMerge
  <2> DEFINE existing == Kb!SeedDocuments(job[w].base)
             d == job[w].document
             plan == [x \in DOMAIN existing \cup {d} |-> IF x = d THEN job[w].access ELSE existing[x]]
  <2>2. existing \in Plans /\ d \in KbDocuments /\ job[w].access \in Acls
    BY <1>0, <2>1, StoredIsTyped DEF MergeJobs
  <2>3. Kb!End(w) \/ job' = [job EXCEPT ![w] = [op |-> "create", documents |-> plan]]
    BY <1>3 DEF Kb!LoadAndMerge, Kb!Go
  <2>4. plan \in Plans
    <3> HIDE DEF existing, d
    <3>1. PICK D \in SUBSET KbDocuments : existing \in [D -> Acls]
      BY <2>2 DEF Plans
    <3>2. plan \in [D \cup {d} -> Acls] /\ D \cup {d} \in SUBSET KbDocuments
      BY <2>2, <3>1
    <3> HIDE DEF plan
    <3> QED
      BY <3>2 DEF Plans
  <2> HIDE DEF plan
  <2> QED
    BY <1>1, <1>2, <2>3, <2>4, EndingIsSafe
<1>4. CASE Kb!LoadAndRemove(w)
  <2>1. job[w] \in RebuildJobs
    BY <1>0, <1>4, KindsOfJobs DEF Kb!LoadAndRemove
  <2> DEFINE existing == Kb!SeedDocuments(job[w].base)
             remaining == DOMAIN existing \ job[w].removed
             plan == [d \in remaining |-> existing[d]]
  <2>2. existing \in Plans
    BY <1>0, <2>1, StoredIsTyped DEF RebuildJobs
  <2>3. Kb!End(w) \/ job' = [job EXCEPT ![w] = [op |-> "create", documents |-> plan]]
    BY <1>4 DEF Kb!LoadAndRemove, Kb!Go
  <2>4. plan \in Plans
    <3> HIDE DEF existing
    <3>1. PICK D \in SUBSET KbDocuments : existing \in [D -> Acls]
      BY <2>2 DEF Plans
    <3>2. plan \in [remaining -> Acls] /\ remaining \in SUBSET KbDocuments
      BY <3>1
    <3> HIDE DEF plan, remaining
    <3> QED
      BY <3>2 DEF Plans
  <2> HIDE DEF plan
  <2> QED
    BY <1>1, <1>2, <2>3, <2>4, EndingIsSafe
<1> QED
  BY <1>3, <1>4

(* The promotion of a generation: who asks for it, and for what.           *)
LEMMA PromotionsAreSafe ==
  ASSUME KbSafe, NEW w \in Workers, Kb!BeginPromote(w) \/ Kb!Authorize(w) \/ Kb!CheckReady(w)
  PROVE  KbSafe'
<1>0. KbTyped /\ job[w] \in Jobs /\ ReaderIsSafe(job[w])
  BY DEF KbSafe, KbTyped
<1>1. UNCHANGED Kb!tables
  BY DEF Kb!BeginPromote, Kb!Authorize, Kb!CheckReady
<1>2. CASE Kb!BeginPromote(w)
  <2>1. PICK p \in KbPeople, g \in Gens :
          \/ /\ p \in KbOperators
             /\ job' = [job EXCEPT ![w] = [op |-> "list", generation |-> g, next |-> "check", by |-> p]]
          \/ /\ p \notin KbOperators /\ states[g] = "ready"
             /\ job' = [job EXCEPT ![w] = [op |-> "authorize", generation |-> g, next |-> "check", by |-> p]]
    BY <1>2 DEF Kb!BeginPromote, Kb!Go, Kb!Generations, Gens
  <2> DEFINE m == [op |-> "list", generation |-> g, next |-> "check", by |-> p]
             n == [op |-> "authorize", generation |-> g, next |-> "check", by |-> p]
  <2>2. m \in Jobs /\ m.op = "list" /\ m.by = p /\ n \in Jobs /\ n.op = "authorize" /\ n.by = p /\ n.generation = g
    <3> HIDE DEF Gens
    <3> QED
      BY DEF Jobs, BeginningJobs, Members
  <2>3. p \in KbOperators => ReaderIsSafe(m)
    BY <2>2 DEF ReaderIsSafe
  <2>4. p \notin KbOperators /\ states[g] = "ready" => ReaderIsSafe(n)
    BY <2>2 DEF ReaderIsSafe, Built
  <2>5. \/ p \in KbOperators /\ job' = [job EXCEPT ![w] = m]
        \/ p \notin KbOperators /\ states[g] = "ready" /\ job' = [job EXCEPT ![w] = n]
    BY <2>1
  <2> HIDE DEF m, n
  <2>6. m.op # "write" /\ n.op # "write"
    BY <2>2
  <2>7. CASE p \in KbOperators /\ job' = [job EXCEPT ![w] = m]
    BY <1>1, <2>2, <2>3, <2>6, <2>7, JobMovesSafely
  <2>8. CASE p \notin KbOperators /\ states[g] = "ready" /\ job' = [job EXCEPT ![w] = n]
    BY <1>1, <2>2, <2>4, <2>6, <2>8, JobMovesSafely
  <2> QED
    BY <2>5, <2>7, <2>8
<1>3. CASE Kb!Authorize(w)
  <2>1. job[w] \in BeginningJobs /\ job[w].op = "authorize"
    BY <1>0, <1>3, KindsOfJobs DEF Kb!Authorize
  <2> DEFINE g == job[w].generation
             existing == Kb!SeedDocuments(g)
  <2>2. g \in Gens /\ job[w].by \in KbPeople \ KbOperators /\ Built(g)
    BY <1>0, <2>1 DEF ReaderIsSafe, BeginningJobs
  <2>3. CASE Kb!MayPromote(job[w].by, existing) /\ job' = [job EXCEPT ![w] = [job[w] EXCEPT !.op = "list"]]
    <3> DEFINE j == [job[w] EXCEPT !.op = "list"]
    <3>1. j \in BeginningJobs /\ j.op = "list" /\ j.by = job[w].by /\ j.generation = g
      BY <2>1 DEF BeginningJobs
    <3>2. OwnedBy(job[w].by, g)
      <4>1. /\ DOMAIN existing = {d \in KbDocuments : passages[g][d] # <<>>}
            /\ \A d \in DOMAIN existing : existing[d] = passages[g][d][1]
        BY <1>0, <2>2, StoredIsTyped
      <4> HIDE DEF existing, g
      <4>2. \A d \in DOMAIN existing : existing[d].owner = job[w].by.user \/ existing[d].scope = "public"
        BY <2>3 DEF Kb!MayPromote, Kb!Owner
      <4> QED
        BY <4>1, <4>2 DEF OwnedBy
    <3>3. job' = [job EXCEPT ![w] = j]
      BY <2>3
    <3> HIDE DEF j, g, existing
    <3>4. j \in Jobs /\ ReaderIsSafe(j) /\ j.op # "write"
      BY <2>2, <3>1, <3>2 DEF Jobs, ReaderIsSafe
    <3> QED
      BY <1>1, <3>3, <3>4, JobMovesSafely
  <2> QED
    BY <1>1, <1>3, <2>3, EndingIsSafe DEF Kb!Authorize, Kb!Go
<1>4. CASE Kb!CheckReady(w)
  <2>1. job[w] \in PromotingJobs /\ job[w].op = "check"
    BY <1>0, <1>4, KindsOfJobs DEF Kb!CheckReady
  <2> DEFINE j == [job[w] EXCEPT !.op = "activate"]
  <2>2. j \in PromotingJobs /\ j.op = "activate" /\ j.by = job[w].by /\ j.generation = job[w].generation
    BY <2>1 DEF PromotingJobs
  <2>3. job' = [job EXCEPT ![w] = j] \/ Kb!End(w)
    BY <1>4 DEF Kb!CheckReady, Kb!Go
  <2> HIDE DEF j
  <2>4. j \in Jobs /\ ReaderIsSafe(j) /\ j.op # "write"
    BY <1>0, <2>1, <2>2 DEF Jobs, ReaderIsSafe
  <2> QED
    BY <1>1, <2>3, <2>4, EndingIsSafe, JobMovesSafely
<1> QED
  BY <1>2, <1>3, <1>4

LEMMA EmptyIsPlan == <<>> \in Plans
<1>1. <<>> \in [{} -> Acls]
  OBVIOUS
<1> QED
  BY <1>1 DEF Plans

(* A job that fills a catalog carries on for whoever promotes, if anybody. *)
LEMMA CarriesOn ==
  ASSUME NEW i, NEW j, ReaderIsSafe(i), i.op \in {"list", "validate", "reread", "fill"},
         j.by = i.by, j.generation = i.generation,
         \/ j.op \in {"list", "validate", "reread", "fill"} /\ j.next = i.next
         \/ j.op = "check" /\ i.next = "check",
         j.op = "validate" => \A d \in j.missing : passages[j.generation][d] # <<>>
  PROVE  ReaderIsSafe(j)
BY DEF ReaderIsSafe

LEMMA FillersReadSafely ==
  ASSUME KbSafe, NEW w \in Workers, Kb!ListMissing(w) \/ Kb!Validate(w) \/ Kb!Reread(w)
  PROVE  KbSafe'
<1>0. KbTyped /\ job[w] \in Jobs /\ ReaderIsSafe(job[w])
  BY DEF KbSafe, KbTyped
<1>1. UNCHANGED Kb!tables
  BY DEF Kb!ListMissing, Kb!Validate, Kb!Reread
<1> DEFINE i == job[w]
           g == i.generation
<1>2. ASSUME NEW j \in FillingJobs \cup PromotingJobs, i.op \in {"list", "validate", "reread", "fill"},
             job' = [job EXCEPT ![w] = j], j.by = i.by, j.generation = g,
             \/ j.op \in {"list", "validate", "reread", "fill"} /\ j.next = i.next
             \/ j.op = "check" /\ i.next = "check",
             j.op = "validate" => \A d \in j.missing : passages[g][d] # <<>>
      PROVE  KbSafe'
  <2>1. j \in Jobs /\ j.op # "write"
    BY <1>2 DEF Jobs
  <2>2. ReaderIsSafe(j)
    <3> HIDE DEF i, g
    <3>1. ReaderIsSafe(i)
      BY <1>0 DEF i
    <3> QED
      BY <1>2, <3>1, CarriesOn DEF g
  <2> QED
    BY <1>1, <1>2, <2>1, <2>2, JobMovesSafely
<1>3. CASE Kb!ListMissing(w)
  <2>1. i \in BeginningJobs /\ i.op = "list"
    BY <1>0, <1>3, KindsOfJobs DEF Kb!ListMissing
  <2> DEFINE missing == Kb!Missing(g)
             j == [op |-> "validate", generation |-> g, next |-> i.next, by |-> i.by,
                   missing |-> missing, validated |-> <<>>, read |-> <<>>]
  <2>2. missing \in SUBSET KbDocuments
    BY DEF Kb!Missing, Kb!StoredDocuments
  <2>3. job' = [job EXCEPT ![w] = j]
    BY <1>3 DEF Kb!ListMissing, Kb!Go
  <2> HIDE DEF missing
  <2>4. j \in FillingJobs /\ j.op = "validate" /\ j.by = i.by /\ j.generation = g /\ j.next = i.next
    BY <2>1, <2>2, EmptyIsPlan DEF FillingJobs, BeginningJobs
  <2>5. \A d \in j.missing : passages[g][d] # <<>>
    BY DEF Kb!Missing, Kb!StoredDocuments, missing
  <2> HIDE DEF i, g, j
  <2> QED
    BY <1>2, <2>1, <2>3, <2>4, <2>5
<1>4. CASE Kb!Validate(w)
  <2>1. i \in FillingJobs /\ i.op = "validate"
    BY <1>0, <1>4, KindsOfJobs DEF Kb!Validate
  <2> DEFINE left == i.missing \ DOMAIN i.validated
  <2>2. CASE left = {} /\ job' = [job EXCEPT ![w] = [i EXCEPT !.op = "reread"]]
    <3> DEFINE j == [i EXCEPT !.op = "reread"]
    <3>1. i.missing \subseteq DOMAIN i.validated
      BY <2>2
    <3>2. j \in FillingJobs /\ j.op = "reread" /\ j.by = i.by /\ j.generation = g /\ j.next = i.next
      <4> HIDE DEF i
      <4> QED
        BY <2>1, <3>1 DEF FillingJobs
    <3>3. job' = [job EXCEPT ![w] = j]
      BY <2>2
    <3> HIDE DEF i, g, j
    <3> QED
      BY <1>2, <2>1, <3>2, <3>3
  <2>3. ASSUME NEW d \in left,
               Kb!Consistent(passages[g][d]),
               job' = [job EXCEPT ![w] = [i EXCEPT !.validated =
                         [x \in DOMAIN @ \cup {d} |-> IF x = d THEN passages[g][d][1] ELSE @[x]]]]
        PROVE  KbSafe'
    <3> DEFINE plan == [x \in DOMAIN i.validated \cup {d} |-> IF x = d THEN passages[g][d][1] ELSE i.validated[x]]
               j == [i EXCEPT !.validated = plan]
    <3>1. plan \in Plans
      <4>1. d \in KbDocuments /\ g \in Gens /\ i.validated \in Plans
        BY <2>1 DEF FillingJobs
      <4>2. passages[g][d] \in Seq(Acls) /\ passages[g][d] # <<>>
        BY <1>0, <2>1, <4>1 DEF KbTyped, ReaderIsSafe
      <4> DEFINE acl == passages[g][d][1]
                 valid == i.validated
      <4>3. acl \in Acls
        BY <4>2
      <4>4. PICK D \in SUBSET KbDocuments : valid \in [D -> Acls]
        BY <4>1 DEF Plans
      <4>5. plan = [x \in DOMAIN valid \cup {d} |-> IF x = d THEN acl ELSE valid[x]]
        OBVIOUS
      <4> HIDE DEF acl, valid, plan
      <4>6. plan \in [D \cup {d} -> Acls] /\ D \cup {d} \in SUBSET KbDocuments
        BY <4>1, <4>3, <4>4, <4>5
      <4> QED
        BY <4>6 DEF Plans
    <3>2. job' = [job EXCEPT ![w] = j]
      BY <2>3
    <3>3. j \in FillingJobs /\ j.op = "validate" /\ j.by = i.by /\ j.generation = g /\ j.next = i.next
          /\ j.missing = i.missing
      <4> HIDE DEF i, plan
      <4> QED
        BY <2>1, <3>1 DEF FillingJobs
    <3>4. \A x \in i.missing : passages[g][x] # <<>>
      BY <1>0, <2>1 DEF ReaderIsSafe
    <3> HIDE DEF i, g, j
    <3> QED
      BY <1>2, <2>1, <3>2, <3>3, <3>4
  <2> QED
    BY <1>1, <1>4, <2>2, <2>3, EndingIsSafe DEF Kb!Validate, Kb!Go
<1>5. CASE Kb!Reread(w)
  <2>1. i \in FillingJobs /\ i.op = "reread"
    BY <1>0, <1>5, KindsOfJobs DEF Kb!Reread
  <2>2. CASE i.next # "idle" /\ job' = [job EXCEPT ![w] = [op |-> "check", generation |-> g, by |-> i.by]]
    <3> DEFINE j == [op |-> "check", generation |-> g, by |-> i.by]
    <3>1. j \in PromotingJobs /\ j.op = "check" /\ j.by = i.by /\ j.generation = g /\ i.next = "check"
      BY <2>1, <2>2 DEF FillingJobs, PromotingJobs
    <3>2. job' = [job EXCEPT ![w] = j]
      BY <2>2
    <3> HIDE DEF i, g, j
    <3> QED
      BY <1>2, <2>1, <3>1, <3>2
  <2>3. ASSUME NEW d \in i.missing,
               job' = [job EXCEPT ![w] = [i EXCEPT !.op = "fill", !.missing = @ \ {d}, !.read = <<d, Len(passages[g][d])>>]]
        PROVE  KbSafe'
    <3> DEFINE read == <<d, Len(passages[g][d])>>
               j == [i EXCEPT !.op = "fill", !.missing = i.missing \ {d}, !.read = read]
    <3>1. read \in KbDocuments \X Nat /\ read # <<>> /\ read[1] \in DOMAIN i.validated
      <4>1. d \in KbDocuments /\ d \in DOMAIN i.validated /\ g \in Gens
        BY <2>1 DEF FillingJobs
      <4>2. passages[g][d] \in Seq(Acls)
        BY <1>0, <4>1 DEF KbTyped
      <4> QED
        BY <4>1, <4>2
    <3>2. job' = [job EXCEPT ![w] = j]
      BY <2>3
    <3>3. j \in FillingJobs /\ j.op = "fill" /\ j.by = i.by /\ j.generation = g /\ j.next = i.next
      <4> HIDE DEF i, read
      <4> QED
        BY <2>1, <3>1 DEF FillingJobs
    <3> HIDE DEF i, g, j
    <3> QED
      BY <1>2, <2>1, <3>2, <3>3
  <2> QED
    BY <1>1, <1>5, <2>2, <2>3, EndingIsSafe DEF Kb!Reread, Kb!Go
<1> QED
  BY <1>3, <1>4, <1>5

-----------------------------------------------------------------------------
(* The tables are written.                                                 *)

(* What a promotion or a backfill knows stays known while generations that *)
(* were built stay built, with their passages.                             *)
LEMMA ReadersAreLeft ==
  ASSUME KbSafe, NEW x \in Workers, job'[x] = job[x],
         \A h \in Gens : Built(h) => passages'[h] = passages[h] /\ states'[h] \in {"ready", "active", "archived"},
         \A h \in Gens : \A d \in KbDocuments : passages[h][d] # <<>> => passages'[h][d] # <<>>
  PROVE  ReaderIsSafe(job[x])'
<1>1. PICK i \in Jobs : i = job[x]
  BY DEF KbSafe, KbTyped
<1>2. ReaderIsSafe(i)
  BY <1>1 DEF KbSafe
<1>3. i.op \in {"authorize", "list", "validate", "reread", "fill", "check", "activate"} => i.generation \in Gens
  BY KindsOfJobs DEF BeginningJobs, FillingJobs, PromotingJobs
<1>4. i.op = "validate" => i.missing \subseteq KbDocuments
  BY KindsOfJobs DEF FillingJobs
<1>5. \A h \in Gens : Built(h) => Built(h)'
  BY DEF Built
<1>6. \A h \in Gens, p \in KbPeople : Built(h) /\ OwnedBy(p, h) => OwnedBy(p, h)'
  BY DEF OwnedBy
<1>7. ReaderIsSafe(i)'
  BY <1>2, <1>3, <1>4, <1>5, <1>6 DEF ReaderIsSafe
<1>8. job'[x] = i
  BY <1>1
<1> QED
  BY <1>7, <1>8 DEF ReaderIsSafe, Built, OwnedBy

(* A writer is left alone by what is done to another generation.           *)
LEMMA WritersAreLeft ==
  ASSUME KbSafe, NEW x \in Workers, job'[x] = job[x],
         \A h \in Gens : job[x].op = "write" /\ h = job[x].generation =>
           passages'[h] = passages[h] /\ v3'[h] = v3[h] /\ bodies'[h] = bodies[h] /\ states'[h] = states[h]
  PROVE  WriterIsSafe(job[x])'
<1>1. PICK i \in Jobs : i = job[x]
  BY DEF KbSafe, KbTyped
<1>2. WriterIsSafe(i)
  BY <1>1 DEF KbSafe
<1>3. i.op = "write" => i.generation \in Gens
  BY KindsOfJobs DEF WriteJobs
<1>4. WriterIsSafe(i)'
  BY <1>1, <1>2, <1>3 DEF WriterIsSafe, Written
<1>5. job'[x] = i
  BY <1>1
<1> QED
  BY <1>4, <1>5 DEF WriterIsSafe, Written

LEMMA WriterIsAlone ==
  ASSUME KbSafe, NEW w \in Workers, job[w].op = "write", NEW x \in Workers, x # w, job[x].op = "write"
  PROVE  job[x].generation # job[w].generation
BY DEF KbSafe, OneWriter

(* A job's own part of the invariant, stated of the job it is.             *)
LEMMA OwnPartIsSafe ==
  ASSUME NEW w \in Workers, NEW j \in Jobs, job'[w] = j, WriterIsSafe(j)', ReaderIsSafe(j)'
  PROVE  WriterIsSafe(job[w])' /\ ReaderIsSafe(job[w])'
BY DEF WriterIsSafe, ReaderIsSafe, Written, Built, OwnedBy

LEMMA NewGenerationIsSafe == ASSUME KbSafe, NEW w \in Workers, Kb!Create(w) PROVE KbSafe'
<1>0. /\ KbTyped /\ job[w] \in CreateJobs /\ AbsentAreEmpty /\ OneIsActive
      /\ UNCHANGED <<passages, v3, bodies, active, promoter>>
  BY KindsOfJobs DEF KbSafe, KbTyped, Kb!Create
<1>1. PICK g \in Gens :
        /\ states[g] = "absent" /\ states' = [states EXCEPT ![g] = "indexing"]
        /\ job' = [job EXCEPT ![w] = [op |-> "write", generation |-> g, documents |-> job[w].documents,
                                      left |-> DOMAIN job[w].documents]]
  BY DEF Kb!Create, Kb!Go, Kb!Generations, Gens
<1>2. PICK plan \in Plans : plan = job[w].documents
  BY <1>0 DEF CreateJobs
<1> DEFINE new == [op |-> "write", generation |-> g, documents |-> plan, left |-> DOMAIN plan]
<1>3. new \in Jobs
  <2>1. DOMAIN plan \in SUBSET KbDocuments
    BY <1>2 DEF Plans
  <2> QED
    BY <1>2, <2>1 DEF Jobs, WriteJobs
<1>4. PICK j \in Jobs :
        /\ j.op = "write" /\ j.generation = g /\ j.documents = plan /\ j.left = DOMAIN plan
        /\ job' = [job EXCEPT ![w] = j]
  BY <1>1, <1>2, <1>3
<1> HIDE DEF new
<1>5. \A x \in Workers : job'[x] = IF x = w THEN j ELSE job[x]
  BY <1>0, <1>4 DEF KbTyped
<1>6. states' \in [Gens -> {"absent", "indexing", "ready", "failed", "active", "archived"}]
      /\ \A h \in Gens : states'[h] = IF h = g THEN "indexing" ELSE states[h]
  BY <1>0, <1>1 DEF KbTyped
<1>7. KbTyped'
  BY <1>0, <1>4, <1>6 DEF KbTyped
<1>8. OneIsActive' /\ AbsentAreEmpty' /\ BuiltAreWhole'
  <2>1. OneIsActive' /\ AbsentAreEmpty'
    BY <1>0, <1>1, <1>6, GenerationsAreNumbered DEF OneIsActive, AbsentAreEmpty, Gens
  <2>2. BuiltAreWhole'
    BY <1>0, <1>6 DEF KbSafe, BuiltAreWhole, Built, Whole
  <2> QED
    BY <2>1, <2>2
<1>9. \A x \in Workers : job[x].op = "write" => job[x].generation # g
  <2>1. \A x \in Workers : job[x].op = "write" => states[job[x].generation] = "indexing"
    BY DEF KbSafe, WriterIsSafe
  <2> QED
    BY <1>1, <2>1
<1>10. OneWriter'
  BY <1>4, <1>5, <1>9 DEF KbSafe, OneWriter
<1>11. ASSUME NEW x \in Workers, x # w PROVE WriterIsSafe(job[x])' /\ ReaderIsSafe(job[x])'
  <2>1. job'[x] = job[x]
    BY <1>5, <1>11
  <2>2. \A h \in Gens : Built(h) => passages'[h] = passages[h] /\ states'[h] \in {"ready", "active", "archived"}
    BY <1>0, <1>1, <1>6 DEF Built
  <2>3. \A h \in Gens : \A d \in KbDocuments : passages[h][d] # <<>> => passages'[h][d] # <<>>
    BY <1>0
  <2>4. \A h \in Gens : job[x].op = "write" /\ h = job[x].generation =>
          passages'[h] = passages[h] /\ v3'[h] = v3[h] /\ bodies'[h] = bodies[h] /\ states'[h] = states[h]
    BY <1>0, <1>6, <1>9
  <2> QED
    BY <2>1, <2>2, <2>3, <2>4, ReadersAreLeft, WritersAreLeft
<1>12. WriterIsSafe(j)' /\ ReaderIsSafe(j)'
  <2>1. \A d \in KbDocuments : passages'[g][d] = <<>>
    BY <1>0, <1>1 DEF AbsentAreEmpty
  <2>2. \A d \in KbDocuments : Written(j, d)'
    BY <1>4, <2>1 DEF Written
  <2> QED
    BY <1>4, <1>6, <2>2 DEF WriterIsSafe, ReaderIsSafe
<1>13. (\A p \in KbPeople \ KbOperators : promoter = p.user => OwnedBy(p, active))'
  BY <1>0 DEF KbSafe, OwnedBy
<1>14. \A x \in Workers : WriterIsSafe(job[x])' /\ ReaderIsSafe(job[x])'
  <2>1. job'[w] = j
    BY <1>5
  <2>2. WriterIsSafe(job[w])' /\ ReaderIsSafe(job[w])'
    BY <1>12, <2>1, OwnPartIsSafe
  <2> QED
    BY <1>11, <2>2
<1> QED
  BY <1>7, <1>8, <1>10, <1>13, <1>14 DEF KbSafe

(* A generation is written by one worker, which leaves the others alone.   *)
LEMMA WritesAreSafe ==
  ASSUME KbSafe, NEW w \in Workers, NEW j \in WriteJobs, job' = [job EXCEPT ![w] = j],
         job[w].op = "write", j.generation = job[w].generation, KbTyped', UNCHANGED <<states, active, promoter>>,
         \A h \in Gens \ {j.generation} : passages'[h] = passages[h] /\ v3'[h] = v3[h] /\ bodies'[h] = bodies[h],
         \A d \in KbDocuments : passages[j.generation][d] # <<>> => passages'[j.generation][d] # <<>>,
         \A d \in KbDocuments : Written(j, d)'
  PROVE  KbSafe'
<1>0. /\ KbTyped /\ j \in Jobs /\ j.op = "write" /\ j.generation \in Gens /\ states[j.generation] = "indexing"
      /\ OneIsActive /\ AbsentAreEmpty /\ BuiltAreWhole
  BY DEF KbSafe, WriterIsSafe, WriteJobs, Jobs
<1>1. \A x \in Workers : job'[x] = IF x = w THEN j ELSE job[x]
  BY <1>0 DEF KbTyped
<1>2. \A h \in Gens : h # j.generation => passages'[h] = passages[h] /\ v3'[h] = v3[h] /\ bodies'[h] = bodies[h]
  OBVIOUS
<1>3. \A h \in Gens : Built(h) \/ states[h] = "absent" => h # j.generation
  BY <1>0 DEF Built
<1>4. OneIsActive' /\ AbsentAreEmpty'
  <2>1. OneIsActive'
    BY <1>0 DEF OneIsActive
  <2>2. AbsentAreEmpty'
    BY <1>0, <1>2, <1>3 DEF AbsentAreEmpty
  <2> QED
    BY <2>1, <2>2
<1>5. BuiltAreWhole'
  <2>1. \A h \in Gens : Built(h)' => Built(h)
    BY DEF Built
  <2>2. ASSUME NEW h \in Gens, Built(h), NEW d \in KbDocuments, Whole(h, d) PROVE Whole(h, d)'
    BY <1>2, <1>3, <2>2 DEF Whole
  <2>3. ASSUME NEW h \in Gens, h # 1, Built(h)', NEW d \in KbDocuments, passages'[h][d] # <<>> PROVE Whole(h, d)'
    BY <1>0, <1>2, <1>3, <2>1, <2>2, <2>3 DEF BuiltAreWhole
  <2> QED
    BY <2>3 DEF BuiltAreWhole
<1>6. OneWriter'
  BY <1>0, <1>1 DEF KbSafe, OneWriter
<1>7. ASSUME NEW x \in Workers, x # w PROVE WriterIsSafe(job[x])' /\ ReaderIsSafe(job[x])'
  <2>1. job'[x] = job[x]
    BY <1>1, <1>7
  <2>2. \A h \in Gens : Built(h) => passages'[h] = passages[h] /\ states'[h] \in {"ready", "active", "archived"}
    BY <1>2, <1>3 DEF Built
  <2>3. \A h \in Gens : \A d \in KbDocuments : passages[h][d] # <<>> => passages'[h][d] # <<>>
    BY <1>2
  <2>4. \A h \in Gens : job[x].op = "write" /\ h = job[x].generation =>
          passages'[h] = passages[h] /\ v3'[h] = v3[h] /\ bodies'[h] = bodies[h] /\ states'[h] = states[h]
    BY <1>2, <1>7, WriterIsAlone
  <2> QED
    BY <2>1, <2>2, <2>3, <2>4, ReadersAreLeft, WritersAreLeft
<1>8. WriterIsSafe(j)' /\ ReaderIsSafe(j)'
  BY <1>0 DEF WriterIsSafe, ReaderIsSafe
<1>9. (\A p \in KbPeople \ KbOperators : promoter = p.user => OwnedBy(p, active))'
  <2>1. passages'[active] = passages[active] /\ active' = active /\ promoter' = promoter
    <3>1. active \in Gens /\ active # j.generation
      BY <1>0 DEF OneIsActive, KbTyped
    <3> QED
      BY <1>2, <3>1
  <2>2. \A p \in KbPeople : OwnedBy(p, active) => OwnedBy(p, active)'
    BY <2>1 DEF OwnedBy
  <2> QED
    BY <2>1, <2>2 DEF KbSafe
<1>10. \A x \in Workers : WriterIsSafe(job[x])' /\ ReaderIsSafe(job[x])'
  <2>1. job'[w] = j
    BY <1>1
  <2>2. WriterIsSafe(job[w])' /\ ReaderIsSafe(job[w])'
    BY <1>0, <1>8, <2>1, OwnPartIsSafe
  <2> QED
    BY <1>7, <2>2
<1> QED
  BY <1>4, <1>5, <1>6, <1>9, <1>10 DEF KbSafe

LEMMA FirstOfDocuments ==
  ASSUME NEW S \in SUBSET KbDocuments, S # {}
  PROVE  (CHOOSE d \in S : \A x \in S : d <= x) \in S
<1>1. S \subseteq Nat
  BY DocumentsAreNumbered
<1>2. PICK m \in S : TRUE
  OBVIOUS
<1> DEFINE T == {x \in S : x <= m}
<1>3. m \in Nat /\ T \in SUBSET (0..m) /\ T # {}
  <2>1. m \in Nat
    BY <1>1
  <2>2. \A x \in T : x \in 0..m
    BY <1>1, <2>1
  <2>3. m \in T
    BY <2>1
  <2> HIDE DEF T
  <2> QED
    BY <2>1, <2>2, <2>3
<1>4. \E k \in T : \A x \in T : k <= x
  <2>1. PICK U : U = T
    OBVIOUS
  <2>2. m \in Nat /\ U \in SUBSET (0..m) /\ U # {}
    BY <1>3, <2>1
  <2>3. \E k \in U : \A x \in U : k <= x
    BY <2>2, LeastOfInitial
  <2> QED
    BY <2>1, <2>3
<1>5. PICK k \in S : \A x \in S : k <= x
  BY <1>1, <1>2, <1>4
<1> QED
  BY <1>5

LEMMA PassagesAreSafe == ASSUME KbSafe, NEW w \in Workers, Kb!WritePassage(w) PROVE KbSafe'
<1>1. PICK j \in WriteJobs : j = job[w] /\ j.op = "write" /\ j.left # {}
  BY KindsOfJobs DEF KbSafe, KbTyped, Kb!WritePassage
<1>2. PICK d \in KbDocuments : d = Kb!At(w) /\ d \in j.left /\ d \in DOMAIN j.documents
  BY <1>1, FirstOfDocuments DEF Kb!At, WriteJobs
<1>3. PICK acl \in Acls : acl = j.documents[d]
  BY <1>2 DEF WriteJobs, Plans
<1>4. PICK g \in Gens : g = j.generation
  BY DEF WriteJobs
<1>5. /\ passages' = [passages EXCEPT ![g][d] = Append(passages[g][d], acl)]
      /\ UNCHANGED <<states, v3, bodies, active, promoter, job>>
  BY <1>1, <1>2, <1>3, <1>4 DEF Kb!WritePassage
<1>6. KbTyped /\ passages[g][d] \in Seq(Acls)
  BY DEF KbSafe, KbTyped
<1>7. /\ passages'[g][d] = Append(passages[g][d], acl)
      /\ \A x \in KbDocuments : x # d => passages'[g][x] = passages[g][x]
      /\ \A h \in Gens : h # g => passages'[h] = passages[h]
  BY <1>5, <1>6 DEF KbTyped
<1>8. KbTyped'
  <2>1. Append(passages[g][d], acl) \in Seq(Acls)
    BY <1>6
  <2>2. passages' \in [Gens -> [KbDocuments -> Seq(Acls)]]
    BY <1>5, <1>6, <2>1 DEF KbTyped
  <2> QED
    BY <1>5, <1>6, <2>2 DEF KbTyped
<1>9. job' = [job EXCEPT ![w] = j]
  BY <1>1, <1>5, <1>6 DEF KbTyped
<1>10. \A x \in KbDocuments : Written(j, x)'
  <2>1. \A x \in KbDocuments : Written(j, x)
    BY <1>1 DEF KbSafe, WriterIsSafe
  <2>2. Written(j, d)'
    <3>1. \A i \in DOMAIN passages[g][d] : passages[g][d][i] = acl
      BY <1>2, <1>3, <1>4, <2>1 DEF Written
    <3>2. \A i \in DOMAIN passages'[g][d] : passages'[g][d][i] = acl
      BY <1>6, <1>7, <3>1
    <3> QED
      BY <1>2, <1>3, <1>4, <3>2 DEF Written
  <2>3. ASSUME NEW x \in KbDocuments, x # d PROVE Written(j, x)'
    BY <1>4, <1>5, <1>7, <2>1, <2>3 DEF Written
  <2> QED
    BY <2>2, <2>3
<1>11. \A x \in KbDocuments : passages[g][x] # <<>> => passages'[g][x] # <<>>
  BY <1>6, <1>7
<1>12. \A h \in Gens \ {g} : passages'[h] = passages[h] /\ v3'[h] = v3[h] /\ bodies'[h] = bodies[h]
  BY <1>5, <1>7
<1>13. job[w].op = "write" /\ j.generation = job[w].generation /\ UNCHANGED <<states, active, promoter>>
  BY <1>1, <1>5
<1> QED
  BY <1>13, <1>4, <1>8, <1>9, <1>10, <1>11, <1>12, WritesAreSafe

LEMMA CatalogIsSafe == ASSUME KbSafe, NEW w \in Workers, Kb!WriteCatalog(w) PROVE KbSafe'
<1>1. PICK i \in WriteJobs : i = job[w] /\ i.op = "write" /\ i.left # {}
  BY KindsOfJobs DEF KbSafe, KbTyped, Kb!WriteCatalog
<1>2. PICK d \in KbDocuments : d = Kb!At(w) /\ d \in i.left /\ d \in DOMAIN i.documents
  BY <1>1, FirstOfDocuments DEF Kb!At, WriteJobs
<1>3. PICK acl \in Acls : acl = i.documents[d]
  BY <1>2 DEF WriteJobs, Plans
<1>4. PICK g \in Gens : g = i.generation
  BY DEF WriteJobs
<1>5. PICK j \in WriteJobs :
        /\ j.op = "write" /\ j.generation = g /\ j.documents = i.documents /\ j.left = i.left \ {d}
        /\ job' = [job EXCEPT ![w] = j]
  <2>1. [i EXCEPT !.left = i.left \ {d}] \in WriteJobs
    BY DEF WriteJobs
  <2>2. job' = [job EXCEPT ![w] = [i EXCEPT !.left = i.left \ {d}]]
    BY <1>1, <1>2 DEF Kb!WriteCatalog, Kb!Go
  <2> QED
    BY <1>4, <2>1, <2>2 DEF WriteJobs
<1>6. /\ Len(passages[g][d]) = PassagesEach
      /\ v3' = [v3 EXCEPT ![g][d] = acl] /\ bodies' = [bodies EXCEPT ![g][d] = Kb!Original]
      /\ UNCHANGED <<states, passages, active, promoter>>
  BY <1>1, <1>2, <1>3, <1>4 DEF Kb!WriteCatalog, Kb!SeedBody
<1>7. KbTyped /\ Kb!Original \in [passages : Nat, original : BOOLEAN]
  BY GenerationsAreNumbered DEF KbSafe, Kb!Original
<1>8. /\ v3'[g][d] = acl /\ bodies'[g][d] = Kb!Original
      /\ \A x \in KbDocuments : x # d => v3'[g][x] = v3[g][x] /\ bodies'[g][x] = bodies[g][x]
      /\ \A h \in Gens : h # g => v3'[h] = v3[h] /\ bodies'[h] = bodies[h]
  BY <1>6, <1>7 DEF KbTyped
<1>9. KbTyped'
  <2>1. v3' \in [Gens -> [KbDocuments -> Acls \cup {Kb!NoRow}]]
    BY <1>6, <1>7 DEF KbTyped
  <2>2. bodies' \in [Gens -> [KbDocuments -> [passages : Nat, original : BOOLEAN]]]
    BY <1>6, <1>7 DEF KbTyped
  <2>3. job' \in [Workers -> Jobs]
    BY <1>5, <1>7 DEF KbTyped, Jobs
  <2> QED
    BY <1>6, <1>7, <2>1, <2>2, <2>3 DEF KbTyped
<1>10. \A x \in KbDocuments : Written(j, x)'
  <2>1. \A x \in KbDocuments : Written(i, x)
    BY <1>1 DEF KbSafe, WriterIsSafe
  <2>2. Written(j, d)'
    <3>1. \A n \in DOMAIN passages[g][d] : passages[g][d][n] = acl
      BY <1>2, <1>3, <1>4, <2>1 DEF Written
    <3> QED
      BY <1>2, <1>3, <1>4, <1>5, <1>6, <1>8, <3>1 DEF Written
  <2>3. ASSUME NEW x \in KbDocuments, x # d PROVE Written(j, x)'
    BY <1>4, <1>5, <1>6, <1>8, <2>1, <2>3 DEF Written
  <2> QED
    BY <2>2, <2>3
<1>11. \A x \in KbDocuments : passages[g][x] # <<>> => passages'[g][x] # <<>>
  BY <1>6
<1> QED
  BY <1>1, <1>4, <1>5, <1>6, <1>8, <1>9, <1>10, <1>11, WritesAreSafe

(* A generation is built to the end, or it failed.                         *)
LEMMA BuiltGenerationIsSafe == ASSUME KbSafe, NEW w \in Workers, Kb!Finish(w) PROVE KbSafe'
<1>0. /\ KbTyped /\ OneIsActive /\ BuiltAreWhole /\ AbsentAreEmpty
      /\ UNCHANGED <<passages, v3, bodies, active, promoter>> /\ job[w].op = "write"
  BY DEF KbSafe, Kb!Finish
<1>1. PICK i \in WriteJobs : i = job[w] /\ i.left = {} /\ WriterIsSafe(i) /\ i.op = "write"
  BY KindsOfJobs DEF KbSafe, KbTyped, Kb!Finish
<1>2. PICK g \in Gens : g = i.generation
  BY DEF WriteJobs
<1>3. PICK s \in {"ready", "failed"} : states' = [states EXCEPT ![g] = s]
  BY <1>1, <1>2 DEF Kb!Finish
<1>4. states[g] = "indexing" /\ \A d \in KbDocuments : Written(i, d)
  BY <1>1, <1>2 DEF WriterIsSafe
<1>5. /\ states' \in [Gens -> {"absent", "indexing", "ready", "failed", "active", "archived"}]
      /\ \A h \in Gens : states'[h] = IF h = g THEN s ELSE states[h]
  BY <1>0, <1>3 DEF KbTyped
<1>6. job' = [job EXCEPT ![w] = Kb!Idle]
  BY DEF Kb!Finish, Kb!End, Kb!Go
<1>7. \A x \in Workers : job'[x] = IF x = w THEN Kb!Idle ELSE job[x]
  BY <1>0, <1>6 DEF KbTyped
<1>8. KbTyped'
  BY <1>0, <1>5, <1>6, IdleIsSafe DEF KbTyped
<1>9. OneIsActive' /\ AbsentAreEmpty'
  BY <1>0, <1>4, <1>5, GenerationsAreNumbered DEF OneIsActive, AbsentAreEmpty, Gens
<1>10. BuiltAreWhole'
  <2>1. ASSUME NEW d \in KbDocuments, passages[g][d] # <<>> PROVE Whole(g, d)
    <3>1. d \in DOMAIN i.documents \ i.left
      BY <1>1, <1>2, <1>4, <2>1 DEF Written
    <3>2. PICK acl \in Acls : acl = i.documents[d]
      BY <3>1 DEF WriteJobs, Plans
    <3>3. /\ \A n \in DOMAIN passages[g][d] : passages[g][d][n] = acl
          /\ Len(passages[g][d]) = PassagesEach /\ bodies[g][d] = Kb!Original /\ v3[g][d] = acl
      BY <1>2, <1>4, <3>1, <3>2 DEF Written
    <3>4. passages[g][d] \in Seq(Acls)
      BY <1>0 DEF KbTyped
    <3>5. passages[g][d][1] = acl
      BY <2>1, <3>3, <3>4
    <3> QED
      BY <3>3, <3>5 DEF Whole
  <2>2. \A h \in Gens : h # g => (Built(h)' => Built(h))
    BY <1>5 DEF Built
  <2>3. \A h \in Gens, d \in KbDocuments : Whole(h, d) => Whole(h, d)'
    BY <1>0 DEF Whole
  <2> QED
    BY <1>0, <2>1, <2>2, <2>3 DEF BuiltAreWhole
<1>11. OneWriter'
  BY <1>7, IdleIsSafe DEF KbSafe, OneWriter
<1>12. ASSUME NEW x \in Workers, x # w PROVE WriterIsSafe(job[x])' /\ ReaderIsSafe(job[x])'
  <2>1. job'[x] = job[x]
    BY <1>7, <1>12
  <2>2. \A h \in Gens : Built(h) => passages'[h] = passages[h] /\ states'[h] \in {"ready", "active", "archived"}
    BY <1>0, <1>4, <1>5 DEF Built
  <2>3. \A h \in Gens : \A d \in KbDocuments : passages[h][d] # <<>> => passages'[h][d] # <<>>
    BY <1>0
  <2>4. \A h \in Gens : job[x].op = "write" /\ h = job[x].generation =>
          passages'[h] = passages[h] /\ v3'[h] = v3[h] /\ bodies'[h] = bodies[h] /\ states'[h] = states[h]
    BY <1>0, <1>1, <1>2, <1>5, <1>12, WriterIsAlone
  <2> QED
    BY <2>1, <2>2, <2>3, <2>4, ReadersAreLeft, WritersAreLeft
<1>13. WriterIsSafe(job[w])' /\ ReaderIsSafe(job[w])'
  <2>1. job'[w] = Kb!Idle
    BY <1>7
  <2> QED
    BY <2>1, IdleIsSafe DEF WriterIsSafe, ReaderIsSafe
<1>14. (\A p \in KbPeople \ KbOperators : promoter = p.user => OwnedBy(p, active))'
  BY <1>0 DEF KbSafe, OwnedBy
<1> QED
  BY <1>8, <1>9, <1>10, <1>11, <1>12, <1>13, <1>14 DEF KbSafe

(* The switch of the served generation.                                    *)
LEMMA ActivateIsSafe == ASSUME KbSafe, NEW w \in Workers, Kb!Activate(w) PROVE KbSafe'
<1>0. /\ KbTyped /\ OneIsActive /\ BuiltAreWhole /\ AbsentAreEmpty
      /\ UNCHANGED <<passages, v3, bodies>> /\ Kb!End(w)
  BY DEF KbSafe, Kb!Activate
<1>1. PICK i \in PromotingJobs : i = job[w] /\ i.op = "activate" /\ ReaderIsSafe(i)
  BY KindsOfJobs DEF KbSafe, KbTyped, Kb!Activate
<1>2. PICK g \in Gens : g = i.generation
  BY DEF PromotingJobs
<1>3. PICK p \in KbPeople : p = i.by /\ (p \notin KbOperators => OwnedBy(p, g))
  BY <1>1, <1>2 DEF ReaderIsSafe
<1>4. Kb!Activated(g) \in [Gens -> {"absent", "indexing", "ready", "failed", "active", "archived"}]
      /\ \A h \in Gens : Kb!Activated(g)[h] = IF h = g /\ states[h] = "ready" THEN "active" ELSE states[h]
  BY <1>0 DEF Kb!Activated, KbTyped
<1>5. CASE Kb!Activated(g)[g] # "active"
  <2>1. UNCHANGED <<active, states, promoter>>
    BY <1>1, <1>2, <1>5 DEF Kb!Activate
  <2> QED
    BY <1>0, <2>1, EndingIsSafe DEF Kb!tables
<1>6. CASE Kb!Activated(g)[g] = "active"
  <2>1. /\ active' = g
        /\ states' = [h \in Gens |-> IF h # g /\ Kb!Activated(g)[h] = "active" THEN "archived" ELSE Kb!Activated(g)[h]]
        /\ promoter' = IF states[g] = "ready" THEN p.user ELSE promoter
    BY <1>1, <1>2, <1>3, <1>6 DEF Kb!Activate, Kb!Generations, Gens
  <2>2. /\ states[g] \in {"ready", "active"}
        /\ \A h \in Gens : states'[h] = IF h = g THEN "active" ELSE IF states[h] = "active" THEN "archived" ELSE states[h]
    BY <1>4, <1>6, <2>1
  <2>3. states' \in [Gens -> {"absent", "indexing", "ready", "failed", "active", "archived"}]
    BY <1>4, <2>1
  <2>4. job' = [job EXCEPT ![w] = Kb!Idle] /\ \A x \in Workers : job'[x] = IF x = w THEN Kb!Idle ELSE job[x]
    BY <1>0 DEF Kb!End, Kb!Go, KbTyped
  <2>5. KbTyped'
    BY <1>0, <2>1, <2>3, <2>4, IdleIsSafe DEF KbTyped
  <2>6. OneIsActive' /\ AbsentAreEmpty'
    BY <1>0, <2>1, <2>2, GenerationsAreNumbered DEF OneIsActive, AbsentAreEmpty, Gens
  <2>7. \A h \in Gens : Built(h) <=> Built(h)'
    BY <2>2 DEF Built
  <2>8. BuiltAreWhole'
    BY <1>0, <2>7 DEF BuiltAreWhole, Whole
  <2>9. OneWriter'
    BY <2>4, IdleIsSafe DEF KbSafe, OneWriter
  <2>10. ASSUME NEW x \in Workers, x # w PROVE WriterIsSafe(job[x])' /\ ReaderIsSafe(job[x])'
    <3>1. job'[x] = job[x]
      BY <2>4, <2>10
    <3>2. \A h \in Gens : Built(h) => passages'[h] = passages[h] /\ states'[h] \in {"ready", "active", "archived"}
      BY <1>0, <2>7 DEF Built
    <3>3. \A h \in Gens : \A d \in KbDocuments : passages[h][d] # <<>> => passages'[h][d] # <<>>
      BY <1>0
    <3>4. \A h \in Gens : job[x].op = "write" /\ h = job[x].generation =>
            passages'[h] = passages[h] /\ v3'[h] = v3[h] /\ bodies'[h] = bodies[h] /\ states'[h] = states[h]
      <4>1. job[x].op = "write" => states[job[x].generation] = "indexing"
        BY DEF KbSafe, WriterIsSafe
      <4> QED
        BY <1>0, <2>2, <4>1
    <3> QED
      BY <3>1, <3>2, <3>3, <3>4, ReadersAreLeft, WritersAreLeft
  <2>11. WriterIsSafe(job[w])' /\ ReaderIsSafe(job[w])'
    <3>1. job'[w] = Kb!Idle
      BY <2>4
    <3> QED
      BY <3>1, IdleIsSafe DEF WriterIsSafe, ReaderIsSafe
  <2>12. ASSUME NEW q \in KbPeople \ KbOperators, promoter' = q.user PROVE OwnedBy(q, active)'
    <3>1. OwnedBy(q, g)
      <4>1. CASE states[g] = "ready"
        BY <1>3, <2>1, <2>12, <4>1, PeopleAreDistinct
      <4>2. CASE states[g] = "active"
        <5>1. g = active /\ promoter = q.user
          BY <1>0, <2>1, <2>12, <4>2 DEF OneIsActive
        <5> QED
          BY <5>1 DEF KbSafe
      <4> QED
        BY <2>2, <4>1, <4>2
    <3> QED
      BY <1>0, <2>1, <3>1 DEF OwnedBy
  <2> QED
    BY <2>5, <2>6, <2>8, <2>9, <2>10, <2>11, <2>12 DEF KbSafe
<1> QED
  BY <1>5, <1>6

(* The catalog of what was written is not changed by a backfill.           *)
LEMMA FillIsSafe == ASSUME KbSafe, NEW w \in Workers, Kb!Fill(w) PROVE KbSafe'
<1>0. /\ KbTyped /\ OneIsActive /\ BuiltAreWhole /\ AbsentAreEmpty
      /\ UNCHANGED <<states, passages, active, promoter>>
  BY DEF KbSafe, Kb!Fill
<1>1. PICK i \in FillingJobs : i = job[w] /\ i.op = "fill" /\ ReaderIsSafe(i)
  BY KindsOfJobs DEF KbSafe, KbTyped, Kb!Fill
<1>2. PICK g \in Gens : g = i.generation
  BY DEF FillingJobs
<1>3. PICK d \in KbDocuments, n \in Nat : d = i.read[1] /\ n = i.read[2] /\ d \in DOMAIN i.validated
  <2>1. i.read \in KbDocuments \X Nat /\ i.read[1] \in DOMAIN i.validated
    BY <1>1 DEF FillingJobs
  <2> QED
    BY <2>1
<1>4. PICK acl \in Acls : acl = i.validated[d]
  BY <1>3 DEF FillingJobs, Plans
<1>5. /\ v3' = [v3 EXCEPT ![g][d] = IF v3[g][d] = Kb!NoRow THEN acl ELSE v3[g][d]]
      /\ bodies' = [bodies EXCEPT ![g][d] = IF bodies[g][d] = Kb!NoBody THEN [passages |-> n, original |-> FALSE]
                                            ELSE bodies[g][d]]
  BY <1>1, <1>2, <1>3, <1>4 DEF Kb!Fill
<1>6. PICK j \in Jobs : /\ j.op = "reread" /\ j.by = i.by /\ j.generation = g /\ j.next = i.next
                        /\ job' = [job EXCEPT ![w] = j]
  <2> DEFINE new == [i EXCEPT !.op = "reread", !.read = <<>>]
  <2>1. new \in FillingJobs /\ new.op = "reread" /\ new.by = i.by /\ new.generation = i.generation /\ new.next = i.next
    BY <1>1 DEF FillingJobs
  <2>2. job' = [job EXCEPT ![w] = new]
    BY <1>1 DEF Kb!Fill, Kb!Go
  <2> HIDE DEF new
  <2> QED
    BY <1>2, <2>1, <2>2 DEF Jobs
<1>7. \A x \in Workers : job'[x] = IF x = w THEN j ELSE job[x]
  BY <1>0, <1>6 DEF KbTyped
<1>8. KbTyped'
  <2>1. v3' \in [Gens -> [KbDocuments -> Acls \cup {Kb!NoRow}]]
    BY <1>0, <1>5 DEF KbTyped
  <2>2. bodies' \in [Gens -> [KbDocuments -> [passages : Nat, original : BOOLEAN]]]
    <3>1. [passages |-> n, original |-> FALSE] \in [passages : Nat, original : BOOLEAN]
      OBVIOUS
    <3> QED
      BY <1>0, <1>5, <3>1 DEF KbTyped
  <2> QED
    BY <1>0, <1>6, <2>1, <2>2 DEF KbTyped
<1>9. \A h \in Gens, x \in KbDocuments : /\ v3[h][x] # Kb!NoRow => v3'[h][x] = v3[h][x]
                                         /\ bodies[h][x] # Kb!NoBody => bodies'[h][x] = bodies[h][x]
  BY <1>0, <1>5 DEF KbTyped
<1>10. Kb!Original # Kb!NoBody
  BY DEF Kb!Original, Kb!NoBody
<1>11. OneIsActive' /\ AbsentAreEmpty'
  BY <1>0 DEF OneIsActive, AbsentAreEmpty
<1>12. BuiltAreWhole'
  <2>1. ASSUME NEW h \in Gens, NEW x \in KbDocuments, passages[h][x] # <<>>, Whole(h, x) PROVE Whole(h, x)'
    <3>1. passages[h][x][1] \in Acls
      <4>1. passages[h][x] \in Seq(Acls)
        BY <1>0 DEF KbTyped
      <4> QED
        BY <2>1, <4>1
    <3>2. v3'[h][x] = v3[h][x] /\ bodies'[h][x] = bodies[h][x]
      BY <1>9, <1>10, <2>1, <3>1, NoRowIsNoAccess DEF Whole
    <3> QED
      BY <1>0, <2>1, <3>2 DEF Whole
  <2>2. \A h \in Gens : Built(h)' <=> Built(h)
    BY <1>0 DEF Built
  <2> QED
    BY <1>0, <2>1, <2>2 DEF BuiltAreWhole
<1>13. OneWriter'
  BY <1>6, <1>7 DEF KbSafe, OneWriter
<1>14. ASSUME NEW x \in Workers, x # w PROVE WriterIsSafe(job[x])' /\ ReaderIsSafe(job[x])'
  <2>1. job'[x] = job[x]
    BY <1>7, <1>14
  <2>2. \A h \in Gens : Built(h) => passages'[h] = passages[h] /\ states'[h] \in {"ready", "active", "archived"}
    BY <1>0 DEF Built
  <2>3. \A h \in Gens : \A y \in KbDocuments : passages[h][y] # <<>> => passages'[h][y] # <<>>
    BY <1>0
  <2>4. PICK k \in Jobs : k = job[x] /\ WriterIsSafe(k)
    BY <1>0 DEF KbSafe, KbTyped
  <2>5. WriterIsSafe(k)'
    <3> SUFFICES ASSUME k.op = "write", NEW y \in KbDocuments PROVE states'[k.generation] = "indexing" /\ Written(k, y)'
      BY DEF WriterIsSafe
    <3>1. states[k.generation] = "indexing" /\ Written(k, y) /\ k \in WriteJobs
      BY <2>4, KindsOfJobs DEF WriterIsSafe
    <3>2. k.generation \in Gens /\ k.documents \in Plans
      BY <3>1 DEF WriteJobs
    <3>3. y \in DOMAIN k.documents => k.documents[y] \in Acls
      BY <3>2 DEF Plans
    <3>4. y \in DOMAIN k.documents \ k.left =>
            v3'[k.generation][y] = v3[k.generation][y] /\ bodies'[k.generation][y] = bodies[k.generation][y]
      BY <1>9, <1>10, <3>1, <3>2, <3>3, NoRowIsNoAccess DEF Written
    <3> QED
      BY <1>0, <3>1, <3>4 DEF Written
  <2>6. job'[x] = k
    BY <2>1, <2>4
  <2>7. WriterIsSafe(job[x])'
    BY <2>5, <2>6 DEF WriterIsSafe, Written
  <2> QED
    BY <2>1, <2>2, <2>3, <2>7, ReadersAreLeft
<1>15. WriterIsSafe(job[w])' /\ ReaderIsSafe(job[w])'
  <2>1. WriterIsSafe(j)'
    BY <1>6 DEF WriterIsSafe
  <2>2. ReaderIsSafe(j)
    BY <1>1, <1>2, <1>6, CarriesOn
  <2>3. ReaderIsSafe(j)'
    BY <1>0, <2>2 DEF ReaderIsSafe, Built, OwnedBy
  <2>4. job'[w] = j
    BY <1>7
  <2> QED
    BY <2>1, <2>3, <2>4, OwnPartIsSafe
<1>16. (\A p \in KbPeople \ KbOperators : promoter = p.user => OwnedBy(p, active))'
  BY <1>0 DEF KbSafe, OwnedBy
<1> QED
  BY <1>8, <1>11, <1>12, <1>13, <1>14, <1>15, <1>16 DEF KbSafe

(* One step of the calls in flight.                                        *)
LEMMA KbStepSafe == ASSUME KbSafe, [Kb!KbNext]_Kb!kbVars PROVE KbSafe'
<1>1. CASE UNCHANGED Kb!kbVars
  <2>1. UNCHANGED <<states, passages, v3, bodies, active, promoter, job>>
    BY <1>1 DEF Kb!kbVars
  <2>2. KbTyped' /\ BuiltAreWhole' /\ OneIsActive' /\ AbsentAreEmpty' /\ OneWriter'
    BY <2>1 DEF KbSafe, KbTyped, BuiltAreWhole, Whole, Built, OneIsActive, AbsentAreEmpty, OneWriter
  <2>3. \A w \in Workers : WriterIsSafe(job[w])' /\ ReaderIsSafe(job[w])'
    BY <2>1 DEF KbSafe, WriterIsSafe, Written, ReaderIsSafe, Built, OwnedBy
  <2> QED
    BY <2>1, <2>2, <2>3 DEF KbSafe, OwnedBy
<1>2. CASE Kb!KbNext
  <2>1. PICK w \in Workers : Kb!KbStep(w)
    BY <1>2 DEF Kb!KbNext
  <2>2. ASSUME Kb!Die(w) PROVE KbSafe'
    BY <2>2, EndingIsSafe DEF Kb!Die
  <2> QED
    BY <2>1, <2>2, BeginsAreSafe, KbLoadsAreSafe, NewGenerationIsSafe, PassagesAreSafe, CatalogIsSafe, BuiltGenerationIsSafe,
       PromotionsAreSafe, FillersReadSafely, FillIsSafe, ActivateIsSafe DEF Kb!KbStep
<1> QED
  BY <1>1, <1>2

(* The predicate of SQL says what the rule on a chunk says: both set the   *)
(* operator capability aside.                                              *)
LEMMA SqlSaysTheSame ==
  ASSUME NEW p \in KbPeople, NEW acl
  PROVE  Kb!SqlAllows(Kb!FilterFor(p), acl) <=> Kb!CanAccess(p, acl)
<1>1. p = [user |-> p.user, roles |-> p.roles, departments |-> p.departments]
  BY PeopleAreDistinct
<1>2. /\ Kb!FilterFor(p).user = p.user /\ Kb!FilterFor(p).departments = p.departments
      /\ Kb!FilterFor(p).roles = p.roles \ {"admin"}
  BY <1>1 DEF Kb!FilterFor
<1> HIDE DEF Kb!FilterFor
<1>3. acl.roles \cap (p.roles \ {"admin"}) = (acl.roles \ {"admin"}) \cap p.roles
  OBVIOUS
<1> QED
  BY <1>2, <1>3 DEF Kb!SqlAllows, Kb!CanAccess

LEMMA ServedIsSafe == KbSafe => Kb!ServedIsWhole /\ Kb!MembersPromoteTheirOwn
<1> SUFFICES ASSUME KbSafe PROVE Kb!ServedIsWhole /\ Kb!MembersPromoteTheirOwn
  OBVIOUS
<1>0. KbTyped /\ OneIsActive /\ BuiltAreWhole /\ active \in Gens /\ Kb!Generations = Gens
  BY DEF KbSafe, KbTyped, Kb!Generations, Gens
<1>1. Kb!StoredDocuments(active) = {d \in KbDocuments : passages[active][d] # <<>>}
  BY DEF Kb!StoredDocuments
<1>2. ASSUME active # 1, NEW d \in Kb!StoredDocuments(active) PROVE Whole(active, d)
  <2>1. Built(active)
    BY <1>0 DEF OneIsActive, Built
  <2> QED
    BY <1>0, <1>1, <1>2, <2>1 DEF BuiltAreWhole
<1>3. ASSUME NEW p \in KbPeople, NEW d \in Kb!Library(p) PROVE Kb!MayRead(p, d)
  <2>1. \A acl \in {passages[active][d][i] : i \in DOMAIN passages[active][d]} : Kb!SqlAllows(Kb!FilterFor(p), acl)
    BY <1>3 DEF Kb!Library, Kb!ReadableDocument
  <2> QED
    BY <2>1, SqlSaysTheSame DEF Kb!MayRead
<1>4. ASSUME NEW p \in KbPeople, active # 1, NEW d \in Kb!StoredDocuments(active), Kb!MayRead(p, d)
      PROVE  d \in Kb!Library(p)
  <2>1. Whole(active, d) /\ d \in KbDocuments /\ passages[active][d] # <<>> /\ passages[active][d] \in Seq(Acls)
    BY <1>0, <1>1, <1>2, <1>4 DEF KbTyped
  <2>2. 1 \in DOMAIN passages[active][d] /\ passages[active][d][1] \in Acls
    BY <2>1
  <2>3. v3[active][d] # Kb!NoRow /\ bodies[active][d] # Kb!NoBody
    <3>1. Kb!Original # Kb!NoBody
      BY DEF Kb!Original, Kb!NoBody
    <3> QED
      BY <2>1, <2>2, <3>1, NoRowIsNoAccess DEF Whole
  <2>4. \A i \in DOMAIN passages[active][d] : Kb!SqlAllows(Kb!FilterFor(p), passages[active][d][i])
    BY <1>4, SqlSaysTheSame DEF Kb!MayRead
  <2>5. Kb!SqlAllows(Kb!FilterFor(p), v3[active][d])
    BY <2>1, <2>2, <2>4 DEF Whole
  <2>6. Kb!ReadableDocument(p, v3[active][d], bodies[active][d] # Kb!NoBody,
                            {passages[active][d][i] : i \in DOMAIN passages[active][d]})
    BY <2>2, <2>3, <2>4, <2>5, Zenon DEF Kb!ReadableDocument
  <2> QED
    BY <1>4, <2>3, <2>6, Zenon DEF Kb!Library
<1>5. Kb!ServedIsWhole
  <2>1. \A g \in Kb!Generations : states[g] = "active" <=> g = active
    BY <1>0 DEF OneIsActive
  <2>2. active # 1 => \A d \in Kb!StoredDocuments(active) :
          Len(passages[active][d]) = PassagesEach /\ bodies[active][d] = Kb!Original
          /\ v3[active][d] = passages[active][d][1]
    BY <1>2 DEF Whole
  <2> QED
    BY <1>3, <1>4, <2>1, <2>2, Zenon DEF Kb!ServedIsWhole
<1>6. Kb!MembersPromoteTheirOwn
  BY <1>1 DEF KbSafe, OwnedBy, Kb!MembersPromoteTheirOwn, Kb!Owner
<1> QED
  BY <1>5, <1>6

(* A generation that is served is the one active one, built to the end     *)
(* with the rows and bodies of its documents, and a member who promoted it *)
(* might, whatever builds, backfills, promotions and dying Workers went    *)
(* past each other: the library shows a member the documents he may read   *)
(* (seed.ts, promote-auth.ts, document-catalog.ts).                        *)
THEOREM ServedGenerationsAreWhole ==
  Spec => [](part = "knowledge" => Kb!ServedIsWhole /\ Kb!MembersPromoteTheirOwn)
<1> DEFINE Safe == part = "knowledge" => KbSafe
<1>1. Init => Safe
  BY KbInitSafe DEF Init
<1>2. Safe /\ [Next]_allVars => Safe'
  <2> SUFFICES ASSUME Safe, [Next]_allVars, part' = "knowledge" PROVE KbSafe'
    OBVIOUS
  <2>1. part = "knowledge"
    BY DEF Next, allVars
  <2>2. [Kb!KbNext]_Kb!kbVars
    BY <2>1 DEF Next, allVars, slots, Kb!kbVars
  <2> QED
    BY <2>1, <2>2, KbStepSafe
<1>3. Safe => (part = "knowledge" => Kb!ServedIsWhole /\ Kb!MembersPromoteTheirOwn)
  BY ServedIsSafe
<1> QED
  BY <1>1, <1>2, <1>3, PTL DEF Spec

-----------------------------------------------------------------------------
(* Retrieval.                                                              *)

search      == v4
keywordRows == v5
vectorRows  == v6
head        == v7
hits        == v8

USE DEF search, keywordRows, vectorRows, head, hits

PinnedChunks == {c \in Chunks : Corpus[c].generation = TurnGeneration}

Channels == {Find!Pending, Find!Failed} \cup {Find!Found(scores) : scores \in Find!ScoresOf(PinnedChunks)}

Searching == [stage : {"idle", "shapes", "channels", "reranking", "done", "failed"}, principal : Askers,
              document : Find!Documents \cup {"none"}]

(* Of what both channels found, the hits that only the keywords found, and *)
(* the ones that the keywords put before one of them.                      *)
KeywordMisses == {c \in Find!KeywordHits : Find!KeywordOnly(c)}

Better(c) ==
  {d \in KeywordMisses : keywordRows.scores[d] > keywordRows.scores[c]
                         \/ (keywordRows.scores[d] = keywordRows.scores[c] /\ d < c)}

BestAreScored == \A c \in KeywordMisses : Cardinality(Better(c)) < KeywordRescue => c \in head

HeadIsAllowed == \A c \in head : c \in PinnedChunks /\ Find!Allowed(c)

SearchSafe ==
  /\ search \in Searching /\ keywordRows \in Channels /\ vectorRows \in Channels
  /\ hits \subseteq head /\ HeadIsAllowed
  /\ search.stage # "done" => hits = {}
  /\ search.stage \in {"reranking", "done"} => BestAreScored

LEMMA ScoresAreOfThePinned ==
  ASSUME NEW rows1 \in Channels
  PROVE  /\ DOMAIN rows1.scores \subseteq PinnedChunks
         /\ \A c \in DOMAIN rows1.scores : rows1.scores[c] \in 0..MaxScore
<1>1. CASE rows1 \in {Find!Pending, Find!Failed}
  BY <1>1 DEF Find!Pending, Find!Failed, Find!NoScores
<1>2. CASE rows1 \notin {Find!Pending, Find!Failed}
  <2>1. PICK scores \in Find!ScoresOf(PinnedChunks) : rows1 = Find!Found(scores)
    BY <1>2 DEF Channels
  <2>2. PICK found \in SUBSET PinnedChunks : scores \in [found -> 0..MaxScore]
    BY DEF Find!ScoresOf
  <2> QED
    BY <2>1, <2>2 DEF Find!Found
<1> QED
  BY <1>1, <1>2

LEMMA HitsAreAllowed ==
  ASSUME keywordRows \in Channels, vectorRows \in Channels, NEW c \in Find!VectorHits \cup Find!KeywordHits
  PROVE  c \in PinnedChunks /\ Find!Allowed(c)
BY ScoresAreOfThePinned DEF Find!VectorHits, Find!KeywordHits

(* Both are the same while the search goes on and the channels are left.   *)
LEMMA FoundIsLeft ==
  ASSUME UNCHANGED <<keywordRows, vectorRows>>, search'.principal = search.principal,
         search'.document = search.document
  PROVE  /\ \A c : Find!Allowed(c)' <=> Find!Allowed(c)
         /\ KeywordMisses' = KeywordMisses
<1>1. \A c : Find!Allowed(c)' <=> Find!Allowed(c)
  BY DEF Find!Allowed, Find!CanAccess, Find!InScope
<1>2. Find!KeywordHits' = Find!KeywordHits /\ Find!VectorHits' = Find!VectorHits
  BY <1>1 DEF Find!KeywordHits, Find!VectorHits
<1> QED
  BY <1>1, <1>2 DEF KeywordMisses, Find!KeywordOnly

LEMMA SearchInitSafe == Find!RetrievalInit => SearchSafe
<1> SUFFICES ASSUME Find!RetrievalInit PROVE SearchSafe
  OBVIOUS
<1>1. (CHOOSE p \in Askers : TRUE) \in Askers
  BY SomebodyAsks
<1>2. search \in Searching /\ search.stage = "idle"
  BY <1>1 DEF Find!RetrievalInit, Find!Idle, Find!None, Searching
<1> QED
  BY <1>2 DEF Find!RetrievalInit, SearchSafe, Channels, HeadIsAllowed

(* A step of the search that leaves what was found and what is asked for.  *)
LEMMA SearchMovesSafely ==
  ASSUME SearchSafe, search' \in Searching, UNCHANGED <<keywordRows, vectorRows, head>>,
         search'.principal = search.principal, search'.document = search.document,
         search'.stage \in {"reranking", "done"} => search.stage \in {"reranking", "done"},
         hits' \subseteq head, search'.stage # "done" => hits' = {}
  PROVE  SearchSafe'
<1>1. (\A c : Find!Allowed(c)' <=> Find!Allowed(c)) /\ KeywordMisses' = KeywordMisses
  BY FoundIsLeft
<1>2. HeadIsAllowed'
  <2>1. \A c \in head : c \in PinnedChunks /\ Find!Allowed(c)
    BY DEF SearchSafe, HeadIsAllowed
  <2> QED
    BY <1>1, <2>1 DEF HeadIsAllowed
<1>3. BestAreScored => BestAreScored'
  <2>1. \A c : Better(c)' = Better(c)
    BY <1>1 DEF Better
  <2> QED
    BY <1>1, <2>1 DEF BestAreScored
<1> QED
  BY <1>2, <1>3 DEF SearchSafe, Channels

-----------------------------------------------------------------------------

LEMMA SlicesAreSmaller ==
  ASSUME NEW T, IsFiniteSet(T), NEW n \in Nat, Cardinality(T) < n, NEW S \in SUBSET T
  PROVE  Cardinality(S) < n
<1>1. IsFiniteSet(S) /\ Cardinality(S) <= Cardinality(T)
  BY FS_Subset
<1> QED
  BY <1>1, FS_CardinalityType

(* Only the keywords count for what only the keywords found.               *)
LEMMA MissesAreOrdered ==
  ASSUME keywordRows \in Channels, NEW c \in KeywordMisses, NEW d \in KeywordMisses
  PROVE  /\ Find!Merged(c) \in Nat /\ Find!Merged(d) \in Nat
         /\ Find!Merged(d) > Find!Merged(c) <=> keywordRows.scores[d] > keywordRows.scores[c]
         /\ Find!Merged(d) = Find!Merged(c) <=> keywordRows.scores[d] = keywordRows.scores[c]
         /\ Find!Reordered(c) = 100 * Find!Merged(c) /\ Find!Reordered(d) = 100 * Find!Merged(d)
<1>1. \A e \in KeywordMisses : e \in Find!KeywordHits /\ e \notin Find!VectorHits
  BY DEF KeywordMisses, Find!KeywordOnly
<1>2. \A e \in Find!KeywordHits : keywordRows.scores[e] \in Nat
  <2>1. MaxScore \in Nat
    BY KeywordsCount
  <2> QED
    BY <2>1, ScoresAreOfThePinned DEF Find!KeywordHits
<1> DEFINE x == keywordRows.scores[c]
           y == keywordRows.scores[d]
<1>3. x \in Nat /\ y \in Nat
  BY <1>1, <1>2
<1>4. Find!Merged(c) = 0 + KeywordWeight * x * MaxScore /\ Find!Merged(d) = 0 + KeywordWeight * y * MaxScore
  BY <1>1 DEF Find!Merged
<1>5. Find!Reordered(c) = 100 * Find!Merged(c) + 0 /\ Find!Reordered(d) = 100 * Find!Merged(d) + 0
  BY <1>1 DEF Find!Reordered
<1> HIDE DEF x, y
<1>6. KeywordWeight \in Nat \ {0} /\ MaxScore \in Nat \ {0}
  BY KeywordsCount
<1>7. \A w, m, a, b \in Nat : w # 0 /\ m # 0 =>
        /\ w * a * m \in Nat
        /\ w * a * m > w * b * m <=> a > b
        /\ w * a * m = w * b * m <=> a = b
  OBVIOUS
<1>8. /\ KeywordWeight * x * MaxScore \in Nat /\ KeywordWeight * y * MaxScore \in Nat
      /\ KeywordWeight * y * MaxScore > KeywordWeight * x * MaxScore <=> y > x
      /\ KeywordWeight * y * MaxScore = KeywordWeight * x * MaxScore <=> y = x
  BY <1>3, <1>6, <1>7
<1>9. Find!Merged(c) \in Nat /\ Find!Merged(d) \in Nat
      /\ Find!Merged(c) = KeywordWeight * x * MaxScore /\ Find!Merged(d) = KeywordWeight * y * MaxScore
  BY <1>4, <1>8
<1>10. Find!Reordered(c) = 100 * Find!Merged(c) /\ Find!Reordered(d) = 100 * Find!Merged(d)
  BY <1>5, <1>9
<1> QED
  BY <1>8, <1>9, <1>10 DEF x, y

(* What a sort by either score puts before such a hit, among such hits, is *)
(* what its keywords put before it.                                        *)
LEMMA AheadIsBetter ==
  ASSUME keywordRows \in Channels, NEW c \in KeywordMisses, NEW S \in SUBSET KeywordMisses, NEW D,
         S \subseteq D, c \in D
  PROVE  /\ Find!Ahead(S, [e \in D |-> Find!Merged(e)], c) \subseteq Better(c)
         /\ Find!Ahead(S, [e \in D |-> Find!Reordered(e)], c) \subseteq Better(c)
<1>1. ASSUME NEW d \in S, Find!Merged(d) > Find!Merged(c) \/ (Find!Merged(d) = Find!Merged(c) /\ d < c)
      PROVE  d \in Better(c)
  BY <1>1, MissesAreOrdered DEF Better
<1>2. ASSUME NEW d \in S,
             Find!Reordered(d) > Find!Reordered(c) \/ (Find!Reordered(d) = Find!Reordered(c) /\ d < c)
      PROVE  d \in Better(c)
  <2>1. /\ Find!Merged(c) \in Nat /\ Find!Merged(d) \in Nat
        /\ Find!Reordered(c) = 100 * Find!Merged(c) /\ Find!Reordered(d) = 100 * Find!Merged(d)
    BY MissesAreOrdered
  <2>2. Find!Merged(d) > Find!Merged(c) \/ (Find!Merged(d) = Find!Merged(c) /\ d < c)
    BY <1>2, <2>1
  <2> QED
    BY <1>1, <2>2
<1> QED
  BY <1>1, <1>2 DEF Find!Ahead

LEMMA CountsTheSame == ASSUME NEW S PROVE Find!Cardinality(S) = Cardinality(S)
BY DEF Find!Cardinality, Cardinality

LEMMA BestIsASlice ==
  ASSUME NEW S, NEW score, NEW n
  PROVE  /\ Find!Best(S, score, n) \subseteq S
         /\ \A c \in S : Cardinality(Find!Ahead(S, score, c)) < n => c \in Find!Best(S, score, n)
<1>1. ASSUME NEW c \in S, Cardinality(Find!Ahead(S, score, c)) < n PROVE c \in Find!Best(S, score, n)
  <2>1. Find!Cardinality(Find!Ahead(S, score, c)) < n
    BY <1>1, CountsTheSame
  <2> QED
    BY <2>1, Zenon DEF Find!Best
<1>2. Find!Best(S, score, n) \subseteq S
  BY Zenon DEF Find!Best
<1> QED
  BY <1>1, <1>2

LEMMA BestReachTheHead ==
  ASSUME keywordRows \in Channels, vectorRows \in Channels, NEW c \in KeywordMisses,
         Cardinality(Better(c)) < KeywordRescue
  PROVE  c \in Find!SelectRerankHead(Find!FuseCandidates)
<1> DEFINE found   == Find!VectorHits \cup Find!KeywordHits
           merged  == [e \in found |-> Find!Merged(e)]
           slice   == Find!Best(found, merged, CandidateLimit)
           missed  == {e \in found \ slice : Find!KeywordOnly(e)}
           fused   == Find!FuseCandidates
           score   == [e \in fused |-> Find!Reordered(e)]
           only    == {e \in fused : Find!KeywordOnly(e)}
           rescued == Find!Best(only, score, KeywordRescue)
<1>1. IsFiniteSet(Better(c)) /\ KeywordRescue \in Nat /\ RerankCandidates \in Nat /\ KeywordRescue <= RerankCandidates
  <2>1. Better(c) \in SUBSET Chunks
    BY HitsAreAllowed DEF Better, KeywordMisses, PinnedChunks
  <2> QED
    BY <2>1, ChunksAreNumbered, RescuedFitTheHead, FS_Subset
<1>2. c \in found /\ Find!KeywordOnly(c)
  BY DEF KeywordMisses
<1>3. missed \in SUBSET KeywordMisses /\ missed \subseteq found
  BY DEF KeywordMisses, Find!KeywordOnly
<1>4. fused = slice \cup Find!Best(missed, merged, KeywordRescue)
  BY DEF Find!FuseCandidates
<1>5. c \in fused
  <2>1. CASE c \in slice
    BY <1>4, <2>1
  <2>2. CASE c \notin slice
    <3>1. c \in missed
      BY <1>2, <2>2
    <3>2. Find!Ahead(missed, merged, c) \subseteq Better(c)
      <4> HIDE DEF missed, found
      <4> QED
        BY <1>2, <1>3, AheadIsBetter
    <3>3. Cardinality(Find!Ahead(missed, merged, c)) < KeywordRescue
      <4> HIDE DEF missed, merged
      <4> QED
        BY <1>1, <3>2, SlicesAreSmaller
    <3>4. c \in Find!Best(missed, merged, KeywordRescue)
      <4> HIDE DEF missed, merged
      <4> QED
        BY <3>1, <3>3, BestIsASlice
    <3> QED
      BY <1>4, <3>4
  <2> QED
    BY <2>1, <2>2
<1>6. fused \subseteq found
  <2>1. slice \subseteq found /\ Find!Best(missed, merged, KeywordRescue) \subseteq missed
    <3> HIDE DEF missed, found, merged
    <3> QED
      BY BestIsASlice
  <2> HIDE DEF slice, missed, merged
  <2> QED
    BY <1>3, <1>4, <2>1
<1>7. only \in SUBSET KeywordMisses /\ only \subseteq fused /\ c \in only
  BY <1>2, <1>5, <1>6 DEF KeywordMisses, Find!KeywordOnly
<1>8. \A S \in SUBSET only : Cardinality(Find!Ahead(S, score, c)) < KeywordRescue
  <2> HIDE DEF only, fused
  <2>1. ASSUME NEW S \in SUBSET only PROVE Cardinality(Find!Ahead(S, score, c)) < KeywordRescue
    <3>1. S \in SUBSET KeywordMisses /\ S \subseteq fused /\ c \in fused
      BY <1>5, <1>7
    <3>2. Find!Ahead(S, score, c) \subseteq Better(c)
      BY <3>1, AheadIsBetter
    <3> HIDE DEF score
    <3> QED
      BY <1>1, <3>2, SlicesAreSmaller
  <2> QED
    BY <2>1
<1>9. rescued \subseteq only /\ c \in rescued
  <2>1. Cardinality(Find!Ahead(only, score, c)) < KeywordRescue
    BY <1>8
  <2> HIDE DEF score, only
  <2> QED
    BY <1>7, <2>1, BestIsASlice
<1>10. c \in Find!Best(rescued, score, RerankCandidates)
  <2>1. Cardinality(Find!Ahead(rescued, score, c)) < KeywordRescue
    BY <1>8, <1>9
  <2>2. IsFiniteSet(Find!Ahead(rescued, score, c))
    <3>1. Find!Ahead(rescued, score, c) \subseteq only
      BY <1>9 DEF Find!Ahead
    <3>2. only \in SUBSET Chunks
      BY <1>7, HitsAreAllowed DEF KeywordMisses, PinnedChunks
    <3> QED
      BY <3>1, <3>2, ChunksAreNumbered, FS_Subset
  <2>3. Cardinality(Find!Ahead(rescued, score, c)) < RerankCandidates
    BY <1>1, <2>1, <2>2, FS_CardinalityType
  <2> HIDE DEF rescued, score
  <2> QED
    BY <1>9, <2>3, BestIsASlice
<1> QED
  BY <1>10, Zenon DEF Find!SelectRerankHead

-----------------------------------------------------------------------------

LEMMA HeadIsFound ==
  Find!SelectRerankHead(Find!FuseCandidates) \subseteq Find!VectorHits \cup Find!KeywordHits
<1> DEFINE found   == Find!VectorHits \cup Find!KeywordHits
           merged  == [e \in found |-> Find!Merged(e)]
           slice   == Find!Best(found, merged, CandidateLimit)
           missed  == {e \in found \ slice : Find!KeywordOnly(e)}
           fused   == Find!FuseCandidates
           score   == [e \in fused |-> Find!Reordered(e)]
           only    == {e \in fused : Find!KeywordOnly(e)}
           rescued == Find!Best(only, score, KeywordRescue)
           others  == fused \ rescued
<1>1. slice \subseteq found /\ Find!Best(missed, merged, KeywordRescue) \subseteq missed
  <2> HIDE DEF missed, found, merged
  <2> QED
    BY BestIsASlice
<1>2. fused = slice \cup Find!Best(missed, merged, KeywordRescue)
  BY DEF Find!FuseCandidates
<1>3. fused \subseteq found
  <2> HIDE DEF slice, merged
  <2> QED
    BY <1>1, <1>2
<1>4. /\ rescued \subseteq only /\ Find!Best(rescued, score, RerankCandidates) \subseteq rescued
      /\ Find!Best(others, score, RerankCandidates - Find!Cardinality(rescued)) \subseteq others
  <2> HIDE DEF only, score
  <2>1. rescued \subseteq only
    BY BestIsASlice
  <2> HIDE DEF rescued
  <2>2. Find!Best(rescued, score, RerankCandidates) \subseteq rescued
    BY BestIsASlice
  <2> HIDE DEF others
  <2>3. Find!Best(others, score, RerankCandidates - Find!Cardinality(rescued)) \subseteq others
    BY BestIsASlice
  <2> QED
    BY <2>1, <2>2, <2>3
<1>5. Find!SelectRerankHead(fused) =
        Find!Best(rescued, score, RerankCandidates)
        \cup Find!Best(others, score, RerankCandidates - Find!Cardinality(rescued))
  BY Zenon DEF Find!SelectRerankHead
<1>6. only \subseteq fused /\ others \subseteq fused
  OBVIOUS
<1> HIDE DEF found, fused, score, only, rescued, others
<1> QED
  BY <1>3, <1>4, <1>5, <1>6 DEF found, fused

LEMMA BeginsSafely == ASSUME SearchSafe, Find!Begin PROVE SearchSafe'
<1>1. PICK p \in Askers, d \in Find!Documents \cup {"none"} :
        search' = [stage |-> IF Find!TooWide(p) THEN "failed" ELSE "shapes", principal |-> p, document |-> d]
  BY DEF Find!Begin, Find!None
<1>2. search' \in Searching /\ search'.stage \in {"failed", "shapes"}
  BY <1>1 DEF Searching
<1>3. keywordRows' = Find!Pending /\ vectorRows' = Find!Pending /\ head' = {} /\ hits' = {}
  BY DEF Find!Begin
<1> QED
  BY <1>2, <1>3 DEF SearchSafe, Channels, HeadIsAllowed

LEMMA QuietSearches ==
  ASSUME SearchSafe, Find!LoadShapes \/ Find!GiveUp \/ Find!CheckEmbedder \/ Find!Rerank
  PROVE  SearchSafe'
<1>0. search \in Searching /\ hits \subseteq head /\ (search.stage # "done" => hits = {})
  BY DEF SearchSafe
<1>1. UNCHANGED <<keywordRows, vectorRows, head>>
  BY DEF Find!LoadShapes, Find!GiveUp, Find!CheckEmbedder, Find!Rerank
<1>2. CASE Find!LoadShapes \/ Find!GiveUp
  <2>1. UNCHANGED hits
    BY <1>2 DEF Find!LoadShapes, Find!GiveUp
  <2>2. PICK stage \in {"channels", "failed"} : search' = [search EXCEPT !.stage = stage]
    BY <1>2 DEF Find!LoadShapes, Find!GiveUp
  <2>3. /\ search' \in Searching /\ search'.stage = stage
        /\ search'.principal = search.principal /\ search'.document = search.document
    BY <1>0, <2>2 DEF Searching
  <2>4. search.stage # "done"
    BY <1>2 DEF Find!LoadShapes, Find!GiveUp
  <2> QED
    BY <1>0, <1>1, <2>1, <2>3, <2>4, SearchMovesSafely
<1>3. CASE Find!CheckEmbedder
  <2>1. UNCHANGED <<search, hits>>
    BY <1>3 DEF Find!CheckEmbedder
  <2> QED
    BY <1>0, <1>1, <2>1, SearchMovesSafely
<1>4. CASE Find!Rerank
  <2>1. hits' \subseteq head
    BY <1>4 DEF Find!Rerank
  <2>2. search' = [search EXCEPT !.stage = "done"] /\ search.stage = "reranking"
    BY <1>4 DEF Find!Rerank
  <2>3. /\ search' \in Searching /\ search'.stage = "done"
        /\ search'.principal = search.principal /\ search'.document = search.document
    BY <1>0, <2>2 DEF Searching
  <2> QED
    BY <1>1, <2>1, <2>2, <2>3, SearchMovesSafely
<1> QED
  BY <1>2, <1>3, <1>4

LEMMA ChannelsAreSafe == ASSUME SearchSafe, Find!KeywordChannel \/ Find!VectorChannel PROVE SearchSafe'
<1>1. UNCHANGED <<search, head, hits>> /\ search.stage = "channels"
  BY DEF Find!KeywordChannel, Find!VectorChannel
<1>2. Find!Failed \in Channels /\ \A scores \in Find!ScoresOf(PinnedChunks) : Find!Found(scores) \in Channels
  BY DEF Channels
<1>3. Find!NoScores \in Find!ScoresOf(PinnedChunks)
  BY DEF Find!ScoresOf, Find!NoScores
<1>4. keywordRows' \in Channels
  <2>1. CASE Find!KeywordChannel
    <3>1. \/ \E scores \in Find!ScoresOf({c \in Chunks : Find!KeywordAllows(c)}) : keywordRows' = Find!Found(scores)
          \/ keywordRows' = Find!Failed
      BY <2>1 DEF Find!KeywordChannel
    <3>2. {c \in Chunks : Find!KeywordAllows(c)} \subseteq PinnedChunks
      BY DEF Find!KeywordAllows, PinnedChunks
    <3>3. Find!ScoresOf({c \in Chunks : Find!KeywordAllows(c)}) \subseteq Find!ScoresOf(PinnedChunks)
      BY <3>2 DEF Find!ScoresOf
    <3> QED
      BY <1>2, <3>1, <3>3
  <2>2. CASE Find!VectorChannel
    BY <2>2 DEF Find!VectorChannel, SearchSafe
  <2> QED
    BY <2>1, <2>2
<1>5. vectorRows' \in Channels
  <2>1. CASE Find!VectorChannel
    BY <1>2, <1>3, <2>1 DEF Find!VectorChannel, PinnedChunks
  <2>2. CASE Find!KeywordChannel
    BY <2>2 DEF Find!KeywordChannel, SearchSafe
  <2> QED
    BY <2>1, <2>2
<1>6. HeadIsAllowed'
  BY <1>1 DEF SearchSafe, HeadIsAllowed, Find!Allowed, Find!CanAccess, Find!InScope
<1> QED
  BY <1>1, <1>4, <1>5, <1>6 DEF SearchSafe, Channels

LEMMA FuseIsSafe == ASSUME SearchSafe, Find!Fuse PROVE SearchSafe'
<1>0. search \in Searching /\ keywordRows \in Channels /\ vectorRows \in Channels /\ hits = {}
      /\ UNCHANGED <<keywordRows, vectorRows, hits>>
  BY DEF SearchSafe, Find!Fuse
<1>1. CASE keywordRows = Find!Failed
  <2>1. search' = [search EXCEPT !.stage = "failed"] /\ UNCHANGED head
    BY <1>1 DEF Find!Fuse
  <2>2. /\ search' \in Searching /\ search'.stage = "failed"
        /\ search'.principal = search.principal /\ search'.document = search.document
    BY <1>0, <2>1 DEF Searching
  <2> QED
    BY <1>0, <2>1, <2>2, SearchMovesSafely
<1>2. CASE keywordRows # Find!Failed
  <2>1. /\ search' = [search EXCEPT !.stage = "reranking"]
        /\ head' = Find!SelectRerankHead(Find!FuseCandidates)
    BY <1>2 DEF Find!Fuse
  <2>2. search' \in Searching /\ search'.principal = search.principal /\ search'.document = search.document
    BY <1>0, <2>1 DEF Searching
  <2>3. (\A c : Find!Allowed(c)' <=> Find!Allowed(c)) /\ KeywordMisses' = KeywordMisses
    BY <1>0, <2>2, FoundIsLeft
  <2>4. HeadIsAllowed'
    <3>1. \A c \in head' : c \in PinnedChunks /\ Find!Allowed(c)
      BY <1>0, <2>1, HeadIsFound, HitsAreAllowed
    <3> QED
      BY <2>3, <3>1 DEF HeadIsAllowed
  <2>5. BestAreScored'
    <3>1. \A c \in KeywordMisses : Cardinality(Better(c)) < KeywordRescue => c \in head'
      BY <1>0, <2>1, BestReachTheHead
    <3>2. \A c : Better(c)' = Better(c)
      BY <1>0, <2>3 DEF Better
    <3> QED
      BY <2>3, <3>1, <3>2 DEF BestAreScored
  <2> QED
    BY <1>0, <2>2, <2>4, <2>5 DEF SearchSafe, Channels
<1> QED
  BY <1>1, <1>2

LEMMA SearchStepSafe == ASSUME SearchSafe, [Find!RetrievalNext]_Find!retrievalVars PROVE SearchSafe'
<1>1. CASE UNCHANGED Find!retrievalVars
  <2>1. UNCHANGED <<search, keywordRows, vectorRows, head, hits>>
    BY <1>1 DEF Find!retrievalVars
  <2>2. search' \in Searching /\ hits' \subseteq head /\ (search'.stage # "done" => hits' = {})
    BY <2>1 DEF SearchSafe
  <2> QED
    BY <2>1, <2>2, SearchMovesSafely
<1> QED
  BY <1>1, BeginsSafely, QuietSearches, ChannelsAreSafe, FuseIsSafe DEF Find!RetrievalNext

-----------------------------------------------------------------------------

(* The three forms of the rule agree.                                      *)
LEMMA RulesAgree ==
  ASSUME NEW p \in Askers, NEW acl
  PROVE  /\ Find!SqlAllows(Find!FilterFor(p), acl) <=> Find!CanAccess(p, acl)
         /\ Find!CanAccess(Find!FilterFor(p), acl) <=> Find!CanAccess(p, acl)
<1>1. p = [user |-> p.user, roles |-> p.roles, departments |-> p.departments]
  BY SomebodyAsks
<1>2. /\ Find!FilterFor(p).user = p.user /\ Find!FilterFor(p).departments = p.departments
      /\ Find!FilterFor(p).roles = p.roles \ {"admin"}
  BY <1>1 DEF Find!FilterFor
<1> HIDE DEF Find!FilterFor
<1>3. /\ acl.roles \cap (p.roles \ {"admin"}) = (acl.roles \ {"admin"}) \cap p.roles
      /\ (acl.roles \ {"admin"}) \cap (p.roles \ {"admin"}) = (acl.roles \ {"admin"}) \cap p.roles
  OBVIOUS
<1> QED
  BY <1>2, <1>3 DEF Find!SqlAllows, Find!CanAccess

LEMMA SearchIsSafe == SearchSafe => Find!HitsAreReadable /\ Find!BestKeywordHitsAreScored
<1> SUFFICES ASSUME SearchSafe PROVE Find!HitsAreReadable /\ Find!BestKeywordHitsAreScored
  OBVIOUS
<1>0. search \in Searching /\ search.principal \in Askers
  BY DEF SearchSafe, Searching
<1>1. \A c \in head \cup hits :
        Find!CanAccess(search.principal, Corpus[c].acl) /\ Corpus[c].generation = TurnGeneration /\ Find!InScope(c)
  BY DEF SearchSafe, HeadIsAllowed, PinnedChunks, Find!Allowed
<1>2. ASSUME NEW c \in Chunks, Corpus[c].generation = TurnGeneration
      PROVE  Find!AclGroup(Corpus[c].acl) \in Find!Groups <=> Find!CanAccess(search.principal, Corpus[c].acl)
  <2>1. Corpus[c].acl \in Find!ShapesOf(TurnGeneration)
    BY <1>2 DEF Find!ShapesOf
  <2> QED
    BY <1>0, <2>1, RulesAgree DEF Find!Groups, Find!AllowedGroups, Find!AclGroup
<1>3. Find!HitsAreReadable
  BY <1>0, <1>1, <1>2, RulesAgree, Zenon DEF Find!HitsAreReadable
<1>4. Find!BestKeywordHitsAreScored
  <2> SUFFICES ASSUME search.stage \in {"reranking", "done"}, NEW c \in KeywordMisses,
                      Cardinality(Better(c)) < KeywordRescue
               PROVE  c \in head
    <3>1. \A c : {d \in Find!KeywordHits :
                    Find!KeywordOnly(d) /\ (keywordRows.scores[d] > keywordRows.scores[c]
                                            \/ (keywordRows.scores[d] = keywordRows.scores[c] /\ d < c))}
                 = Better(c)
      BY DEF Better, KeywordMisses
    <3> QED
      BY <3>1, CountsTheSame DEF Find!BestKeywordHitsAreScored, KeywordMisses
  <2> QED
    BY DEF SearchSafe, BestAreScored
<1> QED
  BY <1>3, <1>4

(* A search returns only passages that the member may read, of the turn's  *)
(* generation and in the document asked about, whatever the index returns; *)
(* the SQL, the filter on chunks and the groups of the index stand for one *)
(* rule; and the best keyword matches the index missed are always scored.  *)
THEOREM SearchesAreReadable ==
  Spec => [](part = "search" => Find!HitsAreReadable /\ Find!BestKeywordHitsAreScored)
<1> DEFINE Safe == part = "search" => SearchSafe
<1>1. Init => Safe
  BY SearchInitSafe DEF Init
<1>2. Safe /\ [Next]_allVars => Safe'
  <2> SUFFICES ASSUME Safe, [Next]_allVars, part' = "search" PROVE SearchSafe'
    OBVIOUS
  <2>1. part = "search"
    BY DEF Next, allVars
  <2>2. [Find!RetrievalNext]_Find!retrievalVars
    BY <2>1 DEF Next, allVars, slots, Find!retrievalVars
  <2> QED
    BY <2>1, <2>2, SearchStepSafe
<1>3. Safe => (part = "search" => Find!HitsAreReadable /\ Find!BestKeywordHitsAreScored)
  BY SearchIsSafe
<1> QED
  BY <1>1, <1>2, <1>3, PTL DEF Spec

-----------------------------------------------------------------------------
(* GlobalSearch; its calls have the slot of those of ConnectorTools.       *)

catalog    == v1
query      == v2
debounce   == v3
result     == v5
unanswered == v6

USE DEF catalog, query, debounce, calls, result, unanswered

Asking == [q : Words \cup {Library!TooShort}, cancelled : BOOLEAN]

LibrarySafe ==
  /\ catalog \in Library!Catalogs /\ query \in Words \cup {Library!TooShort} /\ calls \subseteq Asking
  /\ \A c \in calls : ~c.cancelled => c.q = query
  /\ \A q : q # Library!TooShort /\ q = result.q /\ ~result.failed => result.hits = Library!SearchDocuments(q)
  /\ query # Library!TooShort /\ result.q # query =>
       debounce \/ unanswered \/ [q |-> query, cancelled |-> FALSE] \in calls

(* Of some documents, those that come before one.                          *)
Earlier(set, d) == {e \in set : Library!Before(e, d)}

LEMMA TitlesAreCounted == ASSUME NEW S PROVE Library!Cardinality(S) = Cardinality(S)
BY DEF Library!Cardinality, Cardinality

LEMMA FirstAreEarliest ==
  ASSUME NEW S, NEW n
  PROVE  /\ Library!FirstOf(n, S) \subseteq S
         /\ \A d \in S : d \in Library!FirstOf(n, S) <=> Cardinality(Earlier(S, d)) < n
<1>1. \A d \in S : Library!Cardinality({e \in S : Library!Before(e, d)}) = Cardinality(Earlier(S, d))
  BY TitlesAreCounted DEF Earlier
<1> QED
  BY <1>1, Zenon DEF Library!FirstOf

LEMMA BeforeIsTransitive ==
  ASSUME catalog \in Library!Catalogs, NEW d \in Titles, NEW e \in Titles, NEW f \in Titles,
         Library!Before(d, e), Library!Before(e, f)
  PROVE  Library!Before(d, f)
<1>1. d \in Nat /\ e \in Nat /\ f \in Nat
  BY TitlesAreNumbered
<1>2. \A g \in Titles : catalog[g].place \in {"title", "heading"}
  BY DEF Library!Catalogs
<1> QED
  BY <1>1, <1>2 DEF Library!Before

(* Cutting at the cap first takes nothing from the first few.              *)
LEMMA CapKeepsTheFirst ==
  ASSUME catalog \in Library!Catalogs, NEW S \in SUBSET Titles
  PROVE  Library!FirstOf(ResultLimit, Library!FirstOf(ResultCap, S)) = Library!FirstOf(ResultLimit, S)
<1> DEFINE F == Library!FirstOf(ResultCap, S)
<1>0. ResultLimit \in Nat /\ ResultCap \in Nat /\ ResultLimit <= ResultCap
  BY LimitWithinCap
<1>1. F \subseteq S
  BY FirstAreEarliest
<1>2. \A d \in Titles : IsFiniteSet(Earlier(S, d)) /\ Cardinality(Earlier(S, d)) \in Nat
  <2>1. \A d \in Titles : Earlier(S, d) \in SUBSET Titles
    BY DEF Earlier
  <2> QED
    BY <2>1, TitlesAreNumbered, FS_Subset, FS_CardinalityType
<1>3. ASSUME NEW d \in F PROVE Earlier(F, d) = Earlier(S, d)
  <2>1. d \in S /\ Cardinality(Earlier(S, d)) < ResultCap
    BY <1>1, FirstAreEarliest
  <2>2. ASSUME NEW e \in Earlier(S, d) PROVE e \in F
    <3>1. e \in S /\ Library!Before(e, d)
      BY DEF Earlier
    <3>2. Earlier(S, e) \subseteq Earlier(S, d)
      BY <2>1, <3>1, BeforeIsTransitive DEF Earlier
    <3>3. e \in Titles /\ d \in Titles
      BY <2>1, <3>1
    <3>4. Cardinality(Earlier(S, e)) <= Cardinality(Earlier(S, d))
      BY <1>2, <3>2, <3>3, FS_Subset
    <3>5. Cardinality(Earlier(S, e)) < ResultCap
      BY <1>0, <1>2, <2>1, <3>3, <3>4
    <3> QED
      BY <3>1, <3>5, FirstAreEarliest
  <2> HIDE DEF F
  <2> QED
    BY <1>1, <2>2 DEF Earlier
<1>4. ASSUME NEW d \in S, Cardinality(Earlier(S, d)) < ResultLimit PROVE d \in F
  <2>1. Cardinality(Earlier(S, d)) < ResultCap
    BY <1>0, <1>2, <1>4
  <2> QED
    BY <2>1, FirstAreEarliest
<1> HIDE DEF F
<1>5. /\ Library!FirstOf(ResultLimit, F) \subseteq F
      /\ \A d \in F : d \in Library!FirstOf(ResultLimit, F) <=> Cardinality(Earlier(F, d)) < ResultLimit
      /\ Library!FirstOf(ResultLimit, S) \subseteq S
      /\ \A d \in S : d \in Library!FirstOf(ResultLimit, S) <=> Cardinality(Earlier(S, d)) < ResultLimit
  BY FirstAreEarliest
<1>6. Library!FirstOf(ResultLimit, F) = Library!FirstOf(ResultLimit, S)
  BY <1>1, <1>3, <1>4, <1>5
<1> QED
  BY <1>6 DEF F

LEMMA LibraryInitSafe == Library!SearchInit => LibrarySafe
BY DEF Library!SearchInit, Library!Nothing, LibrarySafe

LEMMA DocumentsAreLeft ==
  ASSUME UNCHANGED catalog
  PROVE  \A q : Library!SearchDocuments(q)' = Library!SearchDocuments(q)
BY DEF Library!SearchDocuments, Library!Candidates, Library!FirstOf, Library!Before, Library!Matches, Library!Readable

LEMMA TypingIsSafe == ASSUME LibrarySafe, Library!Type PROVE LibrarySafe'
<1>1. PICK typed \in Words \cup {Library!TooShort} :
        typed # query /\ query' = typed /\ debounce' = (typed # Library!TooShort)
  BY DEF Library!Type
<1>2. calls' = {[c EXCEPT !.cancelled = TRUE] : c \in calls} /\ UNCHANGED <<catalog, result>>
  BY DEF Library!Type
<1>3. calls' \subseteq Asking /\ \A c \in calls' : c.cancelled
  BY <1>2 DEF LibrarySafe, Asking
<1>4. \A q : q # Library!TooShort /\ q = result.q /\ ~result.failed => result.hits = Library!SearchDocuments(q)'
  BY <1>2, DocumentsAreLeft DEF LibrarySafe
<1> QED
  BY <1>1, <1>2, <1>3, <1>4 DEF LibrarySafe, Library!TooShort

LEMMA FiringIsSafe == ASSUME LibrarySafe, Library!TimerFires PROVE LibrarySafe'
<1>1. calls' = calls \cup {[q |-> query, cancelled |-> FALSE]} /\ UNCHANGED <<catalog, query, result, unanswered>>
  BY DEF Library!TimerFires
<1> DEFINE new == [q |-> query, cancelled |-> FALSE]
<1>2. new \in Asking /\ new.q = query
  BY DEF LibrarySafe, Asking
<1>3. [q |-> query, cancelled |-> FALSE] = new
  OBVIOUS
<1> HIDE DEF new
<1>4. calls' \subseteq Asking /\ \A c \in calls' : ~c.cancelled => c.q = query
  BY <1>1, <1>2, <1>3 DEF LibrarySafe
<1>5. \A q : q # Library!TooShort /\ q = result.q /\ ~result.failed => result.hits = Library!SearchDocuments(q)'
  BY <1>1, DocumentsAreLeft DEF LibrarySafe
<1> QED
  BY <1>1, <1>3, <1>4, <1>5 DEF LibrarySafe, Library!TooShort

LEMMA AnsweringIsSafe ==
  ASSUME LibrarySafe, NEW c \in calls, Library!CallReturns(c) \/ Library!CallIsLost(c)
  PROVE  LibrarySafe'
<1>1. calls' = calls \ {c} /\ UNCHANGED <<catalog, query, debounce>>
  BY DEF Library!CallReturns, Library!CallIsLost
<1>2. c \in Asking /\ (~c.cancelled => c.q = query)
  BY DEF LibrarySafe
<1>3. c = [q |-> query, cancelled |-> FALSE] => ~c.cancelled
  OBVIOUS
<1>4. /\ catalog' \in Library!Catalogs /\ calls' \subseteq Asking
      /\ \A d \in calls' : ~d.cancelled => d.q = query'
  BY <1>1 DEF LibrarySafe, Library!Catalogs
<1>5. CASE Library!CallReturns(c)
  <2>1. \/ ~c.cancelled /\ result' = [q |-> c.q, hits |-> Library!SearchDocuments(c.q), failed |-> FALSE]
        \/ ~c.cancelled /\ result' = [q |-> c.q, hits |-> {}, failed |-> TRUE]
        \/ c.cancelled /\ UNCHANGED result
    BY <1>5 DEF Library!CallReturns, Library!Kept
  <2>2. UNCHANGED unanswered
    BY <1>5 DEF Library!CallReturns
  <2>3. \A q : q # Library!TooShort /\ q = result'.q /\ ~result'.failed => result'.hits = Library!SearchDocuments(q)'
    <3>1. \A q : Library!SearchDocuments(q)' = Library!SearchDocuments(q)
      BY <1>1, DocumentsAreLeft
    <3>2. \A q : q # Library!TooShort /\ q = result'.q /\ ~result'.failed => result'.hits = Library!SearchDocuments(q)
      BY <2>1 DEF LibrarySafe
    <3> QED
      BY <3>1, <3>2
  <2>4. query # Library!TooShort /\ result'.q # query =>
          debounce \/ unanswered \/ [q |-> query, cancelled |-> FALSE] \in calls'
    BY <1>1, <1>2, <1>3, <2>1 DEF LibrarySafe
  <2> QED
    BY <1>1, <1>4, <2>2, <2>3, <2>4 DEF LibrarySafe, Library!TooShort
<1>6. CASE Library!CallIsLost(c)
  <2>1. UNCHANGED result /\ unanswered' = (unanswered \/ ~c.cancelled)
    BY <1>6 DEF Library!CallIsLost
  <2>2. \A q : q # Library!TooShort /\ q = result.q /\ ~result.failed => result.hits = Library!SearchDocuments(q)'
    BY <1>1, DocumentsAreLeft DEF LibrarySafe
  <2>3. query # Library!TooShort /\ result.q # query =>
          debounce \/ unanswered' \/ [q |-> query, cancelled |-> FALSE] \in calls'
    BY <1>1, <1>2, <1>3, <2>1 DEF LibrarySafe
  <2> QED
    BY <1>1, <1>4, <2>1, <2>2, <2>3 DEF LibrarySafe, Library!TooShort
<1> QED
  BY <1>5, <1>6

LEMMA LibraryStepSafe == ASSUME LibrarySafe, [Library!SearchNext]_Library!searchVars PROVE LibrarySafe'
<1>1. CASE UNCHANGED Library!searchVars
  <2>1. UNCHANGED <<catalog, query, debounce, calls, result, unanswered>>
    BY <1>1 DEF Library!searchVars
  <2>2. \A q : q # Library!TooShort /\ q = result.q /\ ~result.failed => result.hits = Library!SearchDocuments(q)'
    BY <2>1, DocumentsAreLeft DEF LibrarySafe
  <2> QED
    BY <2>1, <2>2 DEF LibrarySafe, Library!TooShort, Library!Catalogs
<1> QED
  BY <1>1, TypingIsSafe, FiringIsSafe, AnsweringIsSafe DEF Library!SearchNext

LEMMA LibraryIsSafe == LibrarySafe => Library!HitsAnswerTheQuery
<1> SUFFICES ASSUME LibrarySafe PROVE Library!HitsAnswerTheQuery
  OBVIOUS
<1>1. \A q : Library!SearchDocuments(q) = Library!FirstOf(ResultLimit, Library!Matches(q) \cap Library!Readable)
  <2>1. \A q : Library!Matches(q) \cap Library!Readable \in SUBSET Titles
    BY DEF Library!Matches
  <2> QED
    BY <2>1, CapKeepsTheFirst DEF LibrarySafe, Library!SearchDocuments, Library!Candidates
<1> QED
  BY <1>1 DEF LibrarySafe, Library!HitsAnswerTheQuery, Library!Current

(* The dialog shows the best documents the member may read for the query   *)
(* on screen, whatever answers come late, and the cap on the candidates    *)
(* takes none of them; until then a search for it is on its way, unless    *)
(* its call was lost.                                                      *)
THEOREM LibraryAnswersTheQuery == Spec => [](part = "library" => Library!HitsAnswerTheQuery)
<1> DEFINE Safe == part = "library" => LibrarySafe
<1>1. Init => Safe
  BY LibraryInitSafe DEF Init
<1>2. Safe /\ [Next]_allVars => Safe'
  <2> SUFFICES ASSUME Safe, [Next]_allVars, part' = "library" PROVE LibrarySafe'
    OBVIOUS
  <2>1. part = "library"
    BY DEF Next, allVars
  <2>2. [Library!SearchNext]_Library!searchVars
    BY <2>1 DEF Next, allVars, slots, Library!searchVars
  <2> QED
    BY <2>1, <2>2, LibraryStepSafe
<1>3. Safe => (part = "library" => Library!HitsAnswerTheQuery)
  BY LibraryIsSafe
<1> QED
  BY <1>1, <1>2, <1>3, PTL DEF Spec

(* The knowledge that is served is safe: of the knowledge base, of the     *)
(* searches of a turn and of the search of the library.                    *)
THEOREM KnowledgeIsSafe == Spec => []KnowledgeIsServedSafely
<1>1. (part = "knowledge" => Kb!ServedIsWhole /\ Kb!MembersPromoteTheirOwn)
      /\ (part = "search" => Find!HitsAreReadable /\ Find!BestKeywordHitsAreScored)
      /\ (part = "library" => Library!HitsAnswerTheQuery)
      => KnowledgeIsServedSafely
  BY DEF KnowledgeIsServedSafely
<1> QED
  BY <1>1, ServedGenerationsAreWhole, SearchesAreReadable, LibraryAnswersTheQuery, PTL

-----------------------------------------------------------------------------
(* EvalHarness.                                                            *)

brain      == v1
checkpoint == v2
harness    == v3
summary    == v4
moved      == v6

USE DEF brain, checkpoint, harness, summary, moved

EvalRows == [question : DOMAIN Questions, status : {"pass", "fail", "unavailable"}, build : Nat, generation : Nat,
             own : BOOLEAN]
EvalFiles == [state : {"none", "torn", "written"}, generation : Nat, scored : BOOLEAN, build : Nat,
              rows : Seq(EvalRows)]
Scripts == [at : {"stopped", "status", "poll", "load", "ask"}, resume : BOOLEAN, scored : BOOLEAN,
            generation : Nat, build : Nat, rows : Seq(EvalRows)]

EvalTyped ==
  /\ brain \in [build : Nat \ {0}, active : Nat, ready : Nat, seeding : SUBSET Nat, last : Nat]
  /\ checkpoint \in EvalFiles /\ summary \in EvalFiles
  /\ harness \in Scripts /\ moved \in BOOLEAN

AskedOnce(list) == \A i, j \in DOMAIN list : list[i].question = list[j].question => i = j

(* The rows of a script or file "f" are of one build, one setting and,     *)
(* unless the pointer moved, one generation.                               *)
Alike(f) ==
  \A i \in DOMAIN f.rows :
    /\ f.rows[i].status # "unavailable" => f.rows[i].build = f.build /\ f.build # 0 /\ f.rows[i].own
    /\ f.rows[i].status = "unavailable" => f.scored
    /\ ~moved => f.rows[i].generation = f.generation

OneMeasurement(f) == AskedOnce(f.rows) /\ Alike(f)

Asked(f) == \A q \in DOMAIN Questions : \E i \in DOMAIN f.rows : f.rows[i].question = q

(* A script knows the generation it asks, and has no list before it asks.  *)
ScriptIsPlaced ==
  /\ harness.at \in {"load", "ask"} /\ ~moved => harness.generation = brain.active
  /\ harness.at # "ask" => harness.rows = <<>> /\ harness.build = 0

EvalSafe ==
  /\ EvalTyped /\ ScriptIsPlaced
  /\ OneMeasurement(harness) /\ OneMeasurement(checkpoint) /\ OneMeasurement(summary)
  /\ summary.state = "written" => Asked(summary)

LEMMA EvalConstants ==
  /\ Eval!Stopped \in Scripts /\ Eval!Stopped.at = "stopped" /\ Eval!Stopped.rows = <<>> /\ Eval!Stopped.build = 0
  /\ Eval!NoFile \in EvalFiles /\ Eval!NoFile.rows = <<>> /\ Eval!NoFile.state = "none"
  /\ Eval!Torn \in EvalFiles /\ Eval!Torn.rows = <<>> /\ Eval!Torn.state = "torn"
<1>1. <<>> \in Seq(EvalRows)
  OBVIOUS
<1> HIDE DEF EvalRows
<1> QED
  BY <1>1 DEF Eval!Stopped, Eval!NoFile, Eval!Torn, Eval!Unpinned, Scripts, EvalFiles

LEMMA NoRowsAreAlike == ASSUME NEW f, f.rows = <<>> PROVE OneMeasurement(f)
BY DEF OneMeasurement, AskedOnce, Alike

LEMMA EvalInitSafe == Eval!HarnessInit => EvalSafe
<1> SUFFICES ASSUME Eval!HarnessInit PROVE EvalSafe
  OBVIOUS
<1>1. brain \in [build : {1}, active : {0, 1}, ready : {0}, seeding : {{}}, last : {1}]
  BY DEF Eval!HarnessInit
<1>2. harness = Eval!Stopped /\ checkpoint = Eval!NoFile /\ summary = Eval!NoFile /\ moved = FALSE
  BY DEF Eval!HarnessInit
<1>3. OneMeasurement(harness) /\ OneMeasurement(checkpoint) /\ OneMeasurement(summary)
  BY <1>2, EvalConstants, NoRowsAreAlike
<1>4. /\ brain \in [build : Nat \ {0}, active : Nat, ready : Nat, seeding : SUBSET Nat, last : Nat]
      /\ harness \in Scripts /\ checkpoint \in EvalFiles /\ summary \in EvalFiles /\ moved \in BOOLEAN
  <2>1. brain \in [build : Nat \ {0}, active : Nat, ready : Nat, seeding : SUBSET Nat, last : Nat]
    BY <1>1
  <2> QED
    BY <1>2, <2>1, EvalConstants
<1>5. harness.at = "stopped" /\ harness.rows = <<>> /\ harness.build = 0 /\ summary.state = "none"
  BY <1>2, EvalConstants
<1> QED
  BY <1>3, <1>4, <1>5 DEF EvalSafe, EvalTyped, ScriptIsPlaced

-----------------------------------------------------------------------------
(* The rows that a resumed script keeps.  Answered is defined by recursion *)
(* along the rows; the first place where a claim about its values fails    *)
(* is where one step of it would have to break the claim.                  *)

LEMMA NatsBelow ==
  ASSUME NEW n \in Nat, NEW S, 0 \in S, \A i \in 1..n : i - 1 \in S => i \in S
  PROVE  \A i \in 0..n : i \in S
<1> DEFINE T == {i \in 0..n : i \notin S}
<1> SUFFICES ASSUME T # {} PROVE FALSE
  OBVIOUS
<1>1. T \in SUBSET (0..n)
  OBVIOUS
<1>2. PICK k \in T : \A j \in T : k <= j
  BY <1>1, LeastOfInitial
<1>3. k # 0 /\ k \in 1..n
  OBVIOUS
<1>4. k - 1 \in 0..n /\ k - 1 \notin T
  BY <1>2, <1>3
<1> QED
  BY <1>3, <1>4

KeptOf(list, kept, n) ==
  IF n = 0 THEN <<>>
  ELSE IF list[n].status # "unavailable" THEN Append(kept[n - 1], list[n]) ELSE kept[n - 1]

LEMMA KeptExists ==
  ASSUME NEW list \in Seq(EvalRows)
  PROVE  \E kept : kept = [n \in 0..Len(list) |-> KeptOf(list, kept, n)]
<1> DEFINE S == {m \in Nat : \E f : f = [n \in 0..m |-> KeptOf(list, f, n)]}
<1>1. 0 \in S
  <2>1. [n \in 0..0 |-> <<>>] = [n \in 0..0 |-> KeptOf(list, [i \in 0..0 |-> <<>>], n)]
    BY DEF KeptOf
  <2> QED
    BY <2>1
<1>2. ASSUME NEW m \in 1..Len(list), m - 1 \in S PROVE m \in S
  <2>1. PICK f : f = [n \in 0..(m - 1) |-> KeptOf(list, f, n)]
    BY <1>2
  <2> DEFINE g == [n \in 0..m |-> IF n = m THEN KeptOf(list, f, n) ELSE f[n]]
  <2>2. ASSUME NEW n \in 0..m PROVE g[n] = KeptOf(list, g, n)
    <3>1. n # 0 => g[n - 1] = f[n - 1]
      OBVIOUS
    <3>2. KeptOf(list, g, n) = KeptOf(list, f, n)
      BY <3>1 DEF KeptOf
    <3>3. CASE n = m
      BY <3>2, <3>3
    <3>4. CASE n # m
      <4>1. n \in 0..(m - 1) /\ g[n] = f[n]
        BY <3>4
      <4>2. f[n] = KeptOf(list, f, n)
        BY <2>1, <4>1
      <4> QED
        BY <3>2, <4>1, <4>2
    <3> QED
      BY <3>3, <3>4
  <2>3. g = [n \in 0..m |-> KeptOf(list, g, n)]
    <3>1. g = [n \in 0..m |-> g[n]]
      OBVIOUS
    <3> HIDE DEF g
    <3> QED
      BY <2>2, <3>1
  <2>4. m \in Nat
    OBVIOUS
  <2> HIDE DEF g
  <2> QED
    BY <2>3, <2>4
<1>3. Len(list) \in S
  <2> HIDE DEF S
  <2>1. Len(list) \in Nat /\ Len(list) \in 0..Len(list)
    OBVIOUS
  <2>2. \A m \in 1..Len(list) : m - 1 \in S => m \in S
    BY <1>2
  <2> QED
    BY <1>1, <2>1, <2>2, NatsBelow
<1> QED
  BY <1>3

LEMMA AnsweredIsKept ==
  ASSUME NEW list \in Seq(EvalRows)
  PROVE  \E f : /\ \A n \in 0..Len(list) : f[n] = KeptOf(list, f, n)
                /\ Eval!Answered(list) = f[Len(list)]
<1> DEFINE kept[n \in 0..Len(list)] ==
             IF n = 0 THEN <<>>
             ELSE IF Eval!IsAnswer(list[n]) THEN Append(kept[n - 1], list[n]) ELSE kept[n - 1]
<1>1. Eval!Answered(list) = kept[Len(list)]
  BY Zenon DEF Eval!Answered
<1>2. \E f : f = [n \in 0..Len(list) |->
                    IF n = 0 THEN <<>>
                    ELSE IF Eval!IsAnswer(list[n]) THEN Append(f[n - 1], list[n]) ELSE f[n - 1]]
  BY KeptExists, Zenon DEF KeptOf, Eval!IsAnswer
<1>3. kept = [n \in 0..Len(list) |->
                IF n = 0 THEN <<>>
                ELSE IF Eval!IsAnswer(list[n]) THEN Append(kept[n - 1], list[n]) ELSE kept[n - 1]]
  BY <1>2, Zenon
<1> HIDE DEF kept
<1>4. \A n \in 0..Len(list) : kept[n] = KeptOf(list, kept, n)
  BY <1>3, Zenon DEF KeptOf, Eval!IsAnswer
<1> QED
  BY <1>1, <1>4

LEMMA AnsweredRows ==
  ASSUME NEW list \in Seq(EvalRows), AskedOnce(list)
  PROVE  /\ Eval!Answered(list) \in Seq(EvalRows) /\ AskedOnce(Eval!Answered(list))
         /\ \A i \in DOMAIN Eval!Answered(list) :
              /\ Eval!Answered(list)[i].status # "unavailable"
              /\ \E j \in DOMAIN list : Eval!Answered(list)[i] = list[j]
<1>1. PICK f : /\ \A n \in 0..Len(list) : f[n] = KeptOf(list, f, n)
               /\ Eval!Answered(list) = f[Len(list)]
  BY AnsweredIsKept
<1> DEFINE Good(n) == /\ f[n] \in Seq(EvalRows) /\ AskedOnce(f[n])
                      /\ \A i \in DOMAIN f[n] : /\ f[n][i].status # "unavailable"
                                                /\ \E j \in 1..n : f[n][i] = list[j]
           S == {n \in 0..Len(list) : Good(n)}
<1>2. 0 \in S
  <2>1. 0 \in 0..Len(list)
    OBVIOUS
  <2>2. f[0] = <<>>
    BY <1>1, <2>1 DEF KeptOf
  <2>3. <<>> \in Seq(EvalRows) /\ AskedOnce(<<>>) /\ DOMAIN <<>> = {}
    BY DEF AskedOnce
  <2> QED
    BY <2>1, <2>2, <2>3
<1>3. ASSUME NEW n \in 1..Len(list), n - 1 \in S PROVE n \in S
  <2>1. /\ f[n] = IF list[n].status # "unavailable" THEN Append(f[n - 1], list[n]) ELSE f[n - 1]
        /\ list[n] \in EvalRows
    BY <1>1 DEF KeptOf
  <2>2. Good(n - 1) /\ 1..(n - 1) \subseteq 1..n
    BY <1>3
  <2>3. CASE list[n].status = "unavailable"
    <3>1. f[n] = f[n - 1]
      BY <2>1, <2>3
    <3> QED
      BY <2>2, <3>1
  <2>4. CASE list[n].status # "unavailable"
    <3> DEFINE s == f[n - 1]
    <3>1. s \in Seq(EvalRows) /\ f[n] = Append(s, list[n])
      BY <2>1, <2>2, <2>4
    <3>2. ASSUME NEW i \in DOMAIN s
          PROVE  s[i].status # "unavailable" /\ (\E j \in 1..n : s[i] = list[j]) /\ s[i].question # list[n].question
      <4>1. PICK j \in 1..(n - 1) : s[i] = list[j]
        BY <2>2
      <4>2. j \in DOMAIN list /\ n \in DOMAIN list /\ j # n
        OBVIOUS
      <4> QED
        BY <2>2, <4>1, <4>2 DEF AskedOnce
    <3>3. AskedOnce(s)
      BY <2>2
    <3> HIDE DEF s
    <3>4. Append(s, list[n]) \in Seq(EvalRows) /\ AskedOnce(Append(s, list[n]))
      BY <2>1, <3>1, <3>2, <3>3 DEF AskedOnce
    <3>5. \A i \in DOMAIN Append(s, list[n]) : \/ i \in DOMAIN s /\ Append(s, list[n])[i] = s[i]
                                              \/ Append(s, list[n])[i] = list[n]
      BY <2>1, <3>1
    <3>6. n \in 1..n
      OBVIOUS
    <3>7. \A i \in DOMAIN f[n] : f[n][i].status # "unavailable" /\ \E j \in 1..n : f[n][i] = list[j]
      BY <2>4, <3>1, <3>2, <3>5, <3>6
    <3>8. n \in 0..Len(list) /\ f[n] \in Seq(EvalRows) /\ AskedOnce(f[n])
      BY <3>1, <3>4
    <3> QED
      BY <3>7, <3>8
  <2> QED
    BY <2>3, <2>4
<1>4. Len(list) \in S
  <2> HIDE DEF S
  <2>1. Len(list) \in Nat /\ Len(list) \in 0..Len(list)
    OBVIOUS
  <2>2. \A n \in 1..Len(list) : n - 1 \in S => n \in S
    BY <1>3
  <2> QED
    BY <1>2, <2>1, <2>2, NatsBelow
<1> QED
  BY <1>1, <1>4

-----------------------------------------------------------------------------
(* The steps.                                                              *)

(* The Brain moves on under a script, or the script goes on before it      *)
(* asks, and no file is written.                                           *)
LEMMA BrainMovesSafely ==
  ASSUME EvalSafe, UNCHANGED <<checkpoint, summary>>, moved => moved', EvalTyped', ScriptIsPlaced',
         harness' = harness \/ harness'.rows = <<>>
  PROVE  EvalSafe'
<1>1. OneMeasurement(harness)'
  <2>1. CASE harness' = harness
    BY <2>1 DEF EvalSafe, OneMeasurement, AskedOnce, Alike
  <2>2. CASE harness'.rows = <<>>
    BY <2>2 DEF OneMeasurement, AskedOnce, Alike
  <2> QED
    BY <2>1, <2>2
<1>2. OneMeasurement(checkpoint)' /\ OneMeasurement(summary)'
  BY DEF EvalSafe, OneMeasurement, AskedOnce, Alike
<1>3. (summary.state = "written" => Asked(summary))'
  BY DEF EvalSafe, Asked
<1> QED
  BY <1>1, <1>2, <1>3 DEF EvalSafe

LEMMA EvalBrainSafe ==
  ASSUME EvalSafe, Eval!Deploy \/ Eval!PromoteByHand \/ Eval!SeedFinishes
  PROVE  EvalSafe'
<1>0. EvalTyped /\ ScriptIsPlaced
  BY DEF EvalSafe
<1>1. UNCHANGED <<checkpoint, summary, harness>>
  BY DEF Eval!Deploy, Eval!PromoteByHand, Eval!SeedFinishes, Eval!FilesAreLeft
<1>2. CASE Eval!Deploy
  <2>1. brain' = [brain EXCEPT !.build = brain.build + 1] /\ moved' = moved
    BY <1>2 DEF Eval!Deploy
  <2>2. EvalTyped' /\ ScriptIsPlaced'
    BY <1>0, <1>1, <2>1 DEF EvalTyped, ScriptIsPlaced
  <2> QED
    BY <1>1, <2>1, <2>2, BrainMovesSafely
<1>3. CASE Eval!PromoteByHand
  <2>1. /\ brain' = [brain EXCEPT !.last = brain.last + 1, !.active = brain.last + 1]
        /\ moved' = (moved \/ harness.at # "stopped")
    BY <1>3 DEF Eval!PromoteByHand, Eval!At
  <2>2. moved \in BOOLEAN /\ moved' \in BOOLEAN /\ (moved => moved') /\ (harness.at # "stopped" => moved')
    BY <1>0, <2>1 DEF EvalTyped
  <2>3. brain' \in [build : Nat \ {0}, active : Nat, ready : Nat, seeding : SUBSET Nat, last : Nat]
    <3> DEFINE g == brain.last + 1
    <3>1. g \in Nat /\ brain' = [brain EXCEPT !.last = g, !.active = g]
      BY <1>0, <2>1 DEF EvalTyped
    <3> HIDE DEF g
    <3> QED
      BY <1>0, <3>1 DEF EvalTyped
  <2>4. EvalTyped' /\ ScriptIsPlaced'
    BY <1>0, <1>1, <2>2, <2>3 DEF EvalTyped, ScriptIsPlaced
  <2> QED
    BY <1>1, <2>2, <2>4, BrainMovesSafely
<1>4. CASE Eval!SeedFinishes
  <2>1. PICK g \in brain.seeding : brain' = [brain EXCEPT !.seeding = brain.seeding \ {g}, !.ready = g]
    BY <1>4 DEF Eval!SeedFinishes
  <2>2. moved' = moved
    BY <1>4 DEF Eval!SeedFinishes
  <2>3. g \in Nat
    BY <1>0, <2>1 DEF EvalTyped
  <2>4. EvalTyped' /\ ScriptIsPlaced'
    BY <1>0, <1>1, <2>1, <2>2, <2>3 DEF EvalTyped, ScriptIsPlaced
  <2> QED
    BY <1>1, <2>2, <2>4, BrainMovesSafely
<1> QED
  BY <1>2, <1>3, <1>4

LEMMA EvalBeginsSafe ==
  ASSUME EvalSafe,
         \/ \E resume, scored \in BOOLEAN : Eval!Start(resume, scored)
         \/ Eval!Dies \/ Eval!UseActive \/ Eval!PromoteReady \/ Eval!Seed
  PROVE  EvalSafe'
<1>0. EvalTyped /\ ScriptIsPlaced /\ harness \in Scripts
      /\ brain \in [build : Nat \ {0}, active : Nat, ready : Nat, seeding : SUBSET Nat, last : Nat]
  BY DEF EvalSafe, EvalTyped
<1>1. UNCHANGED <<checkpoint, summary, moved>>
  BY DEF Eval!Start, Eval!Dies, Eval!UseActive, Eval!PromoteReady, Eval!Seed, Eval!FilesAreLeft, Eval!BrainIsLeft
<1>2. CASE \E resume, scored \in BOOLEAN : Eval!Start(resume, scored)
  <2>1. PICK resume \in BOOLEAN, scored \in BOOLEAN : Eval!Start(resume, scored)
    BY <1>2
  <2>2. harness' = [Eval!Stopped EXCEPT !.at = "status", !.resume = resume, !.scored = scored] /\ brain' = brain
    BY <2>1 DEF Eval!Start, Eval!BrainIsLeft
  <2>3. harness' \in Scripts /\ harness'.at = "status" /\ harness'.rows = <<>> /\ harness'.build = 0
    BY <2>2, EvalConstants DEF Scripts
  <2>4. EvalTyped' /\ ScriptIsPlaced'
    BY <1>0, <1>1, <2>2, <2>3 DEF EvalTyped, ScriptIsPlaced
  <2> QED
    BY <1>1, <2>3, <2>4, BrainMovesSafely
<1>3. CASE Eval!Dies
  <2>1. harness' = Eval!Stopped /\ brain' = brain
    BY <1>3 DEF Eval!Dies, Eval!Stop, Eval!BrainIsLeft
  <2>2. harness' \in Scripts /\ harness'.at = "stopped" /\ harness'.rows = <<>> /\ harness'.build = 0
    BY <2>1, EvalConstants
  <2>3. EvalTyped' /\ ScriptIsPlaced'
    BY <1>0, <1>1, <2>1, <2>2 DEF EvalTyped, ScriptIsPlaced
  <2> QED
    BY <1>1, <2>2, <2>3, BrainMovesSafely
<1>4. ASSUME harness.at # "ask", NEW place \in {"load", "poll"}, NEW g \in Nat,
             harness' = [harness EXCEPT !.at = place, !.generation = g],
             brain' \in [build : Nat \ {0}, active : Nat, ready : Nat, seeding : SUBSET Nat, last : Nat],
             place = "load" => brain'.active = g
      PROVE  EvalSafe'
  <2>1. /\ harness' \in Scripts /\ harness'.at = place /\ harness'.rows = <<>> /\ harness'.build = 0
        /\ harness'.generation = g
    BY <1>0, <1>4 DEF Scripts, ScriptIsPlaced
  <2>2. EvalTyped' /\ ScriptIsPlaced'
    BY <1>0, <1>1, <1>4, <2>1 DEF EvalTyped, ScriptIsPlaced
  <2> QED
    BY <1>1, <2>1, <2>2, BrainMovesSafely
<1>5. CASE Eval!UseActive
  <2>1. harness.at # "ask" /\ harness' = [harness EXCEPT !.at = "load", !.generation = brain.active] /\ brain' = brain
    BY <1>5 DEF Eval!UseActive, Eval!At, Eval!BrainIsLeft
  <2> QED
    BY <1>0, <1>4, <2>1
<1>6. CASE Eval!PromoteReady
  <2>1. /\ harness.at # "ask" /\ harness' = [harness EXCEPT !.at = "load", !.generation = brain.ready]
        /\ brain' = [brain EXCEPT !.active = brain.ready, !.ready = 0]
    BY <1>6 DEF Eval!PromoteReady, Eval!At
  <2> QED
    BY <1>0, <1>4, <2>1
<1>7. CASE Eval!Seed
  <2>1. /\ harness.at # "ask" /\ harness' = [harness EXCEPT !.at = "poll"]
        /\ brain' = [brain EXCEPT !.seeding = brain.seeding \cup {brain.last + 1}, !.last = brain.last + 1]
    BY <1>7 DEF Eval!Seed, Eval!At, Eval!Go
  <2>2. harness' = [harness EXCEPT !.at = "poll", !.generation = harness.generation] /\ harness.generation \in Nat
    BY <1>0, <2>1 DEF Scripts
  <2>3. brain' \in [build : Nat \ {0}, active : Nat, ready : Nat, seeding : SUBSET Nat, last : Nat]
    <3> DEFINE g == brain.last + 1
               under == brain.seeding \cup {g}
    <3>1. g \in Nat /\ under \in SUBSET Nat /\ brain' = [brain EXCEPT !.seeding = under, !.last = g]
      BY <1>0, <2>1
    <3> HIDE DEF g, under
    <3> QED
      BY <1>0, <3>1
  <2> QED
    BY <1>4, <2>1, <2>2, <2>3
<1> QED
  BY <1>2, <1>3, <1>5, <1>6, <1>7

LEMMA EvalLoadIsSafe == ASSUME EvalSafe, Eval!LoadCheckpoint PROVE EvalSafe'
<1>0. EvalTyped /\ ScriptIsPlaced /\ harness \in Scripts /\ checkpoint \in EvalFiles /\ harness.at = "load"
      /\ OneMeasurement(checkpoint)
  BY DEF EvalSafe, EvalTyped, Eval!LoadCheckpoint, Eval!At
<1>1. UNCHANGED <<checkpoint, summary, moved, brain>>
  BY DEF Eval!LoadCheckpoint, Eval!FilesAreLeft, Eval!BrainIsLeft
<1>2. CASE harness' = [harness EXCEPT !.at = "ask"]
  <2>1. /\ harness' \in Scripts /\ harness'.at = "ask" /\ harness'.generation = harness.generation
        /\ harness'.rows = <<>>
    BY <1>0, <1>2 DEF Scripts, ScriptIsPlaced
  <2>2. EvalTyped' /\ ScriptIsPlaced'
    BY <1>0, <1>1, <2>1 DEF EvalTyped, ScriptIsPlaced
  <2> QED
    BY <1>1, <2>1, <2>2, BrainMovesSafely
<1>3. CASE /\ checkpoint.generation = harness.generation /\ checkpoint.scored = harness.scored
           /\ harness' = [harness EXCEPT !.at = "ask", !.build = checkpoint.build,
                                         !.rows = Eval!Answered(checkpoint.rows)]
  <2> DEFINE kept == Eval!Answered(checkpoint.rows)
  <2>1. /\ kept \in Seq(EvalRows) /\ AskedOnce(kept)
        /\ \A i \in DOMAIN kept : /\ kept[i].status # "unavailable"
                                  /\ \E j \in DOMAIN checkpoint.rows : kept[i] = checkpoint.rows[j]
    BY <1>0, AnsweredRows DEF EvalFiles, OneMeasurement
  <2>2. harness' = [harness EXCEPT !.at = "ask", !.build = checkpoint.build, !.rows = kept]
    BY <1>3
  <2> HIDE DEF kept
  <2>3. /\ harness' \in Scripts /\ harness'.at = "ask" /\ harness'.generation = checkpoint.generation
        /\ harness'.generation = harness.generation
        /\ harness'.scored = checkpoint.scored /\ harness'.build = checkpoint.build /\ harness'.rows = kept
    BY <1>0, <1>3, <2>1, <2>2 DEF Scripts, EvalFiles
  <2>4. EvalTyped' /\ ScriptIsPlaced'
    BY <1>0, <1>1, <2>3 DEF EvalTyped, ScriptIsPlaced
  <2>5. OneMeasurement(harness)'
    BY <1>0, <1>1, <2>1, <2>3 DEF OneMeasurement, AskedOnce, Alike
  <2> QED
    BY <1>1, <2>4, <2>5 DEF EvalSafe, OneMeasurement, AskedOnce, Alike, Asked
<1> QED
  BY <1>2, <1>3 DEF Eval!LoadCheckpoint, Eval!Compatible

LEMMA NextIsOpen ==
  ASSUME Eval!Open # {}
  PROVE  Eval!Next1 \in DOMAIN Questions /\ \A i \in DOMAIN harness.rows : harness.rows[i].question # Eval!Next1
<1>1. Len(Questions) \in Nat /\ Eval!Open \in SUBSET (0..Len(Questions))
  BY QuestionsHaveCategories DEF Eval!Open
<1>2. \E q \in Eval!Open : \A r \in Eval!Open : q <= r
  BY <1>1, LeastOfInitial
<1>3. Eval!Next1 \in Eval!Open
  BY <1>2 DEF Eval!Next1
<1> QED
  BY <1>3 DEF Eval!Open

(* A row is written, or the script dies while it writes.                   *)
LEMMA EvalWriteIsSafe ==
  ASSUME EvalSafe, harness.at = "ask", NEW row \in EvalRows, NEW build \in Nat, Eval!Write(row, build),
         UNCHANGED <<brain, moved, summary>>,
         \A i \in DOMAIN harness.rows : harness.rows[i].question # row.question,
         harness.build # 0 => harness.build = build,
         row.status # "unavailable" => row.build = build /\ build # 0 /\ row.own,
         row.status = "unavailable" => harness.scored,
         row.generation = brain.active
  PROVE  EvalSafe'
<1>0. /\ EvalTyped /\ ScriptIsPlaced /\ harness \in Scripts /\ OneMeasurement(harness)
      /\ ~moved => harness.generation = brain.active
  BY DEF EvalSafe, EvalTyped, ScriptIsPlaced
<1> DEFINE list == Append(harness.rows, row)
<1>1. /\ list \in Seq(EvalRows) /\ AskedOnce(list)
      /\ \A i \in DOMAIN list : (i \in DOMAIN harness.rows /\ list[i] = harness.rows[i]) \/ list[i] = row
  <2>1. harness.rows \in Seq(EvalRows) /\ AskedOnce(harness.rows)
    BY <1>0 DEF Scripts, OneMeasurement
  <2> DEFINE old == harness.rows
  <2>2. \A i \in DOMAIN old : old[i].question # row.question
    OBVIOUS
  <2> HIDE DEF old
  <2>3. /\ Append(old, row) \in Seq(EvalRows) /\ AskedOnce(Append(old, row))
        /\ \A i \in DOMAIN Append(old, row) :
             (i \in DOMAIN old /\ Append(old, row)[i] = old[i]) \/ Append(old, row)[i] = row
    BY <2>1, <2>2 DEF AskedOnce, old
  <2> QED
    BY <2>3 DEF old
<1>2. CASE /\ harness' = [harness EXCEPT !.rows = list, !.build = build]
           /\ checkpoint' = [state |-> "written", generation |-> harness.generation,
                             scored |-> harness.scored, build |-> build, rows |-> list]
  <2> HIDE DEF list
  <2>1. /\ harness' \in Scripts /\ harness'.at = "ask" /\ harness'.generation = harness.generation
        /\ harness'.scored = harness.scored /\ harness'.build = build /\ harness'.rows = list
    BY <1>0, <1>1, <1>2 DEF Scripts
  <2>2. /\ checkpoint' \in EvalFiles /\ checkpoint'.generation = harness.generation
        /\ checkpoint'.scored = harness.scored /\ checkpoint'.build = build /\ checkpoint'.rows = list
    BY <1>0, <1>1, <1>2 DEF Scripts, EvalFiles
  <2>3. EvalTyped' /\ ScriptIsPlaced'
    BY <1>0, <2>1, <2>2 DEF EvalTyped, ScriptIsPlaced
  <2>4. \A i \in DOMAIN list :
          /\ list[i].status # "unavailable" => list[i].build = build /\ build # 0 /\ list[i].own
          /\ list[i].status = "unavailable" => harness.scored
          /\ ~moved => list[i].generation = harness.generation
    BY <1>0, <1>1 DEF OneMeasurement, Alike
  <2>5. OneMeasurement(harness)' /\ OneMeasurement(checkpoint)'
    BY <1>1, <2>1, <2>2, <2>4 DEF OneMeasurement, AskedOnce, Alike
  <2> QED
    BY <2>3, <2>5 DEF EvalSafe, OneMeasurement, AskedOnce, Alike, Asked
<1>3. CASE harness' = Eval!Stopped /\ checkpoint' = Eval!Torn
  <2>1. EvalTyped' /\ ScriptIsPlaced'
    BY <1>0, <1>3, EvalConstants DEF EvalTyped, ScriptIsPlaced
  <2>2. harness'.rows = <<>> /\ checkpoint'.rows = <<>>
    BY <1>3, EvalConstants
  <2>3. OneMeasurement(harness)' /\ OneMeasurement(checkpoint)'
    BY <2>2 DEF OneMeasurement, AskedOnce, Alike
  <2> QED
    BY <2>1, <2>3 DEF EvalSafe, OneMeasurement, AskedOnce, Alike, Asked
<1> QED
  BY <1>2, <1>3 DEF Eval!Write, Eval!Stop

LEMMA EvalAsksSafe == ASSUME EvalSafe, Eval!AskQuestion \/ Eval!AskUnavailable PROVE EvalSafe'
<1>0. EvalTyped /\ ScriptIsPlaced /\ harness \in Scripts /\ harness.at = "ask" /\ Eval!Open # {}
      /\ brain \in [build : Nat \ {0}, active : Nat, ready : Nat, seeding : SUBSET Nat, last : Nat]
  BY DEF EvalSafe, EvalTyped, Eval!AskQuestion, Eval!AskUnavailable, Eval!At
<1>1. UNCHANGED <<brain, moved, summary>>
  BY DEF Eval!AskQuestion, Eval!AskUnavailable, Eval!BrainIsLeft
<1>2. ASSUME harness' = Eval!Stopped, checkpoint' = checkpoint PROVE EvalSafe'
  <2>1. EvalTyped' /\ ScriptIsPlaced' /\ harness'.rows = <<>>
    BY <1>0, <1>1, <1>2, EvalConstants DEF EvalTyped, ScriptIsPlaced
  <2> QED
    BY <1>1, <1>2, <2>1, BrainMovesSafely
<1> DEFINE q == Eval!Next1
<1>3. q \in DOMAIN Questions /\ \A i \in DOMAIN harness.rows : harness.rows[i].question # q
  BY <1>0, NextIsOpen
<1>4. CASE Eval!AskQuestion
  <2>1. PICK own \in BOOLEAN, answer \in Eval!Answers :
          IF own /\ Eval!Pinned(brain.build)
          THEN Eval!Write(Eval!Row(q, IF Eval!Passes(Questions[q], answer) THEN "pass" ELSE "fail",
                                   brain.build, brain.active, own), brain.build)
          ELSE Eval!Stop /\ UNCHANGED checkpoint
    BY <1>4 DEF Eval!AskQuestion
  <2>2. CASE own /\ Eval!Pinned(brain.build)
    <3>1. PICK status \in {"pass", "fail"} : Eval!Write(Eval!Row(q, status, brain.build, brain.active, own), brain.build)
      BY <2>1, <2>2
    <3> DEFINE row == Eval!Row(q, status, brain.build, brain.active, own)
    <3>2. /\ row \in EvalRows /\ row.question = q /\ row.status = status /\ row.build = brain.build
          /\ row.generation = brain.active /\ row.own
      BY <1>0, <1>3, <2>2 DEF Eval!Row, EvalRows
    <3>3. harness.build # 0 => harness.build = brain.build
      BY <2>2 DEF Eval!Pinned, Eval!Unpinned
    <3>4. Eval!Write(row, brain.build)
      BY <3>1
    <3> HIDE DEF row, q
    <3> QED
      BY <1>0, <1>1, <1>3, <3>2, <3>3, <3>4, EvalWriteIsSafe
  <2>3. CASE ~(own /\ Eval!Pinned(brain.build))
    BY <1>2, <2>1, <2>3 DEF Eval!Stop
  <2> QED
    BY <2>2, <2>3
<1>5. CASE Eval!AskUnavailable
  <2>1. CASE harness.scored
    <3> DEFINE row == Eval!Row(q, "unavailable", 0, brain.active, TRUE)
    <3>1. Eval!Write(row, harness.build)
      BY <1>5, <2>1 DEF Eval!AskUnavailable, Eval!Unpinned
    <3>2. /\ row \in EvalRows /\ row.question = q /\ row.status = "unavailable" /\ row.generation = brain.active
      BY <1>0, <1>3 DEF Eval!Row, EvalRows
    <3>3. harness.build \in Nat
      BY <1>0 DEF Scripts
    <3> HIDE DEF row, q
    <3> QED
      BY <1>0, <1>1, <1>3, <2>1, <3>1, <3>2, <3>3, EvalWriteIsSafe
  <2>2. CASE ~harness.scored
    BY <1>2, <1>5, <2>2 DEF Eval!AskUnavailable, Eval!Stop
  <2> QED
    BY <2>1, <2>2
<1> QED
  BY <1>4, <1>5

LEMMA EvalSummaryIsSafe == ASSUME EvalSafe, Eval!Summarize PROVE EvalSafe'
<1>0. EvalTyped /\ ScriptIsPlaced /\ harness \in Scripts /\ OneMeasurement(harness) /\ Eval!Open = {}
  BY DEF EvalSafe, EvalTyped, Eval!Summarize
<1>1. /\ summary' = [state |-> "written", generation |-> harness.generation, scored |-> harness.scored,
                     build |-> harness.build, rows |-> harness.rows]
      /\ harness' = Eval!Stopped /\ UNCHANGED <<brain, moved, checkpoint>>
  BY DEF Eval!Summarize, Eval!Stop, Eval!BrainIsLeft
<1>2. /\ summary' \in EvalFiles /\ summary'.generation = harness.generation /\ summary'.scored = harness.scored
      /\ summary'.build = harness.build /\ summary'.rows = harness.rows
  BY <1>0, <1>1 DEF Scripts, EvalFiles
<1>3. EvalTyped' /\ ScriptIsPlaced' /\ harness'.rows = <<>>
  BY <1>0, <1>1, <1>2, EvalConstants DEF EvalTyped, ScriptIsPlaced
<1>4. OneMeasurement(summary)' /\ OneMeasurement(harness)'
  BY <1>0, <1>1, <1>2, <1>3 DEF OneMeasurement, AskedOnce, Alike
<1>5. Asked(summary)'
  BY <1>0, <1>2 DEF Asked, Eval!Open
<1> QED
  BY <1>1, <1>3, <1>4, <1>5 DEF EvalSafe, OneMeasurement, AskedOnce, Alike

LEMMA EvalStepSafe == EvalSafe /\ [Eval!HarnessNext]_Eval!harnessVars => EvalSafe'
<1> SUFFICES ASSUME EvalSafe, [Eval!HarnessNext]_Eval!harnessVars PROVE EvalSafe'
  OBVIOUS
<1>1. CASE UNCHANGED Eval!harnessVars
  <2>1. EvalTyped' /\ ScriptIsPlaced'
    BY <1>1 DEF Eval!harnessVars, EvalSafe, EvalTyped, ScriptIsPlaced
  <2> QED
    BY <1>1, <2>1, BrainMovesSafely DEF Eval!harnessVars
<1> QED
  BY <1>1, EvalBrainSafe, EvalBeginsSafe, EvalLoadIsSafe, EvalAsksSafe, EvalSummaryIsSafe DEF Eval!HarnessNext

(* A summary is one measurement: every question once, each answered row by *)
(* the build it reports and under the question's own principal, unavailable*)
(* rows only where that was asked for, and one generation unless one was   *)
(* promoted under the script, however often the script died, also while it *)
(* wrote, and was resumed (runLiveLayer).                                  *)
THEOREM SummariesAreOneRun == Spec => []SummaryIsOneRun
<1> DEFINE Safe == part = "eval" => EvalSafe
<1>1. Init => Safe
  BY EvalInitSafe DEF Init
<1>2. Safe /\ [Next]_allVars => Safe'
  <2> SUFFICES ASSUME Safe, [Next]_allVars, part' = "eval" PROVE EvalSafe'
    OBVIOUS
  <2>1. part = "eval"
    BY DEF Next, allVars
  <2>2. [Eval!HarnessNext]_Eval!harnessVars
    BY <2>1 DEF Next, allVars, slots, Eval!harnessVars
  <2> QED
    BY <2>1, <2>2, EvalStepSafe
<1>3. Safe => SummaryIsOneRun
  <2> SUFFICES ASSUME EvalSafe, summary.state = "written" PROVE Eval!SummaryIsOneRun
    BY DEF SummaryIsOneRun, Eval!SummaryIsOneRun
  <2>1. AskedOnce(summary.rows) /\ Alike(summary) /\ Asked(summary) /\ moved \in BOOLEAN
    BY DEF EvalSafe, OneMeasurement, EvalTyped
  <2> DEFINE list == summary.rows
  <2>2. \A q \in DOMAIN Questions :
          \E i \in DOMAIN list : list[i].question = q /\ \A j \in DOMAIN list \ {i} : list[j].question # q
    BY <2>1 DEF Asked, AskedOnce
  <2>3. \A i \in DOMAIN list :
          /\ Eval!IsAnswer(list[i]) => list[i].build = summary.build /\ list[i].own
          /\ ~Eval!IsAnswer(list[i]) => summary.scored
          /\ list[i].generation = summary.generation \/ moved
    BY <2>1 DEF Alike, Eval!IsAnswer
  <2> QED
    BY <2>2, <2>3 DEF Eval!SummaryIsOneRun
<1> QED
  BY <1>1, <1>2, <1>3, PTL DEF Spec

-----------------------------------------------------------------------------
(* Transcript.  The pairing and the characters are defined by recursion    *)
(* along a sequence.                                                       *)

messages == v1

USE DEF messages

(* A function whose value at each number comes from the one before it.     *)
StepOf(base, step, f, n) == IF n = 0 THEN base ELSE step[n][f[n - 1]]

Stepwise(N, base, step, f) == f = [n \in 0..N |-> StepOf(base, step, f, n)]

LEMMA StepsExist ==
  ASSUME NEW N \in Nat, NEW base, NEW step
  PROVE  \E f : Stepwise(N, base, step, f)
<1> DEFINE S == {m \in Nat : \E f : f = [n \in 0..m |-> StepOf(base, step, f, n)]}
<1>1. 0 \in S
  <2>1. [n \in 0..0 |-> base] = [n \in 0..0 |-> StepOf(base, step, [i \in 0..0 |-> base], n)]
    BY DEF StepOf
  <2> QED
    BY <2>1
<1>2. ASSUME NEW m \in 1..N, m - 1 \in S PROVE m \in S
  <2>1. PICK f : f = [n \in 0..(m - 1) |-> StepOf(base, step, f, n)]
    BY <1>2
  <2> DEFINE g == [n \in 0..m |-> IF n = m THEN StepOf(base, step, f, n) ELSE f[n]]
  <2>2. ASSUME NEW n \in 0..m PROVE g[n] = StepOf(base, step, g, n)
    <3>1. n # 0 => g[n - 1] = f[n - 1]
      OBVIOUS
    <3>2. StepOf(base, step, g, n) = StepOf(base, step, f, n)
      BY <3>1 DEF StepOf
    <3>3. CASE n = m
      BY <3>2, <3>3
    <3>4. CASE n # m
      <4>1. n \in 0..(m - 1) /\ g[n] = f[n]
        BY <3>4
      <4>2. f[n] = StepOf(base, step, f, n)
        BY <2>1, <4>1
      <4> QED
        BY <3>2, <4>1, <4>2
    <3> QED
      BY <3>3, <3>4
  <2>3. g = [n \in 0..m |-> StepOf(base, step, g, n)]
    <3>1. g = [n \in 0..m |-> g[n]]
      OBVIOUS
    <3> HIDE DEF g
    <3> QED
      BY <2>2, <3>1
  <2>4. m \in Nat
    OBVIOUS
  <2> HIDE DEF g
  <2> QED
    BY <2>3, <2>4
<1>3. N \in S
  <2> HIDE DEF S
  <2>1. N \in 0..N
    OBVIOUS
  <2>2. \A m \in 1..N : m - 1 \in S => m \in S
    BY <1>2
  <2> QED
    BY <1>1, <2>1, <2>2, NatsBelow
<1> QED
  BY <1>3 DEF Stepwise

StepsWithin(N, A, base, step) == N \in Nat /\ base \in A /\ step \in [1..N -> [A -> A]]

StaysWithin(N, A, base, step, f) ==
  f \in [0..N -> A] /\ f[0] = base /\ \A n \in 1..N : f[n] = step[n][f[n - 1]]

LEMMA StepsStay ==
  ASSUME NEW N, NEW A, NEW base, NEW step, NEW f,
         StepsWithin(N, A, base, step), Stepwise(N, base, step, f)
  PROVE  StaysWithin(N, A, base, step, f)
<1>0. N \in Nat /\ base \in A /\ step \in [1..N -> [A -> A]]
  BY DEF StepsWithin
<1>1. /\ f = [n \in 0..N |-> f[n]]
      /\ \A n \in 0..N : f[n] = StepOf(base, step, f, n)
  BY DEF Stepwise
<1>2. f[0] = base /\ \A n \in 1..N : f[n] = step[n][f[n - 1]]
  <2>1. 0 \in 0..N /\ \A n \in 1..N : n \in 0..N /\ n # 0
    BY <1>0
  <2>2. f[0] = StepOf(base, step, f, 0) /\ \A n \in 1..N : f[n] = StepOf(base, step, f, n)
    BY <1>1, <2>1
  <2>3. StepOf(base, step, f, 0) = base /\ \A n \in 1..N : StepOf(base, step, f, n) = step[n][f[n - 1]]
    BY <2>1, Zenon DEF StepOf
  <2> QED
    BY <2>2, <2>3, Zenon
<1> DEFINE S == {n \in 0..N : f[n] \in A}
<1>3. 0 \in S
  BY <1>0, <1>2
<1>4. ASSUME NEW n \in 1..N, n - 1 \in S PROVE n \in S
  <2>1. step[n] \in [A -> A] /\ f[n - 1] \in A /\ f[n] = step[n][f[n - 1]]
    BY <1>0, <1>2, <1>4
  <2>2. f[n] \in A
    BY <2>1
  <2> QED
    BY <2>2
<1>5. \A n \in 0..N : n \in S
  <2> HIDE DEF S
  <2> QED
    BY <1>0, <1>3, <1>4, NatsBelow
<1> QED
  BY <1>1, <1>2, <1>5 DEF StaysWithin

-----------------------------------------------------------------------------
(* The rows, and what the pairing knows after some of them.                *)

HistoryRows ==
  {row \in [id : Nat \ {0}, role : {"user", "assistant"}, parent : Nat,
            status : {"pending", "completed", "failed"}, size : Nat] : row.role = "user" => row.size > 0}

HistoryTurns == [question : Nat \ {0}, answer : Nat \ {0}, size : Nat \ {0}]

UserRows == {row \in HistoryRows : row.role = "user"}

PairStates == [users : Seq(UserRows), used : SUBSET Nat, turns : Seq(HistoryTurns)]

NothingPaired == [users |-> <<>>, used |-> {}, turns |-> <<>>]

StillOpen(open, users, taken) ==
  /\ open \in Seq(UserRows)
  /\ \A i \in DOMAIN open : \E j \in DOMAIN users : open[i] = users[j]
  /\ open # <<>> => open[1] \in UserRows /\ open[1].id \notin taken

LEMMA OpenUsers ==
  ASSUME NEW users \in Seq(UserRows), NEW taken
  PROVE  StillOpen(History!DropWhileIn(users, taken), users, taken)
<1> DEFINE kept == {i \in DOMAIN users : users[i].id \notin taken}
<1>1. CASE kept = {}
  <2>1. History!DropWhileIn(users, taken) = <<>>
    BY <1>1 DEF History!DropWhileIn
  <2> QED
    BY <2>1 DEF StillOpen
<1>2. CASE kept # {}
  <2>1. kept \in SUBSET (0..Len(users)) /\ Len(users) \in Nat
    OBVIOUS
  <2>2. \E k \in kept : \A j \in kept : k <= j
    BY <1>2, <2>1, LeastOfInitial
  <2>3. PICK k : k = History!Min(kept)
    OBVIOUS
  <2>4. k \in kept
    BY <2>2, <2>3 DEF History!Min
  <2>5. History!DropWhileIn(users, taken) = SubSeq(users, k, Len(users))
    BY <1>2, <2>3 DEF History!DropWhileIn
  <2>6. k \in 1..Len(users) /\ users[k].id \notin taken
    BY <2>4
  <2>. PICK open : open = SubSeq(users, k, Len(users))
    OBVIOUS
  <2>7. open \in Seq(UserRows) /\ Len(open) = Len(users) - k + 1
        /\ \A i \in 1..Len(open) : open[i] = users[k + i - 1]
    BY <2>6
  <2>8. \A i \in DOMAIN open : k + i - 1 \in DOMAIN users /\ open[i] = users[k + i - 1]
    BY <2>6, <2>7
  <2>9. open[1] = users[k] /\ users[k] \in UserRows
    BY <2>6, <2>7
  <2> HIDE DEF kept
  <2> QED
    BY <2>5, <2>6, <2>7, <2>8, <2>9 DEF StillOpen
<1> QED
  BY <1>1, <1>2

LEMMA TurnTyped ==
  ASSUME NEW user \in UserRows, NEW row \in HistoryRows
  PROVE  /\ History!Turn(user, row) \in HistoryTurns
         /\ History!Turn(user, row).question = user.id /\ History!Turn(user, row).answer = row.id
BY DEF History!Turn, UserRows, HistoryRows, HistoryTurns

(* What one row does to the turns and to the questions that are used.      *)
FreeParents(acc, row, rs) ==
  {i \in DOMAIN rs : rs[i].id = row.parent /\ rs[i].role = "user" /\ rs[i].id \notin acc.used}

TakesItsParent(acc, next, row, rs) ==
  \/ FreeParents(acc, row, rs) = {} /\ next = acc
  \/ /\ next.users = acc.users /\ next.used = acc.used \cup {row.parent}
     /\ \E i \in FreeParents(acc, row, rs) : next.turns = Append(acc.turns, History!Turn(rs[i], row))

LEMMA ParentPaired ==
  ASSUME NEW rs \in Seq(HistoryRows), NEW acc \in PairStates, NEW row \in HistoryRows
  PROVE  /\ History!PairParent(acc, row, rs) \in PairStates
         /\ TakesItsParent(acc, History!PairParent(acc, row, rs), row, rs)
<1>. PICK parents : parents = FreeParents(acc, row, rs)
  OBVIOUS
<1>1. {i \in DOMAIN rs : rs[i].id = row.parent /\ rs[i].role = "user"} \ {i \in DOMAIN rs : rs[i].id \in acc.used}
        = parents
  BY DEF FreeParents
<1>2. parents = {} => History!PairParent(acc, row, rs) = acc
  BY <1>1, Zenon DEF History!PairParent
<1>3. ASSUME parents # {}
      PROVE  /\ History!PairParent(acc, row, rs) \in PairStates
             /\ TakesItsParent(acc, History!PairParent(acc, row, rs), row, rs)
  <2>. PICK i \in parents : i = CHOOSE j \in parents : TRUE
    BY <1>3
  <2>. PICK t : t = History!Turn(rs[i], row)
    OBVIOUS
  <2>1. t \in HistoryTurns
    <3>1. rs[i] \in UserRows
      BY DEF UserRows, FreeParents
    <3> QED
      BY <3>1, TurnTyped
  <2>2. History!PairParent(acc, row, rs)
          = [acc EXCEPT !.used = @ \cup {row.parent}, !.turns = Append(@, t)]
    BY <1>1, <1>3, Zenon DEF History!PairParent
  <2>. PICK next : next = [acc EXCEPT !.used = @ \cup {row.parent}, !.turns = Append(@, t)]
    OBVIOUS
  <2>3. /\ acc.users \in Seq(UserRows) /\ acc.used \in SUBSET Nat /\ acc.turns \in Seq(HistoryTurns)
        /\ row.parent \in Nat
    BY DEF PairStates, HistoryRows
  <2>4. next = [users |-> acc.users, used |-> acc.used \cup {row.parent}, turns |-> Append(acc.turns, t)]
    BY DEF PairStates
  <2>5. Append(acc.turns, t) \in Seq(HistoryTurns) /\ acc.used \cup {row.parent} \in SUBSET Nat
    BY <2>1, <2>3
  <2>6. next \in PairStates
    BY <2>3, <2>4, <2>5 DEF PairStates
  <2>7. next.users = acc.users /\ next.used = acc.used \cup {row.parent} /\ next.turns = Append(acc.turns, t)
    BY <2>4
  <2> QED
    BY <2>2, <2>6, <2>7 DEF TakesItsParent
<1> QED
  BY <1>2, <1>3 DEF TakesItsParent

Among(user, users) == \E j \in DOMAIN users : user = users[j]

ComeFrom(some, users) == \A i \in DOMAIN some : Among(some[i], users)

TakesTheOldest(acc, next, row, rs) ==
  /\ ComeFrom(next.users, acc.users)
  /\ \/ next.used = acc.used /\ next.turns = acc.turns
     \/ \E user \in UserRows :
          /\ Among(user, acc.users)
          /\ user.id \notin acc.used \cup History!Reserved(rs)
          /\ next.used = acc.used \cup {user.id}
          /\ next.turns = Append(acc.turns, History!Turn(user, row))

LEMMA UsersHaveAHead ==
  ASSUME NEW open \in Seq(UserRows), open # <<>>
  PROVE  \E user \in UserRows, others \in Seq(UserRows) :
           /\ Head(open) = user /\ open[1] = user /\ Tail(open) = others
           /\ Among(user, open) /\ ComeFrom(others, open)
<1>1. Len(open) \in Nat \ {0} /\ DOMAIN open = 1..Len(open)
  OBVIOUS
<1>2. Tail(open) \in Seq(UserRows) /\ Len(Tail(open)) = Len(open) - 1
      /\ \A i \in 1..Len(Tail(open)) : Tail(open)[i] = open[i + 1]
  OBVIOUS
<1>3. \A i \in 1..Len(Tail(open)) : i + 1 \in DOMAIN open
  BY <1>1, <1>2
<1>4. Head(open) = open[1] /\ 1 \in DOMAIN open /\ open[1] \in UserRows
  BY <1>1
<1>5. DOMAIN Tail(open) = 1..Len(Tail(open))
  BY <1>2
<1>6. Among(open[1], open)
  BY <1>4 DEF Among
<1>7. ComeFrom(Tail(open), open)
  BY <1>2, <1>3, <1>5 DEF Among, ComeFrom
<1> QED
  BY <1>2, <1>4, <1>6, <1>7

LEMMA AmongThem ==
  ASSUME NEW user, NEW open, NEW users, Among(user, open), ComeFrom(open, users)
  PROVE  Among(user, users)
BY DEF Among, ComeFrom

LEMMA ComeFromThem ==
  ASSUME NEW others, NEW open, NEW users, ComeFrom(others, open), ComeFrom(open, users)
  PROVE  ComeFrom(others, users)
BY DEF Among, ComeFrom

LEMMA OldestPaired ==
  ASSUME NEW rs \in Seq(HistoryRows), NEW acc \in PairStates, NEW row \in HistoryRows
  PROVE  /\ History!PairOldest(acc, row, rs) \in PairStates
         /\ TakesTheOldest(acc, History!PairOldest(acc, row, rs), row, rs)
<1>. PICK taken : taken = acc.used \cup History!Reserved(rs)
  OBVIOUS
<1>. PICK open : open = History!DropWhileIn(acc.users, taken)
  OBVIOUS
<1>1. /\ acc.users \in Seq(UserRows) /\ acc.used \in SUBSET Nat /\ acc.turns \in Seq(HistoryTurns)
  BY DEF PairStates
<1>2. StillOpen(open, acc.users, taken)
  BY <1>1, OpenUsers
<1>3. open \in Seq(UserRows)
  BY <1>2 DEF StillOpen
<1>4. ComeFrom(open, acc.users)
  BY <1>2 DEF StillOpen, ComeFrom, Among
<1>5. open # <<>> => open[1].id \notin taken
  BY <1>2 DEF StillOpen
<1>6. CASE open = <<>>
  <2>1. History!PairOldest(acc, row, rs) = [acc EXCEPT !.users = open]
    BY <1>6, Zenon DEF History!PairOldest
  <2>. PICK next : next = [acc EXCEPT !.users = open]
    OBVIOUS
  <2>2. next = [users |-> open, used |-> acc.used, turns |-> acc.turns]
    BY DEF PairStates
  <2>3. next \in PairStates /\ next.users = open /\ next.used = acc.used /\ next.turns = acc.turns
    BY <1>1, <1>3, <2>2 DEF PairStates
  <2>4. ComeFrom(next.users, acc.users)
    BY <1>4, <2>3
  <2>5. TakesTheOldest(acc, next, row, rs)
    BY <2>3, <2>4, Zenon DEF TakesTheOldest
  <2> QED
    BY <2>1, <2>3, <2>5
<1>7. CASE open # <<>>
  <2>1. PICK user \in UserRows, others \in Seq(UserRows) :
          /\ Head(open) = user /\ open[1] = user /\ Tail(open) = others
          /\ Among(user, open) /\ ComeFrom(others, open)
    BY <1>3, <1>7, UsersHaveAHead
  <2>2. PICK t \in HistoryTurns : t = History!Turn(user, row)
    BY TurnTyped
  <2>3. PICK used \in SUBSET Nat : used = acc.used \cup {user.id}
    <3>1. user.id \in Nat
      BY DEF UserRows, HistoryRows
    <3> QED
      BY <1>1, <3>1
  <2>4. PICK pairs \in Seq(HistoryTurns) : pairs = Append(acc.turns, t)
    <3>. PICK old \in Seq(HistoryTurns) : old = acc.turns
      BY <1>1
    <3>1. Append(old, t) \in Seq(HistoryTurns)
      BY <2>2
    <3> QED
      BY <3>1
  <2>5. PICK next : next = [users |-> others, used |-> used, turns |-> pairs]
    OBVIOUS
  <2>6. next \in PairStates /\ next.users = others /\ next.used = used /\ next.turns = pairs
    BY <2>5 DEF PairStates
  <2>7. History!PairOldest(acc, row, rs) = next
    BY <1>7, <2>1, <2>2, <2>3, <2>4, <2>5, Zenon DEF History!PairOldest
  <2>8. ComeFrom(next.users, acc.users) /\ Among(user, acc.users)
    BY <1>4, <2>1, <2>6, AmongThem, ComeFromThem
  <2>9. user.id \notin acc.used \cup History!Reserved(rs)
    BY <1>5, <1>7, <2>1
  <2>10. TakesTheOldest(acc, next, row, rs)
    BY <2>2, <2>3, <2>4, <2>6, <2>8, <2>9, Zenon DEF TakesTheOldest
  <2> QED
    BY <2>6, <2>7, <2>10
<1> QED
  BY <1>6, <1>7

(* The four things that a row may be.                                      *)
AsksAQuestion(acc, next, row) ==
  row.role = "user" /\ next.users = Append(acc.users, row) /\ next.used = acc.used /\ next.turns = acc.turns

HasNoPair(acc, next, row, rs) ==
  /\ row.role = "assistant" /\ next = acc
  /\ row.status = "completed" =>
       row.parent # 0 /\ \A i \in DOMAIN rs : rs[i].id = row.parent /\ rs[i].role = "user" => row.parent \in acc.used

AnswersItsParent(acc, next, row, rs) ==
  /\ row.role = "assistant" /\ row.status = "completed" /\ row.parent # 0 /\ row.parent \notin acc.used
  /\ next.users = acc.users /\ next.used = acc.used \cup {row.parent}
  /\ \E i \in DOMAIN rs : /\ rs[i].id = row.parent /\ rs[i].role = "user"
                          /\ next.turns = Append(acc.turns, History!Turn(rs[i], row))

AnswersTheOldest(acc, next, row, rs) ==
  /\ row.role = "assistant" /\ row.status = "completed" /\ row.parent = 0
  /\ TakesTheOldest(acc, next, row, rs)

PairsOneRow(acc, next, row, rs) ==
  \/ AsksAQuestion(acc, next, row)
  \/ HasNoPair(acc, next, row, rs)
  \/ AnswersItsParent(acc, next, row, rs)
  \/ AnswersTheOldest(acc, next, row, rs)

LEMMA RowPaired ==
  ASSUME NEW rs \in Seq(HistoryRows), NEW acc \in PairStates, NEW row \in HistoryRows
  PROVE  /\ History!PairRow(acc, row, rs) \in PairStates
         /\ PairsOneRow(acc, History!PairRow(acc, row, rs), row, rs)
<1>. PICK next : next = History!PairRow(acc, row, rs)
  OBVIOUS
<1>1. row.role \in {"user", "assistant"} /\ row.parent \in Nat /\ (row.role = "user" => row \in UserRows)
  BY DEF HistoryRows, UserRows
<1>2. CASE row.role = "user"
  <2>1. next = [acc EXCEPT !.users = Append(@, row)]
    BY <1>2, Zenon DEF History!PairRow
  <2>2. acc.users \in Seq(UserRows) /\ Append(acc.users, row) \in Seq(UserRows)
    BY <1>1, <1>2 DEF PairStates
  <2>3. next = [users |-> Append(acc.users, row), used |-> acc.used, turns |-> acc.turns]
    BY <2>1 DEF PairStates
  <2>4. next \in PairStates
    BY <2>2, <2>3 DEF PairStates
  <2>5. AsksAQuestion(acc, next, row)
    BY <1>2, <2>3 DEF AsksAQuestion
  <2> QED
    BY <2>4, <2>5 DEF PairsOneRow
<1>3. CASE row.role = "assistant" /\ row.status # "completed"
  <2>1. next = acc
    BY <1>3, Zenon DEF History!PairRow
  <2>2. HasNoPair(acc, next, row, rs)
    BY <1>3, <2>1 DEF HasNoPair
  <2> QED
    BY <2>1, <2>2 DEF PairsOneRow
<1>4. CASE row.role = "assistant" /\ row.status = "completed" /\ row.parent # 0
  <2>1. next = History!PairParent(acc, row, rs)
    BY <1>4, Zenon DEF History!PairRow, History!NoParent
  <2>2. next \in PairStates /\ TakesItsParent(acc, next, row, rs)
    BY <2>1, ParentPaired
  <2>3. HasNoPair(acc, next, row, rs) \/ AnswersItsParent(acc, next, row, rs)
    BY <1>4, <2>2 DEF TakesItsParent, FreeParents, HasNoPair, AnswersItsParent
  <2> QED
    BY <2>2, <2>3 DEF PairsOneRow
<1>5. CASE row.role = "assistant" /\ row.status = "completed" /\ row.parent = 0
  <2>1. next = History!PairOldest(acc, row, rs)
    BY <1>5, Zenon DEF History!PairRow, History!NoParent
  <2>2. next \in PairStates /\ AnswersTheOldest(acc, next, row, rs)
    BY <1>5, <2>1, OldestPaired DEF AnswersTheOldest
  <2> QED
    BY <2>2 DEF PairsOneRow
<1> QED
  BY <1>1, <1>2, <1>3, <1>4, <1>5

(* The pairing conforms to the loop.                                       *)
LEMMA PairingIsALoop ==
  ASSUME NEW rs \in Seq(HistoryRows)
  PROVE  LET after == History!Pairing(rs) IN
         /\ after \in [0..Len(rs) -> PairStates] /\ after[0] = NothingPaired
         /\ \A n \in 1..Len(rs) : PairsOneRow(after[n - 1], after[n], rs[n], rs)
<1>0. PICK step : step = [n \in 1..Len(rs) |-> [acc \in PairStates |-> History!PairRow(acc, rs[n], rs)]]
  OBVIOUS
<1>1. Len(rs) \in Nat /\ \A n \in 1..Len(rs) : rs[n] \in HistoryRows
  OBVIOUS
<1>2. step \in [1..Len(rs) -> [PairStates -> PairStates]]
  BY <1>0, <1>1, RowPaired
<1>3. NothingPaired \in PairStates
  BY DEF NothingPaired, PairStates
<1>4. PICK f : Stepwise(Len(rs), NothingPaired, step, f)
  BY <1>1, StepsExist
<1>5. f \in [0..Len(rs) -> PairStates] /\ f[0] = NothingPaired /\ \A n \in 1..Len(rs) : f[n] = step[n][f[n - 1]]
  <2>. PICK N \in Nat : N = Len(rs)
    BY <1>1
  <2>1. StepsWithin(N, PairStates, NothingPaired, step) /\ Stepwise(N, NothingPaired, step, f)
    BY <1>2, <1>3, <1>4 DEF StepsWithin
  <2>2. StaysWithin(N, PairStates, NothingPaired, step, f)
    BY <2>1, StepsStay
  <2> QED
    BY <2>2 DEF StaysWithin
<1>6. ASSUME NEW n \in 0..Len(rs)
      PROVE  f[n] = IF n = 0 THEN [users |-> <<>>, used |-> {}, turns |-> <<>>]
                    ELSE History!PairRow(f[n - 1], rs[n], rs)
  <2>1. CASE n = 0
    BY <1>5, <2>1 DEF NothingPaired
  <2>2. CASE n # 0
    <3>1. n \in 1..Len(rs) /\ n - 1 \in 0..Len(rs)
      BY <2>2
    <3>2. f[n] = step[n][f[n - 1]] /\ f[n - 1] \in PairStates
      BY <1>5, <3>1
    <3> QED
      BY <1>0, <2>2, <3>1, <3>2
  <2> QED
    BY <2>1, <2>2
<1>7. f = [n \in 0..Len(rs) |-> IF n = 0 THEN [users |-> <<>>, used |-> {}, turns |-> <<>>]
                                ELSE History!PairRow(f[n - 1], rs[n], rs)]
  <2>1. f = [n \in 0..Len(rs) |-> f[n]]
    BY <1>5
  <2> QED
    BY <1>6, <2>1, Zenon
<1> DEFINE after[n \in 0..Len(rs)] ==
             IF n = 0 THEN [users |-> <<>>, used |-> {}, turns |-> <<>>]
             ELSE History!PairRow(after[n - 1], rs[n], rs)
<1>8. History!Pairing(rs) = after
  BY Zenon DEF History!Pairing
<1>9. after = [n \in 0..Len(rs) |-> IF n = 0 THEN [users |-> <<>>, used |-> {}, turns |-> <<>>]
                                    ELSE History!PairRow(after[n - 1], rs[n], rs)]
  BY <1>7, Zenon
<1> HIDE DEF after
<1>10. /\ after[0] = NothingPaired
       /\ \A n \in 1..Len(rs) : after[n] = History!PairRow(after[n - 1], rs[n], rs)
  <2>1. \A n \in 0..Len(rs) : after[n] = IF n = 0 THEN [users |-> <<>>, used |-> {}, turns |-> <<>>]
                                         ELSE History!PairRow(after[n - 1], rs[n], rs)
    BY <1>9, Zenon
  <2>2. 0 \in 0..Len(rs) /\ \A n \in 1..Len(rs) : n \in 0..Len(rs) /\ n # 0
    BY <1>1
  <2> QED
    BY <2>1, <2>2, Zenon DEF NothingPaired
<1> DEFINE S == {n \in 0..Len(rs) : after[n] \in PairStates}
<1>11. \A n \in 0..Len(rs) : n \in S
  <2>1. 0 \in S
    BY <1>1, <1>3, <1>10
  <2>2. ASSUME NEW n \in 1..Len(rs), n - 1 \in S PROVE n \in S
    <3>1. after[n - 1] \in PairStates /\ rs[n] \in HistoryRows
      BY <1>1, <2>2
    <3>2. after[n] \in PairStates
      BY <1>10, <3>1, RowPaired
    <3> QED
      BY <3>2
  <2> HIDE DEF S
  <2> QED
    BY <1>1, <2>1, <2>2, NatsBelow
<1>12. \A n \in 1..Len(rs) : PairsOneRow(after[n - 1], after[n], rs[n], rs)
  <2> SUFFICES ASSUME NEW n \in 1..Len(rs) PROVE PairsOneRow(after[n - 1], after[n], rs[n], rs)
    OBVIOUS
  <2>1. n - 1 \in 0..Len(rs)
    BY <1>1
  <2>2. after[n - 1] \in PairStates /\ rs[n] \in HistoryRows
    BY <1>1, <1>11, <2>1
  <2> QED
    BY <1>10, <2>2, RowPaired
<1>13. after \in [0..Len(rs) -> PairStates]
  <2>1. after = [n \in 0..Len(rs) |-> after[n]]
    BY <1>9, Zenon
  <2> QED
    BY <1>11, <2>1
<1> QED
  BY <1>8, <1>10, <1>12, <1>13

-----------------------------------------------------------------------------
(* The characters of the newest turns, and the turns that fit.             *)

CharsGrowBy(pairs, chars) ==
  /\ chars \in [0..Len(pairs) -> Nat] /\ chars[0] = 0
  /\ \A n \in 1..Len(pairs) : chars[n] = chars[n - 1] + pairs[Len(pairs) - n + 1].size

LEMMA TurnSizes ==
  ASSUME NEW pairs \in Seq(HistoryTurns)
  PROVE  \A n \in 1..Len(pairs) :
           /\ Len(pairs) - n + 1 \in 1..Len(pairs)
           /\ pairs[Len(pairs) - n + 1].size \in Nat \ {0} /\ pairs[Len(pairs) - n + 1].size \in Nat
<1> SUFFICES ASSUME NEW n \in 1..Len(pairs)
             PROVE  /\ Len(pairs) - n + 1 \in 1..Len(pairs)
                    /\ pairs[Len(pairs) - n + 1].size \in Nat \ {0}
  OBVIOUS
<1>0. Len(pairs) \in Nat /\ n \in 1..Len(pairs)
  OBVIOUS
<1>1. PICK k \in 1..Len(pairs) : k = Len(pairs) - n + 1
  BY <1>0
<1>2. pairs[k] \in HistoryTurns
  OBVIOUS
<1>3. pairs[k].size \in Nat \ {0}
  BY <1>2 DEF HistoryTurns
<1> QED
  BY <1>1, <1>3

LEMMA CharsAreALoop ==
  ASSUME NEW pairs \in Seq(HistoryTurns)
  PROVE  CharsGrowBy(pairs, History!Chars(pairs))
<1>1. PICK N \in Nat : N = Len(pairs)
  OBVIOUS
<1>2. \A n \in 1..N : N - n + 1 \in 1..N /\ pairs[N - n + 1].size \in Nat
  <2>1. \A n \in 1..Len(pairs) :
          Len(pairs) - n + 1 \in 1..Len(pairs) /\ pairs[Len(pairs) - n + 1].size \in Nat
    BY TurnSizes
  <2> QED
    BY <1>1, <2>1
<1>3. PICK sizes \in [1..N -> Nat] : sizes = [n \in 1..N |-> pairs[N - n + 1].size]
  BY <1>2
<1>4. PICK step : step = [n \in 1..N |-> [c \in Nat |-> c + sizes[n]]]
  OBVIOUS
<1>5. StepsWithin(N, Nat, 0, step)
  <2>1. \A n \in 1..N, c \in Nat : sizes[n] \in Nat /\ c + sizes[n] \in Nat
    <3>1. \A n \in 1..N : sizes[n] \in Nat
      BY <1>3
    <3>2. \A c, e \in Nat : c + e \in Nat
      OBVIOUS
    <3> QED
      BY <3>1, <3>2
  <2>2. \A n \in 1..N : [c \in Nat |-> c + sizes[n]] \in [Nat -> Nat]
    BY <2>1
  <2>3. step \in [1..N -> [Nat -> Nat]]
    BY <1>4, <2>2
  <2> QED
    BY <1>1, <2>3 DEF StepsWithin
<1>6. PICK f : Stepwise(N, 0, step, f)
  BY <1>1, StepsExist
<1>7. StaysWithin(N, Nat, 0, step, f)
  BY <1>5, <1>6, StepsStay
<1>8. f \in [0..N -> Nat] /\ f[0] = 0 /\ \A n \in 1..N : f[n] = f[n - 1] + pairs[N - n + 1].size
  <2>1. f \in [0..N -> Nat] /\ f[0] = 0 /\ \A n \in 1..N : f[n] = step[n][f[n - 1]]
    BY <1>7 DEF StaysWithin
  <2>2. ASSUME NEW n \in 1..N PROVE f[n] = f[n - 1] + pairs[N - n + 1].size
    <3>1. n - 1 \in 0..N
      BY <1>1
    <3>2. PICK c \in Nat : c = f[n - 1]
      BY <2>1, <3>1
    <3>3. step[n][c] = c + sizes[n]
      BY <1>4, <3>2
    <3> QED
      BY <1>3, <2>1, <3>2, <3>3
  <2> QED
    BY <2>1, <2>2
<1>9. f = [n \in 0..Len(pairs) |-> IF n = 0 THEN 0 ELSE f[n - 1] + pairs[Len(pairs) - n + 1].size]
  <2>1. f = [n \in 0..N |-> f[n]]
    BY <1>8
  <2>2. \A n \in 0..N : f[n] = IF n = 0 THEN 0 ELSE f[n - 1] + pairs[N - n + 1].size
    <3>1. \A n \in 0..N : n # 0 => n \in 1..N
      BY <1>1
    <3> QED
      BY <1>8, <3>1, Zenon
  <2>3. f = [n \in 0..N |-> IF n = 0 THEN 0 ELSE f[n - 1] + pairs[N - n + 1].size]
    BY <2>1, <2>2, Zenon
  <2> QED
    BY <1>1, <2>3, Zenon
<1> DEFINE chars[n \in 0..Len(pairs)] ==
             IF n = 0 THEN 0 ELSE chars[n - 1] + pairs[Len(pairs) - n + 1].size
<1>10. History!Chars(pairs) = chars
  BY Zenon DEF History!Chars
<1>11. chars = [n \in 0..Len(pairs) |-> IF n = 0 THEN 0 ELSE chars[n - 1] + pairs[Len(pairs) - n + 1].size]
  BY <1>9, Zenon
<1> HIDE DEF chars
<1>12. chars[0] = 0 /\ \A n \in 1..N : chars[n] = chars[n - 1] + pairs[N - n + 1].size
  <2>1. \A n \in 0..N : chars[n] = IF n = 0 THEN 0 ELSE chars[n - 1] + pairs[N - n + 1].size
    BY <1>1, <1>11, Zenon
  <2>2. 0 \in 0..N /\ \A n \in 1..N : n \in 0..N /\ n # 0
    BY <1>1
  <2> QED
    BY <2>1, <2>2, Zenon
<1> DEFINE S == {n \in 0..N : chars[n] \in Nat}
<1>13. \A n \in 0..N : n \in S
  <2>1. 0 \in S
    BY <1>1, <1>12
  <2>2. ASSUME NEW n \in 1..N, n - 1 \in S PROVE n \in S
    <3>1. PICK c \in Nat : c = chars[n - 1]
      BY <2>2
    <3>2. PICK size \in Nat : size = pairs[N - n + 1].size
      BY <1>2, <2>2
    <3>3. chars[n] = chars[n - 1] + pairs[N - n + 1].size
      BY <1>12, <2>2
    <3>4. chars[n] = c + size
      BY <3>1, <3>2, <3>3
    <3>5. n \in 0..N
      BY <1>1
    <3> QED
      BY <3>4, <3>5
  <2> HIDE DEF S
  <2> QED
    BY <1>1, <2>1, <2>2, NatsBelow
<1>14. chars \in [0..N -> Nat]
  <2>1. chars = [n \in 0..N |-> chars[n]]
    BY <1>1, <1>11, Zenon
  <2> QED
    BY <1>13, <2>1
<1> QED
  BY <1>1, <1>10, <1>12, <1>14 DEF CharsGrowBy

(* One sequence is the end of another.                                     *)
EndOf(end, s) ==
  /\ Len(end) <= Len(s)
  /\ \A i \in 1..Len(end) : end[i] = s[Len(s) - Len(end) + i]

LEMMA EndsOfEnds ==
  ASSUME NEW T, NEW a \in Seq(T), NEW b \in Seq(T), NEW c \in Seq(T), EndOf(a, b), EndOf(b, c)
  PROVE  EndOf(a, c)
<1>1. PICK la \in Nat, lb \in Nat, lc \in Nat : la = Len(a) /\ lb = Len(b) /\ lc = Len(c)
  OBVIOUS
<1>2. la <= lb /\ lb <= lc
  BY <1>1 DEF EndOf
<1>3. ASSUME NEW i \in 1..la PROVE a[i] = c[lc - la + i]
  <2>1. lb - la + i \in 1..lb /\ lc - lb + (lb - la + i) = lc - la + i
    BY <1>2
  <2>2. a[i] = b[lb - la + i]
    BY <1>1 DEF EndOf
  <2>3. b[lb - la + i] = c[lc - lb + (lb - la + i)]
    BY <1>1, <2>1 DEF EndOf
  <2> QED
    BY <2>1, <2>2, <2>3
<1> QED
  BY <1>1, <1>2, <1>3 DEF EndOf

LEMMA EndsOfOneLength ==
  ASSUME NEW T, NEW a \in Seq(T), NEW b \in Seq(T), NEW c \in Seq(T), EndOf(a, c), EndOf(b, c), Len(a) = Len(b)
  PROVE  a = b
<1>1. \A i \in 1..Len(a) : a[i] = b[i]
  BY DEF EndOf
<1> QED
  BY <1>1

LEMMA CharsOfAnEnd ==
  ASSUME NEW end \in Seq(HistoryTurns), NEW pairs \in Seq(HistoryTurns), EndOf(end, pairs),
         NEW n \in 0..Len(end)
  PROVE  History!Chars(end)[n] = History!Chars(pairs)[n]
<1>1. PICK c : c = History!Chars(end)
  OBVIOUS
<1>2. PICK d : d = History!Chars(pairs)
  OBVIOUS
<1>3. PICK l \in Nat, m \in Nat : l = Len(end) /\ m = Len(pairs)
  OBVIOUS
<1>4. /\ c[0] = 0 /\ \A i \in 1..l : c[i] = c[i - 1] + end[l - i + 1].size
      /\ d[0] = 0 /\ \A i \in 1..m : d[i] = d[i - 1] + pairs[m - i + 1].size
  BY <1>1, <1>2, <1>3, CharsAreALoop DEF CharsGrowBy
<1> DEFINE S == {i \in 0..l : c[i] = d[i]}
<1>5. 0 \in S
  BY <1>3, <1>4
<1>6. ASSUME NEW i \in 1..l, i - 1 \in S PROVE i \in S
  <2>1. l <= m
    BY <1>3 DEF EndOf
  <2>2. l - i + 1 \in 1..l /\ m - l + (l - i + 1) = m - i + 1 /\ i \in 1..m
    BY <1>3, <2>1
  <2>3. end[l - i + 1] = pairs[m - l + (l - i + 1)]
    BY <1>3, <2>2 DEF EndOf
  <2>4. end[l - i + 1] = pairs[m - i + 1]
    BY <2>2, <2>3
  <2>5. c[i] = c[i - 1] + end[l - i + 1].size /\ d[i] = d[i - 1] + pairs[m - i + 1].size
    BY <1>4, <2>2
  <2>6. c[i - 1] = d[i - 1]
    BY <1>6
  <2> QED
    BY <2>4, <2>5, <2>6
<1>7. \A i \in 0..l : i \in S
  <2> HIDE DEF S
  <2> QED
    BY <1>3, <1>5, <1>6, NatsBelow
<1> QED
  BY <1>1, <1>2, <1>3, <1>7

LEMMA CharsGrow ==
  ASSUME NEW pairs \in Seq(HistoryTurns), NEW m \in 0..Len(pairs), NEW n \in 0..Len(pairs), m < n
  PROVE  /\ History!Chars(pairs)[m] \in Nat /\ History!Chars(pairs)[n] \in Nat
         /\ History!Chars(pairs)[m] < History!Chars(pairs)[n]
<1>1. PICK c : c = History!Chars(pairs)
  OBVIOUS
<1>2. PICK N \in Nat : N = Len(pairs)
  OBVIOUS
<1>3. c \in [0..N -> Nat] /\ \A i \in 1..N : c[i] = c[i - 1] + pairs[N - i + 1].size
  BY <1>1, <1>2, CharsAreALoop DEF CharsGrowBy
<1> DEFINE S == {i \in 0..N : \A j \in 0..N : j < i => c[j] < c[i]}
<1>4. 0 \in S
  BY <1>2
<1>5. ASSUME NEW i \in 1..N, i - 1 \in S PROVE i \in S
  <2>1. N - i + 1 \in 1..N
    BY <1>2
  <2>2. pairs[N - i + 1].size \in Nat \ {0}
    BY <1>2, TurnSizes
  <2>3. i - 1 \in 0..N /\ i \in 0..N
    BY <1>2
  <2>4. c[i - 1] \in Nat /\ c[i] \in Nat /\ c[i - 1] < c[i]
    <3>1. PICK size \in Nat \ {0} : size = pairs[N - i + 1].size
      BY <2>2
    <3>2. PICK c0 \in Nat, c1 \in Nat : c0 = c[i - 1] /\ c1 = c[i]
      BY <1>3, <2>3
    <3>3. c[i] = c[i - 1] + pairs[N - i + 1].size
      BY <1>3
    <3>4. c1 = c0 + size
      BY <3>1, <3>2, <3>3
    <3> QED
      BY <3>2, <3>4
  <2>5. ASSUME NEW j \in 0..N, j < i PROVE c[j] < c[i]
    <3>1. j = i - 1 \/ j < i - 1
      BY <1>2, <2>5
    <3>2. c[j] \in Nat
      BY <1>3
    <3>3. j < i - 1 => c[j] < c[i - 1]
      BY <1>5
    <3> QED
      BY <2>4, <3>1, <3>2, <3>3
  <2> QED
    BY <2>3, <2>5
<1>6. \A i \in 0..N : i \in S
  <2> HIDE DEF S
  <2> QED
    BY <1>2, <1>4, <1>5, NatsBelow
<1> QED
  BY <1>1, <1>2, <1>3, <1>6

LEMMA GreatestOfInitial ==
  ASSUME NEW n \in Nat, NEW T \in SUBSET (0..n), T # {}
  PROVE  History!Max(T) \in T /\ \A j \in T : j <= History!Max(T)
<1> DEFINE U == {n - j : j \in T}
<1>1. U \in SUBSET (0..n) /\ U # {}
  <2>1. \A j \in T : j \in 0..n
    OBVIOUS
  <2>2. \A j \in T : n - j \in 0..n
    BY <2>1
  <2> QED
    BY <2>2
<1>2. PICK k \in U : \A j \in U : k <= j
  BY <1>1, LeastOfInitial
<1>3. PICK m \in T : k = n - m
  BY <1>2
<1>4. \A j \in T : n - m <= n - j
  BY <1>2, <1>3
<1>5. \A j \in T : j \in Nat /\ m \in Nat
  <2> HIDE DEF U
  <2>1. T \subseteq Nat
    OBVIOUS
  <2> QED
    BY <1>3, <2>1
<1>6. \A j \in T : m >= j
  BY <1>4, <1>5
<1>7. History!Max(T) \in T /\ \A j \in T : History!Max(T) >= j
  BY <1>6 DEF History!Max
<1> QED
  BY <1>5, <1>7

NewestOf(new, s, n, T) ==
  /\ new \in Seq(T) /\ EndOf(new, s)
  /\ Len(new) = IF n <= Len(s) THEN n ELSE Len(s)

LEMMA NewestIsAnEnd ==
  ASSUME NEW T, NEW s \in Seq(T), NEW n \in Nat
  PROVE  NewestOf(History!Newest(s, n), s, n, T)
<1>1. PICK l \in Nat : l = Len(s)
  OBVIOUS
<1>2. PICK first : first = History!Max({1, l - n + 1})
  OBVIOUS
<1>3. first = IF n <= l THEN l - n + 1 ELSE 1
  <2>1. PICK x \in Int : x = l - n + 1
    OBVIOUS
  <2>2. \E g \in {1, x} : \A y \in {1, x} : g >= y
    <3>1. CASE x <= 1
      BY <3>1
    <3>2. CASE 1 <= x
      BY <3>2
    <3> QED
      BY <3>1, <3>2
  <2>3. first \in {1, x} /\ \A y \in {1, x} : first >= y
    BY <1>2, <2>1, <2>2 DEF History!Max
  <2> QED
    BY <2>1, <2>3
<1>4. PICK new : new = SubSeq(s, first, l)
  OBVIOUS
<1>5. History!Newest(s, n) = new
  BY <1>1, <1>2, <1>4 DEF History!Newest
<1>6. first \in 1..(l + 1)
  BY <1>3
<1>7. new \in Seq(T) /\ Len(new) = l - first + 1 /\ \A i \in 1..Len(new) : new[i] = s[first + i - 1]
  BY <1>1, <1>4, <1>6
<1>8. PICK m \in Nat : m = Len(new) /\ m = l - first + 1
  BY <1>6, <1>7
<1>9. \A i \in 1..m : first + i - 1 = l - m + i
  BY <1>6, <1>8
<1>10. EndOf(new, s)
  BY <1>1, <1>6, <1>7, <1>8, <1>9 DEF EndOf
<1>11. m = IF n <= l THEN n ELSE l
  BY <1>3, <1>8
<1> QED
  BY <1>1, <1>5, <1>7, <1>8, <1>10, <1>11 DEF NewestOf

TurnsFit(pairs, n) == n <= 1 \/ History!Chars(pairs)[n] <= MaxHistoryChars

(* The newest turns that fit, and no more of them do.                      *)
MostThatFit(kept, pairs) ==
  /\ kept \in Seq(HistoryTurns) /\ EndOf(kept, pairs)
  /\ Len(kept) <= MaxHistoryTurns /\ TurnsFit(pairs, Len(kept))
  /\ \A n \in Nat : n <= Len(pairs) /\ n <= MaxHistoryTurns /\ TurnsFit(pairs, n) => n <= Len(kept)

LEMMA TrimmedToFit ==
  ASSUME NEW pairs \in Seq(HistoryTurns)
  PROVE  MostThatFit(History!TrimStoredHistory(pairs), pairs)
<1>0. MaxHistoryTurns \in Nat
  BY HistoryIsBounded
<1>1. PICK recent : recent = History!Newest(pairs, MaxHistoryTurns)
  OBVIOUS
<1>2. NewestOf(recent, pairs, MaxHistoryTurns, HistoryTurns)
  BY <1>0, <1>1, NewestIsAnEnd
<1>3. /\ recent \in Seq(HistoryTurns) /\ EndOf(recent, pairs)
      /\ Len(recent) = IF MaxHistoryTurns <= Len(pairs) THEN MaxHistoryTurns ELSE Len(pairs)
  BY <1>2 DEF NewestOf
<1>4. PICK l \in Nat : l = Len(recent)
  BY <1>3
<1>5. PICK t \in Nat : t = Len(pairs)
  OBVIOUS
<1>6. \A n \in Nat : n <= l <=> n <= t /\ n <= MaxHistoryTurns
  BY <1>0, <1>3, <1>4, <1>5
<1>7. PICK fits : fits = {n \in 0..l : TurnsFit(recent, n)}
  OBVIOUS
<1>8. \A n \in 0..l : TurnsFit(recent, n) <=> TurnsFit(pairs, n)
  <2>1. \A n \in 0..l : History!Chars(recent)[n] = History!Chars(pairs)[n]
    BY <1>3, <1>4, CharsOfAnEnd
  <2> QED
    BY <2>1 DEF TurnsFit
<1>9. fits \in SUBSET (0..l) /\ fits # {}
  <2>1. 0 \in fits
    BY <1>4, <1>7 DEF TurnsFit
  <2> QED
    BY <1>7, <2>1
<1>10. PICK most : most = History!Max(fits)
  OBVIOUS
<1>11. most \in fits /\ \A n \in fits : n <= most
  BY <1>4, <1>9, <1>10, GreatestOfInitial
<1>12. PICK kept : kept = History!Newest(recent, most)
  OBVIOUS
<1>13. most \in Nat /\ most <= l
  BY <1>4, <1>9, <1>11
<1>14. NewestOf(kept, recent, most, HistoryTurns)
  BY <1>3, <1>12, <1>13, NewestIsAnEnd
<1>15. kept \in Seq(HistoryTurns) /\ EndOf(kept, recent) /\ Len(kept) = most
  BY <1>4, <1>13, <1>14 DEF NewestOf
<1>16. History!TrimStoredHistory(pairs) = kept
  <2>1. {n \in 0..Len(recent) : n <= 1 \/ History!Chars(recent)[n] <= MaxHistoryChars} = fits
    BY <1>4, <1>7 DEF TurnsFit
  <2> QED
    BY <1>1, <1>10, <1>12, <2>1, Zenon DEF History!TrimStoredHistory
<1>17. EndOf(kept, pairs)
  BY <1>3, <1>15, EndsOfEnds
<1>18. most <= MaxHistoryTurns /\ TurnsFit(pairs, most)
  BY <1>6, <1>7, <1>8, <1>11, <1>13
<1>19. \A n \in Nat : n <= t /\ n <= MaxHistoryTurns /\ TurnsFit(pairs, n) => n <= most
  <2> SUFFICES ASSUME NEW n \in Nat, n <= t, n <= MaxHistoryTurns, TurnsFit(pairs, n)
               PROVE  n <= most
    OBVIOUS
  <2>1. n \in 0..l
    BY <1>6
  <2>2. n \in fits
    BY <1>7, <1>8, <2>1
  <2> QED
    BY <1>11, <2>2
<1> QED
  BY <1>5, <1>15, <1>16, <1>17, <1>18, <1>19 DEF MostThatFit

(* Turns that are the end of others and fill the window are trimmed to the *)
(* same.                                                                   *)
LEMMA SaturatedIsEnough ==
  ASSUME NEW end \in Seq(HistoryTurns), NEW pairs \in Seq(HistoryTurns), EndOf(end, pairs),
         NEW tail, History!BoundedTurnSaturated(History!TrimStoredHistory(end), tail)
  PROVE  History!TrimStoredHistory(end) = History!TrimStoredHistory(pairs)
<1>0. MaxHistoryTurns \in Nat /\ MaxHistoryChars \in Nat /\ MaxHistoryChars > 0
  BY HistoryIsBounded
<1>1. PICK a, b : a = History!TrimStoredHistory(end) /\ b = History!TrimStoredHistory(pairs)
  OBVIOUS
<1>2. MostThatFit(a, end) /\ MostThatFit(b, pairs)
  BY <1>1, TrimmedToFit
<1>3. /\ a \in Seq(HistoryTurns) /\ EndOf(a, end) /\ Len(a) <= MaxHistoryTurns
      /\ b \in Seq(HistoryTurns) /\ EndOf(b, pairs) /\ Len(b) <= MaxHistoryTurns
      /\ TurnsFit(end, Len(a)) /\ TurnsFit(pairs, Len(b))
  BY <1>2 DEF MostThatFit
<1>4. PICK la \in Nat, lb \in Nat, le \in Nat, lt \in Nat :
        la = Len(a) /\ lb = Len(b) /\ le = Len(end) /\ lt = Len(pairs)
  BY <1>3
<1>5. la <= le /\ le <= lt /\ lb <= lt
  BY <1>3, <1>4 DEF EndOf
<1>6. EndOf(a, pairs)
  BY <1>3, EndsOfEnds
<1>7. TurnsFit(pairs, la)
  <2>1. History!Chars(end)[la] = History!Chars(pairs)[la]
    BY <1>4, <1>5, CharsOfAnEnd
  <2> QED
    BY <1>3, <1>4, <2>1 DEF TurnsFit
<1>8. la <= lb
  <2>1. la <= lt /\ la <= MaxHistoryTurns
    BY <1>3, <1>4, <1>5
  <2>2. \A n \in Nat : n <= lt /\ n <= MaxHistoryTurns /\ TurnsFit(pairs, n) => n <= lb
    BY <1>2, <1>4 DEF MostThatFit
  <2> QED
    BY <1>7, <2>1, <2>2
<1>9. Len(a) >= MaxHistoryTurns \/ History!Chars(a)[Len(a)] >= MaxHistoryChars
  BY <1>1 DEF History!BoundedTurnSaturated
<1>10. lb <= la
  <2>1. CASE la >= MaxHistoryTurns
    BY <1>0, <1>3, <1>4, <2>1
  <2>2. CASE History!Chars(a)[la] >= MaxHistoryChars
    <3>1. History!Chars(a)[la] = History!Chars(pairs)[la]
      BY <1>3, <1>4, <1>6, CharsOfAnEnd
    <3>2. SUFFICES ASSUME la < lb PROVE FALSE
      BY <1>4
    <3>3. PICK ca, cb : ca = History!Chars(pairs)[la] /\ cb = History!Chars(pairs)[lb]
      OBVIOUS
    <3>4. la \in 0..Len(pairs) /\ lb \in 0..Len(pairs)
      BY <1>4, <1>5
    <3>5. ca \in Nat /\ cb \in Nat /\ ca < cb
      BY <3>2, <3>3, <3>4, CharsGrow
    <3>6. ca >= MaxHistoryChars
      BY <2>2, <3>1, <3>3
    <3>7. lb <= 1 \/ cb <= MaxHistoryChars
      BY <1>3, <1>4, <3>3 DEF TurnsFit
    <3>8. la = 0
      BY <1>0, <1>4, <3>2, <3>5, <3>6, <3>7
    <3>9. ca = 0
      BY <3>3, <3>8, CharsAreALoop DEF CharsGrowBy
    <3> QED
      BY <1>0, <3>6, <3>9
  <2> QED
    BY <1>4, <1>9, <2>1, <2>2
<1>11. Len(a) = Len(b)
  BY <1>4, <1>8, <1>10
<1> QED
  BY <1>1, <1>3, <1>6, <1>11, EndsOfOneLength

-----------------------------------------------------------------------------
(* The conversation: every answer comes after the question it belongs to.  *)

HasItsQuestion(rs, i) ==
  rs[i].role = "assistant" /\ rs[i].parent # 0 =>
    \E j \in 1..Len(rs) : j < i /\ rs[j].role = "user" /\ rs[j].id = rs[i].parent

OnlyAnswersRun(row) == row.status # "completed" => row.role = "assistant" /\ row.parent # 0

RowsInOrder(rs) ==
  /\ rs \in Seq(HistoryRows)
  /\ \A i \in 1..Len(rs) : rs[i].id \in 1..Len(rs)
  /\ \A i, j \in 1..Len(rs) : rs[i].id = rs[j].id => i = j
  /\ \A i \in 1..Len(rs) : HasItsQuestion(rs, i)
  /\ \A i \in 1..Len(rs) : OnlyAnswersRun(rs[i])

LEMMA OldRowsInOrder ==
  ASSUME NEW rs \in OldConversations
  PROVE  RowsInOrder(rs)
<1>0. PICK Old : Old = [id : Nat, role : {"user", "assistant"}, parent : {0}, status : {"completed"}, size : Nat]
  OBVIOUS
<1>1. rs \in Seq(Old) /\ \A i \in DOMAIN rs : rs[i].id = i /\ (rs[i].role = "user" => rs[i].size > 0)
  BY <1>0, OldRowsAreNumbered
<1>2. PICK n \in Nat : n = Len(rs) /\ DOMAIN rs = 1..n
  BY <1>1
<1>3. ASSUME NEW i \in 1..n
      PROVE  rs[i] \in HistoryRows /\ rs[i].id = i /\ rs[i].parent = 0 /\ rs[i].status = "completed"
  <2>1. rs[i] \in Old /\ rs[i].id = i /\ (rs[i].role = "user" => rs[i].size > 0)
    BY <1>1, <1>2
  <2>2. PICK row \in Old : row = rs[i]
    BY <2>1
  <2>3. /\ row = [id |-> row.id, role |-> row.role, parent |-> row.parent, status |-> row.status, size |-> row.size]
        /\ row.id = i /\ row.role \in {"user", "assistant"} /\ row.parent = 0 /\ row.status = "completed"
        /\ row.size \in Nat /\ (row.role = "user" => row.size > 0)
    BY <1>0, <2>1, <2>2
  <2>4. i \in Nat \ {0}
    OBVIOUS
  <2>5. row \in [id : Nat \ {0}, role : {"user", "assistant"}, parent : Nat,
                 status : {"pending", "completed", "failed"}, size : Nat]
    BY <2>3, <2>4
  <2>6. row \in HistoryRows
    BY <2>3, <2>5 DEF HistoryRows
  <2> QED
    BY <2>2, <2>3, <2>6
<1>4. rs \in Seq(HistoryRows)
  BY <1>1, <1>2, <1>3
<1>5. \A i \in 1..n : HasItsQuestion(rs, i) /\ OnlyAnswersRun(rs[i])
  BY <1>3 DEF HasItsQuestion, OnlyAnswersRun
<1> QED
  BY <1>2, <1>3, <1>4, <1>5 DEF RowsInOrder

(* Rows are added at the end, under ids of their own, answers after their  *)
(* questions.                                                              *)
AddedRows(rs, new) ==
  /\ new \in Seq(HistoryRows)
  /\ \A i \in 1..Len(new) : new[i].id \in (Len(rs) + 1)..(Len(rs) + Len(new)) /\ OnlyAnswersRun(new[i])
  /\ \A i, j \in 1..Len(new) : new[i].id = new[j].id => i = j
  /\ \A i \in 1..Len(new) : new[i].role = "assistant" /\ new[i].parent # 0 =>
       \/ \E j \in 1..Len(new) : j < i /\ new[j].role = "user" /\ new[j].id = new[i].parent
       \/ \E j \in 1..Len(rs) : rs[j].role = "user" /\ rs[j].id = new[i].parent

LEMMA JoinedRows ==
  ASSUME NEW S, NEW s \in Seq(S), NEW t \in Seq(S)
  PROVE  /\ s \o t \in Seq(S) /\ Len(s \o t) = Len(s) + Len(t)
         /\ \A i \in 1..Len(s) : i \in 1..(Len(s) + Len(t)) /\ (s \o t)[i] = s[i]
         /\ \A i \in 1..Len(t) : Len(s) + i \in 1..(Len(s) + Len(t)) /\ (s \o t)[Len(s) + i] = t[i]
OBVIOUS

LEMMA RowsAreAdded ==
  ASSUME NEW rs, RowsInOrder(rs), NEW new, AddedRows(rs, new)
  PROVE  RowsInOrder(rs \o new)
<1>1. rs \in Seq(HistoryRows) /\ new \in Seq(HistoryRows)
  BY DEF RowsInOrder, AddedRows
<1>2. PICK n \in Nat, m \in Nat : n = Len(rs) /\ m = Len(new)
  BY <1>1
<1>3. PICK all : all = rs \o new
  OBVIOUS
<1>4. all \in Seq(HistoryRows) /\ Len(all) = n + m
  BY <1>1, <1>2, <1>3, JoinedRows
<1>5. \A i \in 1..n : i \in 1..(n + m) /\ all[i] = rs[i]
  BY <1>1, <1>2, <1>3, JoinedRows
<1>6. \A i \in 1..m : n + i \in 1..(n + m) /\ all[n + i] = new[i]
  BY <1>1, <1>2, <1>3, JoinedRows
<1>7. \A i \in 1..(n + m) : i \in 1..n \/ \E k \in 1..m : i = n + k
  <2>1. \A i \in 1..(n + m) : i \notin 1..n => i - n \in 1..m /\ i = n + (i - n)
    BY <1>2
  <2> QED
    BY <2>1
<1>8. /\ \A i \in 1..n : rs[i].id \in 1..n /\ OnlyAnswersRun(rs[i]) /\ HasItsQuestion(rs, i)
      /\ \A i, j \in 1..n : rs[i].id = rs[j].id => i = j
  BY <1>2 DEF RowsInOrder
<1>9. /\ \A i \in 1..m : new[i].id \in (n + 1)..(n + m) /\ OnlyAnswersRun(new[i])
      /\ \A i, j \in 1..m : new[i].id = new[j].id => i = j
  BY <1>2 DEF AddedRows
<1>10. \A i \in 1..(n + m) : all[i].id \in 1..(n + m) /\ OnlyAnswersRun(all[i])
  <2>1. \A k \in 1..n : all[k].id \in 1..(n + m) /\ OnlyAnswersRun(all[k])
    <3> SUFFICES ASSUME NEW k \in 1..n PROVE all[k].id \in 1..(n + m) /\ OnlyAnswersRun(all[k])
      OBVIOUS
    <3>1. all[k] = rs[k] /\ rs[k].id \in 1..n /\ OnlyAnswersRun(rs[k])
      BY <1>5, <1>8
    <3> QED
      BY <1>2, <3>1
  <2>2. \A k \in 1..m : all[n + k].id \in 1..(n + m) /\ OnlyAnswersRun(all[n + k])
    <3> SUFFICES ASSUME NEW k \in 1..m PROVE all[n + k].id \in 1..(n + m) /\ OnlyAnswersRun(all[n + k])
      OBVIOUS
    <3>1. all[n + k] = new[k] /\ new[k].id \in (n + 1)..(n + m) /\ OnlyAnswersRun(new[k])
      BY <1>6, <1>9
    <3> QED
      BY <1>2, <3>1
  <2> QED
    BY <1>7, <2>1, <2>2
<1>11. \A i, j \in 1..(n + m) : all[i].id = all[j].id => i = j
  <2> SUFFICES ASSUME NEW i \in 1..(n + m), NEW j \in 1..(n + m), all[i].id = all[j].id PROVE i = j
    OBVIOUS
  <2>1. CASE i \in 1..n /\ j \in 1..n
    BY <1>5, <1>8, <2>1
  <2>2. ASSUME NEW a \in 1..n, NEW b \in 1..m PROVE all[a].id # all[n + b].id
    <3>1. all[a].id \in 1..n /\ all[n + b].id \in (n + 1)..(n + m)
      BY <1>5, <1>6, <1>8, <1>9
    <3> QED
      BY <1>2, <3>1
  <2>3. ASSUME NEW a \in 1..m, NEW b \in 1..m, i = n + a, j = n + b PROVE i = j
    <3>1. new[a].id = new[b].id
      BY <1>6, <2>3
    <3> QED
      BY <1>9, <2>3, <3>1
  <2> QED
    BY <1>7, <2>1, <2>2, <2>3
<1>12. \A i \in 1..(n + m) : HasItsQuestion(all, i)
  <2>1. ASSUME NEW i \in 1..n PROVE HasItsQuestion(all, i)
    <3> SUFFICES ASSUME all[i].role = "assistant", all[i].parent # 0
                 PROVE  \E j \in 1..(n + m) : j < i /\ all[j].role = "user" /\ all[j].id = all[i].parent
      BY <1>4 DEF HasItsQuestion
    <3>1. PICK j \in 1..n : j < i /\ rs[j].role = "user" /\ rs[j].id = rs[i].parent
      BY <1>2, <1>5, <1>8 DEF HasItsQuestion
    <3> QED
      BY <1>5, <3>1
  <2>2. ASSUME NEW i \in 1..m PROVE HasItsQuestion(all, n + i)
    <3> SUFFICES ASSUME new[i].role = "assistant", new[i].parent # 0
                 PROVE  \E j \in 1..(n + m) : j < n + i /\ all[j].role = "user" /\ all[j].id = new[i].parent
      BY <1>4, <1>6 DEF HasItsQuestion
    <3>1. \/ \E j \in 1..m : j < i /\ new[j].role = "user" /\ new[j].id = new[i].parent
          \/ \E j \in 1..n : rs[j].role = "user" /\ rs[j].id = new[i].parent
      BY <1>2 DEF AddedRows
    <3>2. ASSUME NEW j \in 1..m, j < i, new[j].role = "user", new[j].id = new[i].parent
          PROVE  \E k \in 1..(n + m) : k < n + i /\ all[k].role = "user" /\ all[k].id = new[i].parent
      <4>1. n + j \in 1..(n + m) /\ all[n + j] = new[j]
        BY <1>6
      <4>2. n + j < n + i
        BY <1>2, <3>2
      <4> QED
        BY <3>2, <4>1, <4>2
    <3>3. ASSUME NEW j \in 1..n, rs[j].role = "user", rs[j].id = new[i].parent
          PROVE  \E k \in 1..(n + m) : k < n + i /\ all[k].role = "user" /\ all[k].id = new[i].parent
      <4>1. j \in 1..(n + m) /\ all[j] = rs[j]
        BY <1>5
      <4>2. j < n + i
        BY <1>2
      <4> QED
        BY <3>3, <4>1, <4>2
    <3> QED
      BY <3>1, <3>2, <3>3
  <2> QED
    BY <1>7, <2>1, <2>2
<1>13. RowsInOrder(all)
  BY <1>4, <1>10, <1>11, <1>12 DEF RowsInOrder
<1> QED
  BY <1>3, <1>13

LEMMA OneRow ==
  ASSUME NEW a \in HistoryRows
  PROVE  <<a>> \in Seq(HistoryRows) /\ Len(<<a>>) = 1 /\ <<a>>[1] = a
OBVIOUS

LEMMA TwoRows ==
  ASSUME NEW a \in HistoryRows, NEW b \in HistoryRows
  PROVE  <<a, b>> \in Seq(HistoryRows) /\ Len(<<a, b>>) = 2 /\ <<a, b>>[1] = a /\ <<a, b>>[2] = b
OBVIOUS

LEMMA FourRows ==
  ASSUME NEW a \in HistoryRows, NEW b \in HistoryRows, NEW c \in HistoryRows, NEW d \in HistoryRows
  PROVE  /\ <<a, b, c, d>> \in Seq(HistoryRows) /\ Len(<<a, b, c, d>>) = 4
         /\ <<a, b, c, d>>[1] = a /\ <<a, b, c, d>>[2] = b /\ <<a, b, c, d>>[3] = c /\ <<a, b, c, d>>[4] = d
OBVIOUS

IsUser(row, id) == row \in HistoryRows /\ row.role = "user" /\ row.id = id /\ OnlyAnswersRun(row)

IsPending(row, id, parent) ==
  row \in HistoryRows /\ row.role = "assistant" /\ row.id = id /\ row.parent = parent /\ OnlyAnswersRun(row)

LEMMA NewUser ==
  ASSUME NEW id \in Nat \ {0}
  PROVE  IsUser(History!User(id), id)
BY DEF IsUser, HistoryRows, OnlyAnswersRun, History!User, History!NoParent

LEMMA NewPending ==
  ASSUME NEW id \in Nat \ {0}, NEW parent \in Nat \ {0}
  PROVE  IsPending(History!Assistant(id, parent, "pending", 0), id, parent)
BY DEF IsPending, HistoryRows, OnlyAnswersRun, History!Assistant

LEMMA AskKeepsOrder == RowsInOrder(messages) /\ History!Ask => RowsInOrder(messages)'
<1> SUFFICES ASSUME RowsInOrder(messages), History!Ask PROVE RowsInOrder(messages)'
  OBVIOUS
<1>1. PICK rs : rs = messages
  OBVIOUS
<1>2. PICK n \in Nat : n = Len(rs)
  BY <1>1 DEF RowsInOrder
<1>3. PICK a, b : a = History!User(n + 1) /\ b = History!Assistant(n + 2, n + 1, "pending", 0)
  OBVIOUS
<1>4. IsUser(a, n + 1) /\ IsPending(b, n + 2, n + 1)
  BY <1>2, <1>3, NewUser, NewPending
<1>5. messages' = rs \o <<a, b>>
  BY <1>1, <1>2, <1>3, Zenon DEF History!Ask, History!Id
<1>6. PICK new : new = <<a, b>>
  OBVIOUS
<1>7. /\ new \in Seq(HistoryRows) /\ Len(new) = 2 /\ new[1] = a /\ new[2] = b
  BY <1>4, <1>6, TwoRows DEF IsUser, IsPending
<1>8. /\ a.role = "user" /\ a.id = n + 1 /\ OnlyAnswersRun(a)
      /\ b.role = "assistant" /\ b.id = n + 2 /\ b.parent = n + 1 /\ OnlyAnswersRun(b)
  BY <1>4 DEF IsUser, IsPending
<1>9. AddedRows(rs, new)
  <2>1. \A i \in 1..2 : i = 1 \/ i = 2
    OBVIOUS
  <2>2. \A i \in 1..2 : new[i].id \in (n + 1)..(n + 2) /\ OnlyAnswersRun(new[i])
    BY <1>2, <1>7, <1>8, <2>1
  <2>3. \A i, j \in 1..2 : new[i].id = new[j].id => i = j
    BY <1>2, <1>7, <1>8, <2>1
  <2>4. \A i \in 1..2 : new[i].role = "assistant" /\ new[i].parent # 0 =>
          \E j \in 1..2 : j < i /\ new[j].role = "user" /\ new[j].id = new[i].parent
    BY <1>7, <1>8, <2>1
  <2> QED
    BY <1>2, <1>7, <2>2, <2>3, <2>4 DEF AddedRows
<1> QED
  BY <1>1, <1>5, <1>6, <1>9, RowsAreAdded

LEMMA AskTogetherKeepsOrder == RowsInOrder(messages) /\ History!AskTogether => RowsInOrder(messages)'
<1> SUFFICES ASSUME RowsInOrder(messages), History!AskTogether PROVE RowsInOrder(messages)'
  OBVIOUS
<1>1. PICK rs : rs = messages
  OBVIOUS
<1>2. PICK n \in Nat : n = Len(rs)
  BY <1>1 DEF RowsInOrder
<1>3. PICK a, b, c, d :
        /\ a = History!User(n + 1) /\ b = History!User(n + 3)
        /\ c = History!Assistant(n + 2, n + 1, "pending", 0) /\ d = History!Assistant(n + 4, n + 3, "pending", 0)
  OBVIOUS
<1>4. IsUser(a, n + 1) /\ IsUser(b, n + 3) /\ IsPending(c, n + 2, n + 1) /\ IsPending(d, n + 4, n + 3)
  BY <1>2, <1>3, NewUser, NewPending
<1>5. messages' = rs \o <<a, b, c, d>>
  BY <1>1, <1>2, <1>3, Zenon DEF History!AskTogether, History!Id
<1>6. PICK new : new = <<a, b, c, d>>
  OBVIOUS
<1>7. /\ new \in Seq(HistoryRows) /\ Len(new) = 4 /\ new[1] = a /\ new[2] = b /\ new[3] = c /\ new[4] = d
  BY <1>4, <1>6, FourRows DEF IsUser, IsPending
<1>8. /\ a.role = "user" /\ a.id = n + 1 /\ OnlyAnswersRun(a)
      /\ b.role = "user" /\ b.id = n + 3 /\ OnlyAnswersRun(b)
      /\ c.role = "assistant" /\ c.id = n + 2 /\ c.parent = n + 1 /\ OnlyAnswersRun(c)
      /\ d.role = "assistant" /\ d.id = n + 4 /\ d.parent = n + 3 /\ OnlyAnswersRun(d)
  BY <1>4 DEF IsUser, IsPending
<1>9. AddedRows(rs, new)
  <2>1. \A i \in 1..4 : i = 1 \/ i = 2 \/ i = 3 \/ i = 4
    OBVIOUS
  <2>2. \A i \in 1..4 : new[i].id \in (n + 1)..(n + 4) /\ OnlyAnswersRun(new[i])
    BY <1>2, <1>7, <1>8, <2>1
  <2>3. \A i, j \in 1..4 : new[i].id = new[j].id => i = j
    BY <1>2, <1>7, <1>8, <2>1
  <2>4. \A i \in 1..4 : new[i].role = "assistant" /\ new[i].parent # 0 =>
          \E j \in 1..4 : j < i /\ new[j].role = "user" /\ new[j].id = new[i].parent
    BY <1>7, <1>8, <2>1
  <2> QED
    BY <1>2, <1>7, <2>2, <2>3, <2>4 DEF AddedRows
<1> QED
  BY <1>1, <1>5, <1>6, <1>9, RowsAreAdded

(* A row that ends keeps its place, its question and its kind.             *)
EndedRow(old, new) ==
  /\ new \in HistoryRows
  /\ new.id = old.id /\ new.role = old.role /\ new.parent = old.parent

LEMMA FinishKeepsOrder ==
  ASSUME NEW i \in DOMAIN messages, RowsInOrder(messages), History!Finish(i)
  PROVE  RowsInOrder(messages)'
<1>1. PICK rs : rs = messages
  OBVIOUS
<1>2. PICK n \in Nat : n = Len(rs) /\ DOMAIN rs = 1..n
  BY <1>1 DEF RowsInOrder
<1>3. rs \in Seq(HistoryRows) /\ i \in 1..n /\ rs[i] \in HistoryRows
  BY <1>1, <1>2 DEF RowsInOrder
<1>4. rs[i].status = "pending" /\ rs[i].role = "assistant" /\ rs[i].parent # 0
  <2>1. rs[i].status = "pending"
    BY <1>1 DEF History!Finish
  <2>2. OnlyAnswersRun(rs[i])
    BY <1>1, <1>2, <1>3 DEF RowsInOrder
  <2> QED
    BY <2>1, <2>2 DEF OnlyAnswersRun
<1>5. PICK row \in HistoryRows : row = rs[i]
  BY <1>3
<1>6. \E new : EndedRow(row, new) /\ messages' = [rs EXCEPT ![i] = new]
  <2>1. ASSUME NEW size \in AnswerSizes,
               messages' = [rs EXCEPT ![i].status = "completed", ![i].size = size]
        PROVE  \E new : EndedRow(row, new) /\ messages' = [rs EXCEPT ![i] = new]
    <3>1. PICK new : new = [row EXCEPT !.status = "completed", !.size = size]
      OBVIOUS
    <3>2. size \in Nat
      BY HistoryIsBounded
    <3>3. EndedRow(row, new)
      BY <1>4, <1>5, <3>1, <3>2 DEF EndedRow, HistoryRows
    <3>4. messages' = [rs EXCEPT ![i] = new]
      BY <1>3, <1>5, <2>1, <3>1
    <3> QED
      BY <3>3, <3>4
  <2>2. ASSUME messages' = [rs EXCEPT ![i].status = "failed"]
        PROVE  \E new : EndedRow(row, new) /\ messages' = [rs EXCEPT ![i] = new]
    <3>1. PICK new : new = [row EXCEPT !.status = "failed"]
      OBVIOUS
    <3>2. EndedRow(row, new)
      BY <1>4, <1>5, <3>1 DEF EndedRow, HistoryRows
    <3>3. messages' = [rs EXCEPT ![i] = new]
      BY <1>3, <1>5, <2>2, <3>1
    <3> QED
      BY <3>2, <3>3
  <2> QED
    BY <1>1, <2>1, <2>2, Zenon DEF History!Finish
<1>7. PICK new : EndedRow(row, new) /\ messages' = [rs EXCEPT ![i] = new]
  BY <1>6
<1>8. PICK next : next = [rs EXCEPT ![i] = new]
  OBVIOUS
<1>9. /\ next \in Seq(HistoryRows) /\ Len(next) = n
      /\ \A k \in 1..n : next[k] = IF k = i THEN new ELSE rs[k]
  BY <1>2, <1>3, <1>7, <1>8 DEF EndedRow
<1>10. \A k \in 1..n : next[k].id = rs[k].id /\ next[k].role = rs[k].role /\ next[k].parent = rs[k].parent
  BY <1>5, <1>7, <1>9 DEF EndedRow
<1>11. \A k \in 1..n : OnlyAnswersRun(next[k])
  <2>1. ASSUME NEW k \in 1..n, k = i PROVE OnlyAnswersRun(next[k])
    <3>1. next[k].role = "assistant" /\ next[k].parent # 0
      BY <1>4, <1>10, <2>1
    <3> QED
      BY <3>1 DEF OnlyAnswersRun
  <2>2. ASSUME NEW k \in 1..n, k # i PROVE OnlyAnswersRun(next[k])
    BY <1>1, <1>2, <1>9, <2>2 DEF RowsInOrder
  <2> QED
    BY <2>1, <2>2
<1>12. \A k \in 1..n : HasItsQuestion(next, k)
  <2>1. \A k \in 1..n : HasItsQuestion(rs, k)
    BY <1>1, <1>2 DEF RowsInOrder
  <2> QED
    BY <1>2, <1>9, <1>10, <2>1 DEF HasItsQuestion
<1>13. /\ \A k \in 1..n : next[k].id \in 1..n
       /\ \A j, k \in 1..n : next[j].id = next[k].id => j = k
  BY <1>1, <1>2, <1>10 DEF RowsInOrder
<1>14. RowsInOrder(next)
  BY <1>9, <1>11, <1>12, <1>13 DEF RowsInOrder
<1> QED
  BY <1>7, <1>8, <1>14

LEMMA RetryKeepsOrder ==
  ASSUME NEW i \in DOMAIN messages, RowsInOrder(messages), History!Retry(i)
  PROVE  RowsInOrder(messages)'
<1>1. PICK rs : rs = messages
  OBVIOUS
<1>2. PICK n \in Nat : n = Len(rs) /\ DOMAIN rs = 1..n
  BY <1>1 DEF RowsInOrder
<1>3. rs \in Seq(HistoryRows) /\ i \in 1..n /\ rs[i] \in HistoryRows
  BY <1>1, <1>2 DEF RowsInOrder
<1>4. PICK parent \in Nat \ {0} : parent = rs[i].parent /\ rs[i].role = "assistant"
  <2>1. rs[i].status = "failed"
    BY <1>1 DEF History!Retry
  <2>2. OnlyAnswersRun(rs[i])
    BY <1>1, <1>2, <1>3 DEF RowsInOrder
  <2> QED
    BY <1>3, <2>1, <2>2 DEF OnlyAnswersRun, HistoryRows
<1>5. PICK j \in 1..n : rs[j].role = "user" /\ rs[j].id = parent
  <2>1. HasItsQuestion(rs, i)
    BY <1>1, <1>2, <1>3 DEF RowsInOrder
  <2> QED
    BY <1>2, <1>4, <2>1 DEF HasItsQuestion
<1>6. PICK row : row = History!Assistant(n + 1, parent, "pending", 0)
  OBVIOUS
<1>7. IsPending(row, n + 1, parent)
  BY <1>2, <1>4, <1>6, NewPending
<1>8. messages' = Append(rs, row)
  BY <1>1, <1>2, <1>4, <1>6, Zenon DEF History!Retry, History!Id
<1>9. PICK new : new = <<row>>
  OBVIOUS
<1>10. new \in Seq(HistoryRows) /\ Len(new) = 1 /\ new[1] = row
  BY <1>7, <1>9, OneRow DEF IsPending
<1>11. Append(rs, row) = rs \o new
  BY <1>3, <1>7, <1>9 DEF IsPending
<1>12. row.role = "assistant" /\ row.id = n + 1 /\ row.parent = parent /\ OnlyAnswersRun(row)
  BY <1>7 DEF IsPending
<1>13. AddedRows(rs, new)
  <2>1. \A k \in 1..1 : k = 1
    OBVIOUS
  <2>2. \A k \in 1..1 : new[k].id \in (n + 1)..(n + 1) /\ OnlyAnswersRun(new[k])
    BY <1>2, <1>10, <1>12, <2>1
  <2>3. \A k \in 1..1 : new[k].parent = parent
    BY <1>10, <1>12, <2>1
  <2> QED
    BY <1>2, <1>5, <1>10, <2>1, <2>2, <2>3 DEF AddedRows
<1> QED
  BY <1>1, <1>8, <1>11, <1>13, RowsAreAdded

LEMMA TranscriptStepSafe ==
  RowsInOrder(messages) /\ [History!TranscriptNext]_messages => RowsInOrder(messages)'
<1>1. ASSUME RowsInOrder(messages), UNCHANGED messages PROVE RowsInOrder(messages)'
  BY <1>1
<1> QED
  BY <1>1, AskKeepsOrder, AskTogetherKeepsOrder, FinishKeepsOrder, RetryKeepsOrder DEF History!TranscriptNext

LEMMA TranscriptInitSafe == History!TranscriptInit => RowsInOrder(messages)
<1>1. RowsInOrder(<<>>)
  BY DEF RowsInOrder
<1> QED
  BY <1>1, OldRowsInOrder DEF History!TranscriptInit

-----------------------------------------------------------------------------
(* What the pairing has told after n rows, and of whom.                    *)

Told(pairs, q, a) ==
  \E i \in 1..Len(pairs) : pairs[i].question = q /\ pairs[i].answer = a

LEMMA ToldOfOneMore ==
  ASSUME NEW pairs \in Seq(HistoryTurns), NEW t \in HistoryTurns, NEW q, NEW a
  PROVE  Told(Append(pairs, t), q, a) <=> Told(pairs, q, a) \/ (t.question = q /\ t.answer = a)
<1>1. PICK n \in Nat : n = Len(pairs)
  OBVIOUS
<1>2. PICK all : all = Append(pairs, t)
  OBVIOUS
<1>3. Len(all) = n + 1 /\ all[n + 1] = t /\ \A i \in 1..n : all[i] = pairs[i]
  BY <1>1, <1>2
<1>4. \A i \in 1..(n + 1) : i \in 1..n \/ i = n + 1
  BY <1>1
<1>5. n + 1 \in 1..(n + 1) /\ \A i \in 1..n : i \in 1..(n + 1)
  BY <1>1
<1> QED
  BY <1>1, <1>2, <1>3, <1>4, <1>5 DEF Told

IsAnAnswer(rs, k) == rs[k].role = "assistant" /\ rs[k].status = "completed" /\ rs[k].parent # 0

AnswersTo(rs, q, n) == {k \in 1..n : IsAnAnswer(rs, k) /\ rs[k].parent = q}

TwiceAnswered(rs, q) ==
  \E i, j \in AnswersTo(rs, q, Len(rs)) : i # j

EveryAnswerHasAParent(rs) == \A k \in 1..Len(rs) : rs[k].role = "assistant" => rs[k].parent # 0

UsersRead(rs, acc, n) == \A i \in DOMAIN acc.users : \E j \in 1..n : acc.users[i] = rs[j]

UsedAreRead(rs, acc, n) == \A u \in acc.used : \E j \in 1..n : rs[j].role = "user" /\ rs[j].id = u

UsedAreAnswered(rs, acc, n) ==
  \A u \in acc.used : u \in History!Reserved(rs) => AnswersTo(rs, u, n) # {}

AnswersAreTold(rs, acc, n) ==
  \A k \in 1..n : IsAnAnswer(rs, k) => Told(acc.turns, rs[k].parent, rs[k].id) \/ TwiceAnswered(rs, rs[k].parent)

ToldAreAnswers(rs, acc, n) ==
  EveryAnswerHasAParent(rs) =>
    \A q, a : Told(acc.turns, q, a) => \E k \in AnswersTo(rs, q, n) : rs[k].id = a

PairedSoFar(rs, acc, n) ==
  /\ UsersRead(rs, acc, n) /\ UsedAreRead(rs, acc, n) /\ UsedAreAnswered(rs, acc, n)
  /\ AnswersAreTold(rs, acc, n) /\ ToldAreAnswers(rs, acc, n)

LEMMA NothingPairedYet ==
  ASSUME NEW rs \in Seq(HistoryRows)
  PROVE  PairedSoFar(rs, NothingPaired, 0)
<1>1. NothingPaired.users = <<>> /\ NothingPaired.used = {} /\ NothingPaired.turns = <<>>
  BY DEF NothingPaired
<1>2. DOMAIN <<>> = {} /\ 1..0 = {} /\ Len(<<>>) = 0
  OBVIOUS
<1>3. \A q, a : ~Told(<<>>, q, a)
  BY <1>2 DEF Told
<1>4. UsersRead(rs, NothingPaired, 0) /\ UsedAreRead(rs, NothingPaired, 0) /\ UsedAreAnswered(rs, NothingPaired, 0)
  BY <1>1, <1>2 DEF UsersRead, UsedAreRead, UsedAreAnswered
<1>5. AnswersAreTold(rs, NothingPaired, 0) /\ ToldAreAnswers(rs, NothingPaired, 0)
  BY <1>1, <1>2, <1>3 DEF AnswersAreTold, ToldAreAnswers
<1> QED
  BY <1>4, <1>5 DEF PairedSoFar

(* A row that tells nothing more.                                          *)
LEMMA NothingMoreTold ==
  ASSUME NEW rs \in Seq(HistoryRows), NEW n \in 1..Len(rs), NEW acc, NEW next,
         PairedSoFar(rs, acc, n - 1), next.used = acc.used, next.turns = acc.turns,
         UsersRead(rs, next, n),
         IsAnAnswer(rs, n) => TwiceAnswered(rs, rs[n].parent)
  PROVE  PairedSoFar(rs, next, n)
<1>1. \A j \in 1..(n - 1) : j \in 1..n
  OBVIOUS
<1>2. \A j \in 1..n : j \in 1..(n - 1) \/ j = n
  OBVIOUS
<1>3. UsedAreRead(rs, next, n)
  BY <1>1 DEF PairedSoFar, UsedAreRead
<1>4. \A q : AnswersTo(rs, q, n - 1) \subseteq AnswersTo(rs, q, n)
  BY <1>1 DEF AnswersTo
<1>5. UsedAreAnswered(rs, next, n)
  BY <1>4 DEF PairedSoFar, UsedAreAnswered
<1>6. AnswersAreTold(rs, next, n)
  BY <1>2 DEF PairedSoFar, AnswersAreTold
<1>7. ToldAreAnswers(rs, next, n)
  BY <1>4 DEF PairedSoFar, ToldAreAnswers
<1> QED
  BY <1>3, <1>5, <1>6, <1>7 DEF PairedSoFar

(* A row that tells one turn more.                                         *)
LEMMA OneMoreTold ==
  ASSUME NEW rs \in Seq(HistoryRows), NEW n \in 1..Len(rs), NEW acc \in PairStates, NEW next,
         PairedSoFar(rs, acc, n - 1), UsersRead(rs, next, n),
         NEW user \in UserRows, NEW j \in 1..n, user = rs[j],
         next.used = acc.used \cup {user.id}, next.turns = Append(acc.turns, History!Turn(user, rs[n])),
         user.id \in History!Reserved(rs) => n \in AnswersTo(rs, user.id, n),
         rs[n].parent # 0 => rs[n].parent = user.id,
         rs[n].role = "assistant" /\ rs[n].status = "completed"
  PROVE  PairedSoFar(rs, next, n)
<1>1. \A k \in 1..(n - 1) : k \in 1..n
  OBVIOUS
<1>2. \A k \in 1..n : k \in 1..(n - 1) \/ k = n
  OBVIOUS
<1>3. UsedAreRead(rs, next, n)
  <2>1. user.role = "user"
    BY DEF UserRows
  <2> QED
    BY <1>1, <2>1 DEF PairedSoFar, UsedAreRead
<1>4. \A q : AnswersTo(rs, q, n - 1) \subseteq AnswersTo(rs, q, n)
  BY <1>1 DEF AnswersTo
<1>5. UsedAreAnswered(rs, next, n)
  BY <1>4 DEF PairedSoFar, UsedAreAnswered
<1>6. rs[n] \in HistoryRows /\ acc.turns \in Seq(HistoryTurns)
  BY DEF PairStates
<1>7. PICK t \in HistoryTurns : t = History!Turn(user, rs[n]) /\ t.question = user.id /\ t.answer = rs[n].id
  BY <1>6, TurnTyped
<1>8. PICK pairs \in Seq(HistoryTurns) : pairs = acc.turns
  BY <1>6
<1>9. \A q, a : Told(next.turns, q, a) <=> Told(pairs, q, a) \/ (user.id = q /\ rs[n].id = a)
  BY <1>7, <1>8, ToldOfOneMore
<1>10. AnswersAreTold(rs, next, n)
  <2>1. IsAnAnswer(rs, n) => Told(next.turns, rs[n].parent, rs[n].id)
    BY <1>9 DEF IsAnAnswer
  <2>2. AnswersAreTold(rs, acc, n - 1)
    BY DEF PairedSoFar
  <2> QED
    BY <1>2, <1>8, <1>9, <2>1, <2>2 DEF AnswersAreTold
<1>11. ToldAreAnswers(rs, next, n)
  <2> SUFFICES ASSUME EveryAnswerHasAParent(rs), NEW q, NEW a, Told(next.turns, q, a)
               PROVE  \E k \in AnswersTo(rs, q, n) : rs[k].id = a
    BY DEF ToldAreAnswers
  <2>1. CASE Told(pairs, q, a)
    BY <1>4, <1>8, <2>1 DEF PairedSoFar, ToldAreAnswers
  <2>2. CASE user.id = q /\ rs[n].id = a
    <3>1. rs[n].parent # 0
      BY DEF EveryAnswerHasAParent
    <3>2. n \in AnswersTo(rs, q, n)
      BY <2>2, <3>1 DEF AnswersTo, IsAnAnswer
    <3> QED
      BY <2>2, <3>2
  <2> QED
    BY <1>9, <2>1, <2>2
<1> QED
  BY <1>3, <1>5, <1>10, <1>11 DEF PairedSoFar

LEMMA OneMoreRowPaired ==
  ASSUME NEW rs, RowsInOrder(rs), NEW n \in 1..Len(rs), NEW acc \in PairStates, NEW next,
         PairedSoFar(rs, acc, n - 1), PairsOneRow(acc, next, rs[n], rs)
  PROVE  PairedSoFar(rs, next, n)
<1>0. rs \in Seq(HistoryRows) /\ HasItsQuestion(rs, n) /\ rs[n] \in HistoryRows
  BY DEF RowsInOrder
<1>1. \A k \in 1..(n - 1) : k \in 1..n /\ k \in 1..Len(rs) /\ k # n
  OBVIOUS
<1>2. UsersRead(rs, acc, n)
  BY <1>1 DEF PairedSoFar, UsersRead
<1>3. CASE AsksAQuestion(acc, next, rs[n])
  <2>1. acc.users \in Seq(UserRows)
    BY DEF PairStates
  <2>2. PICK old \in Seq(UserRows), l \in Nat : old = acc.users /\ l = Len(old) /\ DOMAIN old = 1..l
    BY <2>1
  <2>3. PICK new : new = Append(old, rs[n])
    OBVIOUS
  <2>4. DOMAIN new = 1..(l + 1) /\ new[l + 1] = rs[n] /\ \A i \in 1..l : new[i] = old[i]
    <3>1. rs[n] \in UserRows
      BY <1>0, <1>3 DEF AsksAQuestion, UserRows
    <3> QED
      BY <2>2, <2>3, <3>1
  <2>5. \A i \in 1..(l + 1) : i \in 1..l \/ i = l + 1
    BY <2>2
  <2>6. next.users = new
    BY <1>3, <2>2, <2>3 DEF AsksAQuestion
  <2>7. n \in 1..n
    OBVIOUS
  <2>8. UsersRead(rs, next, n)
    BY <1>2, <2>2, <2>4, <2>5, <2>6, <2>7 DEF UsersRead
  <2>9. ~IsAnAnswer(rs, n)
    BY <1>3 DEF AsksAQuestion, IsAnAnswer
  <2> QED
    BY <1>0, <1>3, <2>8, <2>9, NothingMoreTold DEF AsksAQuestion
<1>4. CASE HasNoPair(acc, next, rs[n], rs)
  <2>1. ASSUME IsAnAnswer(rs, n) PROVE TwiceAnswered(rs, rs[n].parent)
    <3>1. PICK p : p = rs[n].parent
      OBVIOUS
    <3>2. PICK j \in 1..Len(rs) : rs[j].role = "user" /\ rs[j].id = p
      BY <1>0, <2>1, <3>1 DEF IsAnAnswer, HasItsQuestion
    <3>3. j \in DOMAIN rs
      BY <1>0, <3>2
    <3>4. p \in acc.used
      BY <1>4, <2>1, <3>1, <3>2, <3>3 DEF HasNoPair, IsAnAnswer
    <3>5. p \in History!Reserved(rs)
      BY <1>0, <2>1, <3>1 DEF History!Reserved, IsAnAnswer, History!NoParent
    <3>6. PICK k \in AnswersTo(rs, p, n - 1) : TRUE
      BY <3>4, <3>5 DEF PairedSoFar, UsedAreAnswered
    <3>7. k # n /\ k \in AnswersTo(rs, p, Len(rs)) /\ n \in AnswersTo(rs, p, Len(rs))
      BY <1>1, <2>1, <3>1, <3>6 DEF AnswersTo
    <3> QED
      BY <3>1, <3>7 DEF TwiceAnswered
  <2>2. next = acc
    BY <1>4 DEF HasNoPair
  <2> QED
    BY <1>0, <1>2, <2>1, <2>2, NothingMoreTold
<1>5. CASE AnswersItsParent(acc, next, rs[n], rs)
  <2>1. PICK i \in DOMAIN rs : /\ rs[i].id = rs[n].parent /\ rs[i].role = "user"
                               /\ next.turns = Append(acc.turns, History!Turn(rs[i], rs[n]))
    BY <1>5 DEF AnswersItsParent
  <2>2. PICK user \in UserRows : user = rs[i]
    BY <1>0, <2>1 DEF UserRows
  <2>3. PICK j \in 1..Len(rs) : j < n /\ rs[j].role = "user" /\ rs[j].id = rs[n].parent
    BY <1>0, <1>5 DEF AnswersItsParent, HasItsQuestion
  <2>4. i \in 1..Len(rs)
    BY <1>0
  <2>5. i = j
    BY <2>1, <2>3, <2>4 DEF RowsInOrder
  <2>6. i \in 1..n
    BY <2>3, <2>4, <2>5
  <2>7. /\ next.users = acc.users /\ next.used = acc.used \cup {user.id}
        /\ rs[n].role = "assistant" /\ rs[n].status = "completed" /\ rs[n].parent # 0 /\ rs[n].parent = user.id
    BY <1>5, <2>1, <2>2 DEF AnswersItsParent
  <2>8. UsersRead(rs, next, n)
    BY <1>2, <2>7 DEF UsersRead
  <2>9. n \in AnswersTo(rs, user.id, n)
    BY <2>7 DEF AnswersTo, IsAnAnswer
  <2>10. next.turns = Append(acc.turns, History!Turn(user, rs[n]))
    BY <2>1, <2>2
  <2> QED
    BY <1>0, <2>2, <2>6, <2>7, <2>8, <2>9, <2>10, OneMoreTold
<1>6. CASE AnswersTheOldest(acc, next, rs[n], rs)
  <2>1. /\ rs[n].role = "assistant" /\ rs[n].status = "completed" /\ rs[n].parent = 0
        /\ TakesTheOldest(acc, next, rs[n], rs)
    BY <1>6 DEF AnswersTheOldest
  <2>2. ComeFrom(next.users, acc.users)
    BY <2>1 DEF TakesTheOldest
  <2>3. UsersRead(rs, next, n)
    BY <1>2, <2>2 DEF ComeFrom, Among, UsersRead
  <2>4. CASE next.used = acc.used /\ next.turns = acc.turns
    BY <1>0, <2>1, <2>3, <2>4, NothingMoreTold DEF IsAnAnswer
  <2>5. ASSUME NEW user \in UserRows, Among(user, acc.users),
               user.id \notin acc.used \cup History!Reserved(rs),
               next.used = acc.used \cup {user.id},
               next.turns = Append(acc.turns, History!Turn(user, rs[n]))
        PROVE  PairedSoFar(rs, next, n)
    <3>1. PICK j \in 1..n : user = rs[j]
      BY <1>2, <2>5 DEF Among, UsersRead
    <3> QED
      BY <1>0, <2>1, <2>3, <2>5, <3>1, OneMoreTold
  <2> QED
    BY <2>1, <2>4, <2>5, Zenon DEF TakesTheOldest
<1> QED
  BY <1>3, <1>4, <1>5, <1>6 DEF PairsOneRow

LEMMA PairedAfterEachRow ==
  ASSUME NEW rs, RowsInOrder(rs), NEW n \in 0..Len(rs)
  PROVE  History!Pairing(rs)[n] \in PairStates /\ PairedSoFar(rs, History!Pairing(rs)[n], n)
<1>1. rs \in Seq(HistoryRows)
  BY DEF RowsInOrder
<1>2. PICK after : after = History!Pairing(rs)
  OBVIOUS
<1>3. /\ after \in [0..Len(rs) -> PairStates] /\ after[0] = NothingPaired
      /\ \A m \in 1..Len(rs) : PairsOneRow(after[m - 1], after[m], rs[m], rs)
  BY <1>1, <1>2, PairingIsALoop
<1> DEFINE S == {m \in 0..Len(rs) : PairedSoFar(rs, after[m], m)}
<1>4. 0 \in S
  BY <1>1, <1>3, NothingPairedYet
<1>5. ASSUME NEW m \in 1..Len(rs), m - 1 \in S PROVE m \in S
  <2>1. m - 1 \in 0..Len(rs) /\ m \in 0..Len(rs)
    BY <1>5
  <2>2. after[m - 1] \in PairStates
    BY <1>3, <2>1
  <2>3. PairedSoFar(rs, after[m - 1], m - 1)
    BY <1>5
  <2>4. PairsOneRow(after[m - 1], after[m], rs[m], rs)
    BY <1>3
  <2>5. PairedSoFar(rs, after[m], m)
    BY <2>2, <2>3, <2>4, OneMoreRowPaired
  <2> QED
    BY <2>1, <2>5
<1>6. \A m \in 0..Len(rs) : m \in S
  <2> HIDE DEF S
  <2>1. Len(rs) \in Nat
    BY <1>1
  <2> QED
    BY <1>4, <1>5, <2>1, NatsBelow
<1> QED
  BY <1>2, <1>3, <1>6

-----------------------------------------------------------------------------
(* The reader's view against what the pairing tells.                       *)

LEMMA AnsweredTwiceHere ==
  ASSUME RowsInOrder(messages), NEW k \in 1..Len(messages), IsAnAnswer(messages, k),
         TwiceAnswered(messages, messages[k].parent)
  PROVE  \E i \in DOMAIN messages : History!AnsweredTwice(messages[i].id)
<1>1. PICK q : q = messages[k].parent
  OBVIOUS
<1>2. DOMAIN messages = 1..Len(messages)
  BY DEF RowsInOrder
<1>3. PICK i \in AnswersTo(messages, q, Len(messages)), j \in AnswersTo(messages, q, Len(messages)) : i # j
  BY <1>1 DEF TwiceAnswered
<1>4. /\ i \in History!Attempts(messages, q) /\ messages[i].status = "completed"
      /\ j \in History!Attempts(messages, q) /\ messages[j].status = "completed"
  BY <1>2 DEF AnswersTo, IsAnAnswer, History!Attempts, History!Ended, History!NoParent
<1>5. History!AnsweredTwice(q)
  BY <1>3, <1>4 DEF History!AnsweredTwice
<1>6. PICK u \in 1..Len(messages) : messages[u].id = q
  BY <1>1 DEF RowsInOrder, HasItsQuestion, IsAnAnswer
<1> QED
  BY <1>2, <1>5, <1>6

(* A completed answer of a question answered once is the one that is shown.*)
LEMMA TheAnswerIsShown ==
  ASSUME RowsInOrder(messages), NEW k \in 1..Len(messages), IsAnAnswer(messages, k),
         ~TwiceAnswered(messages, messages[k].parent)
  PROVE  messages[k] \in History!Shown(messages)
<1>1. PICK q : q = messages[k].parent
  OBVIOUS
<1>2. DOMAIN messages = 1..Len(messages)
  BY DEF RowsInOrder
<1>3. k \in AnswersTo(messages, q, Len(messages))
  BY <1>1 DEF AnswersTo
<1>4. ASSUME NEW j \in History!Attempts(messages, q) \ {k} PROVE History!Better(messages, k, j)
  <2>1. /\ j \in 1..Len(messages) /\ j # k /\ messages[j].role = "assistant" /\ messages[j].parent = q
        /\ messages[j].parent # 0 /\ messages[j].status \in {"completed", "failed"}
    BY <1>2 DEF History!Attempts, History!Ended, History!NoParent
  <2>2. messages[j].status # "completed"
    BY <1>1, <1>3, <2>1 DEF TwiceAnswered, AnswersTo, IsAnAnswer
  <2> QED
    BY <2>1, <2>2 DEF History!Better, IsAnAnswer
<1>5. History!Ended(messages[k])
  BY DEF IsAnAnswer, History!Ended, History!NoParent
<1> QED
  BY <1>1, <1>2, <1>4, <1>5 DEF History!Shown

LEMMA ShownAreAnswers ==
  ASSUME RowsInOrder(messages), NEW row \in History!Shown(messages), row.status = "completed"
  PROVE  \E k \in 1..Len(messages) : row = messages[k] /\ IsAnAnswer(messages, k)
<1>1. DOMAIN messages = 1..Len(messages)
  BY DEF RowsInOrder
<1>2. PICK k \in 1..Len(messages) : row = messages[k] /\ History!Ended(messages[k])
  BY <1>1 DEF History!Shown
<1>3. IsAnAnswer(messages, k)
  BY <1>2 DEF History!Ended, History!NoParent, IsAnAnswer
<1> QED
  BY <1>2, <1>3

(* What is told, and what is seen.                                         *)
ToldPairs(pairs) == {<<pairs[i].question, pairs[i].answer>> : i \in DOMAIN pairs}

SeenPairs == {<<v.question, v.answer>> : v \in {w \in History!View(messages) : w.status = "completed"}}

LEMMA ToldPairsAreTold ==
  ASSUME NEW pairs \in Seq(HistoryTurns), NEW q, NEW a
  PROVE  <<q, a>> \in ToldPairs(pairs) <=> Told(pairs, q, a)
<1>1. DOMAIN pairs = 1..Len(pairs)
  OBVIOUS
<1> QED
  BY <1>1 DEF ToldPairs, Told

LEMMA SeenPairsAreShown ==
  ASSUME History!Shown(messages) # {}
  PROVE  \A pair : pair \in SeenPairs <=>
           \E row \in History!Shown(messages) : row.status = "completed" /\ pair = <<row.parent, row.id>>
<1> DEFINE V(row) == [question |-> row.parent, answer |-> row.id, status |-> row.status]
<1>1. History!View(messages) = {V(row) : row \in History!Shown(messages)}
  BY Zenon DEF History!View, History!ShownTurn
<1>2. \A row : V(row).question = row.parent /\ V(row).answer = row.id /\ V(row).status = row.status
  OBVIOUS
<1> HIDE DEF V
<1>3. PICK visible : visible = History!Shown(messages)
  OBVIOUS
<1>4. SeenPairs = {<<v.question, v.answer>> : v \in {w \in {V(row) : row \in visible} : w.status = "completed"}}
  BY <1>1, <1>3 DEF SeenPairs
<1>5. ASSUME NEW pair, pair \in SeenPairs
      PROVE  \E row \in visible : row.status = "completed" /\ pair = <<row.parent, row.id>>
  <2>1. PICK v \in {w \in {V(row) : row \in visible} : w.status = "completed"} : pair = <<v.question, v.answer>>
    BY <1>4, <1>5
  <2>2. PICK row \in visible : v = V(row) /\ v.status = "completed"
    BY <2>1
  <2> QED
    BY <1>2, <2>1, <2>2
<1>6. ASSUME NEW row \in visible, row.status = "completed" PROVE <<row.parent, row.id>> \in SeenPairs
  <2>1. PICK v : v = V(row) /\ v.question = row.parent /\ v.answer = row.id /\ v.status = "completed"
    BY <1>2, <1>6
  <2>2. v \in {w \in {V(r) : r \in visible} : w.status = "completed"}
    BY <2>1
  <2> QED
    BY <1>4, <2>1, <2>2
<1> QED
  BY <1>3, <1>5, <1>6

LEMMA NothingShownIsTold ==
  ASSUME History!Shown(messages) = {}
  PROVE  SeenPairs = ToldPairs(History!PairCompletedHistoryTurns(messages))
<1>1. PICK pairs : pairs = History!PairCompletedHistoryTurns(messages)
  OBVIOUS
<1> DEFINE V(i) == [question |-> pairs[i].question, answer |-> pairs[i].answer, status |-> "completed"]
<1>2. History!View(messages) = {V(i) : i \in DOMAIN pairs}
  BY <1>1, Zenon DEF History!View
<1>3. \A i : V(i).question = pairs[i].question /\ V(i).answer = pairs[i].answer /\ V(i).status = "completed"
  OBVIOUS
<1> HIDE DEF V
<1>4. {w \in History!View(messages) : w.status = "completed"} = {V(i) : i \in DOMAIN pairs}
  BY <1>2, <1>3
<1>5. SeenPairs = {<<v.question, v.answer>> : v \in {V(i) : i \in DOMAIN pairs}}
  BY <1>4 DEF SeenPairs
<1>6. SeenPairs = {<<pairs[i].question, pairs[i].answer>> : i \in DOMAIN pairs}
  BY <1>3, <1>5
<1> QED
  BY <1>1, <1>6 DEF ToldPairs

LEMMA RememberedAreShown == RowsInOrder(messages) => History!RememberedIsShown
<1> SUFFICES ASSUME RowsInOrder(messages), ~ \E i \in DOMAIN messages : History!AnsweredTwice(messages[i].id)
             PROVE  History!RememberedIsShown
  BY DEF History!RememberedIsShown
<1>1. PICK pairs : pairs = History!PairCompletedHistoryTurns(messages)
  OBVIOUS
<1>2. PICK acc : acc = History!Pairing(messages)[Len(messages)] /\ pairs = acc.turns
  BY <1>1 DEF History!PairCompletedHistoryTurns
<1>3. PICK n \in Nat : n = Len(messages)
  BY DEF RowsInOrder
<1>4. acc \in PairStates /\ PairedSoFar(messages, acc, n)
  BY <1>2, <1>3, PairedAfterEachRow
<1>5. pairs \in Seq(HistoryTurns)
  BY <1>2, <1>4 DEF PairStates
<1>6. \A k \in 1..n : IsAnAnswer(messages, k) => ~TwiceAnswered(messages, messages[k].parent)
  BY <1>3, AnsweredTwiceHere
<1>7. SeenPairs \subseteq ToldPairs(pairs)
  <2>1. CASE History!Shown(messages) = {}
    BY <1>1, <2>1, NothingShownIsTold
  <2>2. CASE History!Shown(messages) # {}
    <3> SUFFICES ASSUME NEW pair \in SeenPairs PROVE pair \in ToldPairs(pairs)
      OBVIOUS
    <3>1. PICK row \in History!Shown(messages) : row.status = "completed" /\ pair = <<row.parent, row.id>>
      BY <2>2, SeenPairsAreShown
    <3>2. PICK k \in 1..n : row = messages[k] /\ IsAnAnswer(messages, k)
      BY <1>3, <3>1, ShownAreAnswers
    <3>3. Told(pairs, row.parent, row.id)
      BY <1>2, <1>4, <1>6, <3>2 DEF PairedSoFar, AnswersAreTold
    <3> QED
      BY <1>5, <3>1, <3>3, ToldPairsAreTold
  <2> QED
    BY <2>1, <2>2
<1>8. ASSUME History!AllParented PROVE ToldPairs(pairs) \subseteq SeenPairs
  <2>1. EveryAnswerHasAParent(messages)
    <3>1. DOMAIN messages = 1..Len(messages)
      BY DEF RowsInOrder
    <3> QED
      BY <1>8, <3>1 DEF History!AllParented, History!NoParent, EveryAnswerHasAParent
  <2>2. ASSUME NEW i \in DOMAIN pairs PROVE <<pairs[i].question, pairs[i].answer>> \in SeenPairs
    <3>1. PICK q, a : q = pairs[i].question /\ a = pairs[i].answer
      OBVIOUS
    <3>2. Told(pairs, q, a)
      <4>1. i \in 1..Len(pairs)
        BY <1>5
      <4> QED
        BY <3>1, <4>1 DEF Told
    <3>3. PICK k \in AnswersTo(messages, q, n) : messages[k].id = a
      BY <1>2, <1>4, <2>1, <3>2 DEF PairedSoFar, ToldAreAnswers
    <3>4. k \in 1..n /\ IsAnAnswer(messages, k) /\ messages[k].parent = q
      BY <3>3 DEF AnswersTo
    <3>5. messages[k] \in History!Shown(messages) /\ messages[k].status = "completed"
      BY <1>3, <1>6, <3>4, TheAnswerIsShown DEF IsAnAnswer
    <3>6. <<messages[k].parent, messages[k].id>> \in SeenPairs
      BY <3>5, SeenPairsAreShown
    <3> QED
      BY <3>1, <3>3, <3>4, <3>6
  <2> QED
    BY <2>2 DEF ToldPairs
<1>9. History!AllParented => ToldPairs(pairs) = SeenPairs
  BY <1>7, <1>8
<1> QED
  BY <1>1, <1>7, <1>9, Zenon DEF History!RememberedIsShown, ToldPairs, SeenPairs

-----------------------------------------------------------------------------
(* The pairing of the tail against the pairing of all the rows.            *)

TailOf(tail, rs, d) ==
  /\ tail \in Seq(HistoryRows) /\ d \in Nat /\ Len(rs) = d + Len(tail)
  /\ \A i \in 1..Len(tail) : tail[i] = rs[d + i]

(* No question of the tail comes before an answer to a lost question.      *)
NoLostQuestions(tail) ==
  \A i \in 1..Len(tail) :
    IsAnAnswer(tail, i) =>
      \/ \E j \in 1..Len(tail) : tail[j].id = tail[i].parent
      \/ \A j \in 1..Len(tail) : j < i => tail[j].role # "user"

SameUsed(tail, t, r) ==
  \A j \in 1..Len(tail) : tail[j].role = "user" => (tail[j].id \in t.used <=> tail[j].id \in r.used)

ToldAfterAQuestion(tail, t, n) == t.turns # <<>> => \E j \in 1..n : tail[j].role = "user"

SamePairs(tail, t, r, n) ==
  EndOf(t.turns, r.turns) /\ SameUsed(tail, t, r) /\ ToldAfterAQuestion(tail, t, n)

LEMMA EndsGrow ==
  ASSUME NEW T, NEW a \in Seq(T), NEW b \in Seq(T), EndOf(a, b), NEW t \in T
  PROVE  EndOf(Append(a, t), Append(b, t))
<1>1. PICK l \in Nat, m \in Nat : l = Len(a) /\ m = Len(b)
  OBVIOUS
<1>2. l <= m /\ \A i \in 1..l : a[i] = b[m - l + i]
  BY <1>1 DEF EndOf
<1>3. PICK c, d : c = Append(a, t) /\ d = Append(b, t)
  OBVIOUS
<1>4. /\ Len(c) = l + 1 /\ c[l + 1] = t /\ \A i \in 1..l : c[i] = a[i]
      /\ Len(d) = m + 1 /\ d[m + 1] = t /\ \A i \in 1..m : d[i] = b[i]
  BY <1>1, <1>3
<1>5. ASSUME NEW i \in 1..(l + 1) PROVE c[i] = d[(m + 1) - (l + 1) + i]
  <2>1. CASE i = l + 1
    <3>1. (m + 1) - (l + 1) + i = m + 1
      BY <1>1, <2>1
    <3> QED
      BY <1>4, <2>1, <3>1
  <2>2. CASE i # l + 1
    <3>1. i \in 1..l /\ (m + 1) - (l + 1) + i = m - l + i /\ m - l + i \in 1..m
      BY <1>1, <1>2, <2>2
    <3>2. c[i] = b[m - l + i]
      BY <1>2, <1>4, <3>1
    <3>3. d[m - l + i] = b[m - l + i]
      BY <1>4, <3>1
    <3> QED
      BY <3>1, <3>2, <3>3
  <2> QED
    BY <2>1, <2>2
<1>6. l + 1 <= m + 1
  BY <1>1, <1>2
<1> QED
  BY <1>3, <1>4, <1>5, <1>6 DEF EndOf

LEMMA NothingIsAnEnd ==
  ASSUME NEW T, NEW s \in Seq(T)
  PROVE  EndOf(<<>>, s)
BY DEF EndOf

LEMMA TailIndices ==
  ASSUME NEW rs, RowsInOrder(rs), NEW tail, NEW d, TailOf(tail, rs, d), NEW i \in 1..Len(tail)
  PROVE  d + i \in 1..Len(rs) /\ tail[i] = rs[d + i] /\ tail[i] \in HistoryRows /\ i \in DOMAIN tail
<1>1. PICK l \in Nat : l = Len(tail)
  BY DEF TailOf
<1>2. d \in Nat /\ Len(rs) = d + l /\ tail[i] = rs[d + i]
  BY <1>1 DEF TailOf
<1>3. i \in 1..l
  BY <1>1
<1>4. d + i \in 1..(d + l)
  BY <1>2, <1>3
<1>5. tail[i] \in HistoryRows /\ i \in DOMAIN tail
  BY DEF TailOf
<1> QED
  BY <1>2, <1>4, <1>5

(* The question of an answer is the tail's own row, or none of them.       *)
LEMMA QuestionOfTheTail ==
  ASSUME NEW rs, RowsInOrder(rs), NEW tail, NEW d, TailOf(tail, rs, d),
         NEW n \in 1..Len(tail), IsAnAnswer(tail, n), NEW j \in 1..Len(tail), tail[j].id = tail[n].parent
  PROVE  j < n /\ tail[j].role = "user"
<1>1. d + n \in 1..Len(rs) /\ tail[n] = rs[d + n] /\ d + j \in 1..Len(rs) /\ tail[j] = rs[d + j]
  BY TailIndices
<1>2. PICK q \in 1..Len(rs) : q < d + n /\ rs[q].role = "user" /\ rs[q].id = tail[n].parent
  BY <1>1 DEF RowsInOrder, HasItsQuestion, IsAnAnswer
<1>3. q = d + j
  BY <1>1, <1>2 DEF RowsInOrder
<1>4. d \in Nat /\ Len(tail) \in Nat
  BY DEF TailOf
<1> QED
  BY <1>1, <1>2, <1>3, <1>4

(* A row that tells neither anything leaves them alike.                    *)
LEMMA SamePairsStay ==
  ASSUME NEW tail, NEW n, NEW m, n \in Nat, m \in Nat, m <= n, NEW t, NEW r, NEW t1, NEW r1,
         SamePairs(tail, t, r, m),
         t1.turns = t.turns, t1.used = t.used, r1.turns = r.turns, r1.used = r.used
  PROVE  SamePairs(tail, t1, r1, n)
<1>1. \A j \in 1..m : j \in 1..n
  OBVIOUS
<1> QED
  BY <1>1 DEF SamePairs, SameUsed, ToldAfterAQuestion

LEMMA SamePairsOfOneAnswer ==
  ASSUME NEW rs, RowsInOrder(rs), NEW tail, NEW d, TailOf(tail, rs, d),
         NoLostQuestions(tail), NEW n \in 1..Len(tail),
         NEW t \in PairStates, NEW r \in PairStates, NEW t1, NEW r1, SamePairs(tail, t, r, n - 1),
         IsAnAnswer(tail, n),
         HasNoPair(t, t1, tail[n], tail) \/ AnswersItsParent(t, t1, tail[n], tail),
         HasNoPair(r, r1, tail[n], rs) \/ AnswersItsParent(r, r1, tail[n], rs)
  PROVE  SamePairs(tail, t1, r1, n)
<1>0. /\ rs \in Seq(HistoryRows) /\ tail \in Seq(HistoryRows)
      /\ t.turns \in Seq(HistoryTurns) /\ r.turns \in Seq(HistoryTurns)
  BY DEF RowsInOrder, TailOf, PairStates
<1>1. PICK l \in Nat : l = Len(tail) /\ n \in 1..l /\ DOMAIN tail = 1..l
  BY <1>0
<1>2. \A j \in 1..(n - 1) : j \in 1..n
  BY <1>1
<1>3. PICK row \in HistoryRows : row = tail[n]
  BY TailIndices
<1>4. PICK p : p = row.parent
  OBVIOUS
<1>5. row.role = "assistant" /\ row.status = "completed" /\ row.parent # 0
  BY <1>3 DEF IsAnAnswer
<1>6. ASSUME NEW j \in 1..l, tail[j].id = p
      PROVE  SamePairs(tail, t1, r1, n)
  <2>1. j < n /\ tail[j].role = "user"
    BY <1>1, <1>3, <1>4, <1>6, QuestionOfTheTail
  <2>2. d + j \in 1..Len(rs) /\ tail[j] = rs[d + j] /\ d + j \in DOMAIN rs /\ j \in DOMAIN tail
    BY <1>0, <1>1, <1>6, TailIndices
  <2>3. p \in t.used <=> p \in r.used
    BY <1>1, <1>6, <2>1 DEF SamePairs, SameUsed
  <2>4. CASE p \in t.used
    <3>1. t1 = t /\ r1 = r
      BY <1>3, <1>4, <2>3, <2>4 DEF HasNoPair, AnswersItsParent
    <3>2. n \in Nat /\ n - 1 \in Nat /\ n - 1 <= n
      BY <1>1
    <3> QED
      BY <3>1, <3>2, SamePairsStay
  <2>5. CASE p \notin t.used
    <3>1. AnswersItsParent(t, t1, row, tail)
      <4>1. ~HasNoPair(t, t1, row, tail)
        BY <1>4, <1>5, <1>6, <2>1, <2>2, <2>5 DEF HasNoPair
      <4> QED
        BY <1>3, <4>1
    <3>2. AnswersItsParent(r, r1, row, rs)
      <4>1. rs[d + j].id = p /\ rs[d + j].role = "user"
        BY <1>6, <2>1, <2>2
      <4>2. ~HasNoPair(r, r1, row, rs)
        BY <1>4, <1>5, <2>2, <2>3, <2>5, <4>1 DEF HasNoPair
      <4> QED
        BY <1>3, <4>2
    <3>3. PICK i \in DOMAIN tail : tail[i].id = p /\ t1.turns = Append(t.turns, History!Turn(tail[i], row))
      BY <1>4, <3>1 DEF AnswersItsParent
    <3>4. PICK k \in DOMAIN rs : rs[k].id = p /\ r1.turns = Append(r.turns, History!Turn(rs[k], row))
      BY <1>4, <3>2 DEF AnswersItsParent
    <3>5. tail[i] = rs[k]
      <4>1. k \in 1..Len(rs) /\ rs[k].id = rs[d + j].id
        BY <1>0, <1>6, <2>2, <3>4
      <4>2. k = d + j
        BY <2>2, <4>1 DEF RowsInOrder
      <4>3. i \in 1..Len(tail)
        BY <1>1
      <4>4. d + i \in 1..Len(rs) /\ tail[i] = rs[d + i]
        BY <4>3, TailIndices
      <4>5. d + i = d + j
        BY <1>6, <2>2, <3>3, <4>4 DEF RowsInOrder
      <4> QED
        BY <4>2, <4>4, <4>5
    <3>6. PICK user \in UserRows : user = tail[j]
      BY <1>0, <1>1, <1>6, <2>1 DEF UserRows
    <3>7. tail[i] = user
      <4>1. i \in 1..Len(tail)
        BY <1>1
      <4>2. d + i \in 1..Len(rs) /\ tail[i] = rs[d + i]
        BY <4>1, TailIndices
      <4>3. d + i = d + j
        BY <1>6, <2>2, <3>3, <4>2 DEF RowsInOrder
      <4> QED
        BY <2>2, <3>6, <4>2, <4>3
    <3>8. PICK turn \in HistoryTurns : turn = History!Turn(user, row)
      BY TurnTyped
    <3>9. EndOf(t1.turns, r1.turns)
      <4>1. EndOf(t.turns, r.turns)
        BY DEF SamePairs
      <4>2. EndOf(Append(t.turns, turn), Append(r.turns, turn))
        BY <1>0, <4>1, EndsGrow
      <4>3. t1.turns = Append(t.turns, turn) /\ r1.turns = Append(r.turns, turn)
        BY <3>3, <3>4, <3>5, <3>7, <3>8
      <4> QED
        BY <4>2, <4>3
    <3>10. t1.used = t.used \cup {p} /\ r1.used = r.used \cup {p}
      BY <1>4, <3>1, <3>2 DEF AnswersItsParent
    <3>11. SameUsed(tail, t1, r1)
      BY <3>10 DEF SamePairs, SameUsed
    <3>12. ToldAfterAQuestion(tail, t1, n)
      <4>1. j \in 1..n
        BY <1>1, <2>1
      <4> QED
        BY <2>1, <4>1 DEF ToldAfterAQuestion
    <3> QED
      BY <3>9, <3>11, <3>12 DEF SamePairs
  <2> QED
    BY <2>4, <2>5
<1>7. ASSUME \A j \in 1..l : tail[j].id # p
      PROVE  SamePairs(tail, t1, r1, n)
  <2>1. \A j \in 1..l : j < n => tail[j].role # "user"
    BY <1>1, <1>3, <1>4, <1>7 DEF NoLostQuestions
  <2>2. t.turns = <<>>
    <3>1. \A j \in 1..(n - 1) : j \in 1..l /\ j < n
      BY <1>1
    <3> QED
      BY <2>1, <3>1 DEF SamePairs, ToldAfterAQuestion
  <2>3. t1 = t
    BY <1>1, <1>3, <1>4, <1>7 DEF HasNoPair, AnswersItsParent
  <2>4. r1.turns \in Seq(HistoryTurns) /\ (r1.used = r.used \/ r1.used = r.used \cup {p})
    <3>1. CASE HasNoPair(r, r1, row, rs)
      BY <1>0, <3>1 DEF HasNoPair
    <3>2. CASE AnswersItsParent(r, r1, row, rs)
      <4>1. PICK k \in DOMAIN rs : rs[k].role = "user" /\ r1.turns = Append(r.turns, History!Turn(rs[k], row))
        BY <3>2 DEF AnswersItsParent
      <4>2. rs[k] \in UserRows
        BY <1>0, <4>1 DEF UserRows
      <4>3. PICK turn \in HistoryTurns : turn = History!Turn(rs[k], row)
        BY <4>2, TurnTyped
      <4>4. Append(r.turns, turn) \in Seq(HistoryTurns)
        BY <1>0
      <4> QED
        BY <1>4, <3>2, <4>1, <4>3, <4>4 DEF AnswersItsParent
    <3> QED
      BY <1>3, <3>1, <3>2
  <2>5. EndOf(t1.turns, r1.turns)
    BY <2>2, <2>3, <2>4, NothingIsAnEnd
  <2>6. SameUsed(tail, t1, r1)
    BY <1>1, <1>7, <2>3, <2>4 DEF SamePairs, SameUsed
  <2>7. ToldAfterAQuestion(tail, t1, n)
    BY <2>2, <2>3 DEF ToldAfterAQuestion
  <2> QED
    BY <2>5, <2>6, <2>7 DEF SamePairs
<1> QED
  BY <1>6, <1>7

LEMMA SamePairsOfOneRow ==
  ASSUME NEW rs, RowsInOrder(rs), NEW tail, NEW d, TailOf(tail, rs, d),
         EveryAnswerHasAParent(tail), NoLostQuestions(tail), NEW n \in 1..Len(tail),
         NEW t \in PairStates, NEW r \in PairStates, NEW t1, NEW r1, SamePairs(tail, t, r, n - 1),
         PairsOneRow(t, t1, tail[n], tail), PairsOneRow(r, r1, tail[n], rs)
  PROVE  SamePairs(tail, t1, r1, n)
<1>1. n \in Nat /\ n - 1 \in Nat /\ n - 1 <= n
  BY DEF TailOf
<1>2. CASE tail[n].role = "user"
  <2>1. t1.turns = t.turns /\ t1.used = t.used /\ r1.turns = r.turns /\ r1.used = r.used
    BY <1>2 DEF PairsOneRow, AsksAQuestion, HasNoPair, AnswersItsParent, AnswersTheOldest
  <2> QED
    BY <1>1, <2>1, SamePairsStay
<1>3. CASE tail[n].role # "user" /\ tail[n].status # "completed"
  <2>1. t1 = t /\ r1 = r
    BY <1>3 DEF PairsOneRow, AsksAQuestion, HasNoPair, AnswersItsParent, AnswersTheOldest
  <2> QED
    BY <1>1, <2>1, SamePairsStay
<1>4. CASE tail[n].role # "user" /\ tail[n].status = "completed"
  <2>1. tail[n].role = "assistant" /\ tail[n].parent # 0
    <3>1. tail[n] \in HistoryRows
      BY TailIndices
    <3> QED
      BY <1>4, <3>1 DEF HistoryRows, EveryAnswerHasAParent
  <2>2. /\ HasNoPair(t, t1, tail[n], tail) \/ AnswersItsParent(t, t1, tail[n], tail)
        /\ HasNoPair(r, r1, tail[n], rs) \/ AnswersItsParent(r, r1, tail[n], rs)
    BY <1>4, <2>1 DEF PairsOneRow, AsksAQuestion, AnswersTheOldest
  <2>3. IsAnAnswer(tail, n)
    BY <1>4, <2>1 DEF IsAnAnswer
  <2> QED
    BY <2>2, <2>3, SamePairsOfOneAnswer
<1> QED
  BY <1>2, <1>3, <1>4

LEMMA SamePairsAtFirst ==
  ASSUME NEW rs, RowsInOrder(rs), NEW tail, NEW d, TailOf(tail, rs, d)
  PROVE  SamePairs(tail, NothingPaired, History!Pairing(rs)[d], 0)
<1>0. d \in Nat /\ d \in 0..Len(rs) /\ Len(tail) \in Nat
  BY DEF TailOf
<1>1. PICK r : r = History!Pairing(rs)[d]
  OBVIOUS
<1>2. r \in PairStates /\ PairedSoFar(rs, r, d)
  BY <1>0, <1>1, PairedAfterEachRow
<1>3. NothingPaired.turns = <<>> /\ NothingPaired.used = {}
  BY DEF NothingPaired
<1>4. EndOf(NothingPaired.turns, r.turns)
  <2>1. r.turns \in Seq(HistoryTurns)
    BY <1>2 DEF PairStates
  <2> QED
    BY <1>3, <2>1, NothingIsAnEnd
<1>5. ASSUME NEW j \in 1..Len(tail) PROVE tail[j].id \notin r.used
  <2>1. d + j \in 1..Len(rs) /\ tail[j] = rs[d + j]
    BY TailIndices
  <2>2. SUFFICES ASSUME tail[j].id \in r.used PROVE FALSE
    OBVIOUS
  <2>3. PICK k \in 1..d : rs[k].id = tail[j].id
    BY <1>2, <2>2 DEF PairedSoFar, UsedAreRead
  <2>4. k \in 1..Len(rs) /\ k # d + j
    BY <1>0, <2>3
  <2> QED
    BY <2>1, <2>3, <2>4 DEF RowsInOrder
<1>6. SameUsed(tail, NothingPaired, r)
  BY <1>3, <1>5 DEF SameUsed
<1>7. ToldAfterAQuestion(tail, NothingPaired, 0)
  BY <1>3 DEF ToldAfterAQuestion
<1> QED
  BY <1>1, <1>4, <1>6, <1>7 DEF SamePairs

LEMMA TailIsPairedAlike ==
  ASSUME NEW rs, RowsInOrder(rs), NEW tail, NEW d, TailOf(tail, rs, d),
         EveryAnswerHasAParent(tail), NoLostQuestions(tail)
  PROVE  EndOf(History!PairCompletedHistoryTurns(tail), History!PairCompletedHistoryTurns(rs))
<1>1. rs \in Seq(HistoryRows) /\ tail \in Seq(HistoryRows) /\ d \in Nat
  BY DEF RowsInOrder, TailOf
<1>2. PICK l \in Nat : l = Len(tail) /\ Len(rs) = d + l
  BY <1>1 DEF TailOf
<1>3. PICK ts, fs : ts = History!Pairing(tail) /\ fs = History!Pairing(rs)
  OBVIOUS
<1>4. /\ ts \in [0..l -> PairStates] /\ ts[0] = NothingPaired
      /\ \A n \in 1..l : PairsOneRow(ts[n - 1], ts[n], tail[n], tail)
  BY <1>1, <1>2, <1>3, PairingIsALoop
<1>5. /\ fs \in [0..(d + l) -> PairStates]
      /\ \A n \in 1..(d + l) : PairsOneRow(fs[n - 1], fs[n], rs[n], rs)
  BY <1>1, <1>2, <1>3, PairingIsALoop
<1> DEFINE S == {n \in 0..l : SamePairs(tail, ts[n], fs[d + n], n)}
<1>6. 0 \in S
  <2>1. SamePairs(tail, ts[0], fs[d], 0)
    BY <1>3, <1>4, SamePairsAtFirst
  <2>2. d + 0 = d
    BY <1>1
  <2> QED
    BY <2>1, <2>2
<1>7. ASSUME NEW n \in 1..l, n - 1 \in S PROVE n \in S
  <2>1. n - 1 \in 0..l /\ n \in 0..l /\ d + (n - 1) \in 0..(d + l) /\ d + n \in 1..(d + l) /\ d + n - 1 = d + (n - 1)
    BY <1>1, <1>2
  <2>2. PICK t \in PairStates, r \in PairStates : t = ts[n - 1] /\ r = fs[d + (n - 1)]
    BY <1>4, <1>5, <2>1
  <2>3. PICK t1, r1 : t1 = ts[n] /\ r1 = fs[d + n]
    OBVIOUS
  <2>4. SamePairs(tail, t, r, n - 1)
    BY <1>7, <2>2
  <2>5. PairsOneRow(t, t1, tail[n], tail)
    BY <1>4, <2>2, <2>3
  <2>6. PairsOneRow(r, r1, tail[n], rs)
    <3>0. PICK m \in 1..(d + l) : m = d + n
      BY <2>1
    <3>1. PairsOneRow(fs[m - 1], fs[m], rs[m], rs)
      BY <1>5
    <3>2. tail[n] = rs[m]
      BY <1>2, <3>0 DEF TailOf
    <3>3. r = fs[m - 1] /\ r1 = fs[m]
      <4>1. m - 1 = d + (n - 1)
        BY <1>1, <3>0
      <4> QED
        BY <2>2, <2>3, <3>0, <4>1
    <3> QED
      BY <3>1, <3>2, <3>3
  <2>7. SamePairs(tail, t1, r1, n)
    BY <1>2, <2>4, <2>5, <2>6, SamePairsOfOneRow
  <2> QED
    BY <2>1, <2>3, <2>7
<1>8. \A n \in 0..l : n \in S
  <2> HIDE DEF S
  <2> QED
    BY <1>6, <1>7, NatsBelow
<1>9. SamePairs(tail, ts[l], fs[d + l], l)
  <2>1. l \in 0..l
    OBVIOUS
  <2> QED
    BY <1>8, <2>1
<1> QED
  BY <1>2, <1>3, <1>9 DEF SamePairs, History!PairCompletedHistoryTurns

LEMMA NewestRowsAreATail ==
  ASSUME NEW rs, RowsInOrder(rs), NEW n \in Nat
  PROVE  /\ TailOf(History!Newest(rs, n), rs, Len(rs) - Len(History!Newest(rs, n)))
         /\ Len(History!Newest(rs, n)) < n => History!Newest(rs, n) = rs
<1>1. rs \in Seq(HistoryRows)
  BY DEF RowsInOrder
<1>2. PICK tail : tail = History!Newest(rs, n)
  OBVIOUS
<1>3. /\ tail \in Seq(HistoryRows) /\ EndOf(tail, rs)
      /\ Len(tail) = IF n <= Len(rs) THEN n ELSE Len(rs)
  BY <1>1, <1>2, NewestIsAnEnd DEF NewestOf
<1>4. PICK l \in Nat, m \in Nat : l = Len(tail) /\ m = Len(rs)
  BY <1>1, <1>3
<1>5. l <= m /\ \A i \in 1..l : tail[i] = rs[m - l + i]
  BY <1>3, <1>4 DEF EndOf
<1>6. TailOf(tail, rs, m - l)
  <2>1. PICK e \in Nat : e = m - l /\ m = e + l
    BY <1>4, <1>5
  <2>2. \A i \in 1..l : tail[i] = rs[e + i]
    BY <1>5, <2>1
  <2>3. TailOf(tail, rs, e)
    BY <1>3, <1>4, <2>1, <2>2 DEF TailOf
  <2> QED
    BY <2>1, <2>3
<1>7. ASSUME l < n PROVE tail = rs
  <2>1. Len(tail) = Len(rs)
    BY <1>3, <1>4, <1>7
  <2>2. EndOf(rs, rs)
    BY <1>4 DEF EndOf
  <2> QED
    BY <1>1, <1>3, <2>1, <2>2, EndsOfOneLength
<1> QED
  BY <1>2, <1>4, <1>6, <1>7

LEMMA TailTellsAll == RowsInOrder(messages) => History!TailIsTheHistory
<1> SUFFICES ASSUME RowsInOrder(messages), ~History!AskedAgainFromBelowTheTail
             PROVE  History!LoadBoundedHistory(messages)
                      = History!TrimStoredHistory(History!PairCompletedHistoryTurns(messages))
  BY DEF History!TailIsTheHistory
<1>0. HistoryTailRows \in Nat
  BY HistoryIsBounded
<1>1. PICK rs : rs = messages
  OBVIOUS
<1>2. PICK tail : tail = History!Newest(rs, HistoryTailRows)
  OBVIOUS
<1>3. PICK d : d = Len(rs) - Len(tail)
  OBVIOUS
<1>4. TailOf(tail, rs, d) /\ (Len(tail) < HistoryTailRows => tail = rs)
  BY <1>0, <1>1, <1>2, <1>3, NewestRowsAreATail
<1>5. tail \in Seq(HistoryRows) /\ DOMAIN tail = 1..Len(tail) /\ rs \in Seq(HistoryRows)
  BY <1>1, <1>4 DEF TailOf, RowsInOrder
<1>6. PICK pairs, all : pairs = History!PairCompletedHistoryTurns(tail) /\ all = History!PairCompletedHistoryTurns(rs)
  OBVIOUS
<1>7. PICK bounded : bounded = History!TrimStoredHistory(pairs)
  OBVIOUS
<1>8. History!LoadBoundedHistory(rs)
        = IF Len(tail) < HistoryTailRows \/ History!BoundedTurnSaturated(bounded, tail)
          THEN bounded ELSE History!TrimStoredHistory(all)
  BY <1>2, <1>6, <1>7, Zenon DEF History!LoadBoundedHistory
<1>9. CASE Len(tail) < HistoryTailRows
  BY <1>1, <1>4, <1>6, <1>7, <1>8, <1>9
<1>10. CASE History!BoundedTurnSaturated(bounded, tail)
  <2>1. EveryAnswerHasAParent(tail)
    BY <1>5, <1>10 DEF History!BoundedTurnSaturated, History!NoParent, EveryAnswerHasAParent
  <2>2. NoLostQuestions(tail)
    BY <1>1, <1>2, <1>5 DEF History!AskedAgainFromBelowTheTail, History!NoParent, NoLostQuestions, IsAnAnswer
  <2>3. EndOf(pairs, all)
    BY <1>1, <1>4, <1>6, <2>1, <2>2, TailIsPairedAlike
  <2>4. pairs \in Seq(HistoryTurns) /\ all \in Seq(HistoryTurns)
    <3>1. \A s \in Seq(HistoryRows) : History!Pairing(s)[Len(s)] \in PairStates
      <4> SUFFICES ASSUME NEW s \in Seq(HistoryRows) PROVE History!Pairing(s)[Len(s)] \in PairStates
        OBVIOUS
      <4>1. PICK after : after = History!Pairing(s)
        OBVIOUS
      <4>2. after \in [0..Len(s) -> PairStates]
        BY <4>1, PairingIsALoop
      <4>3. Len(s) \in 0..Len(s)
        OBVIOUS
      <4> QED
        BY <4>1, <4>2, <4>3
    <3>2. \A s \in Seq(HistoryRows) : History!PairCompletedHistoryTurns(s) \in Seq(HistoryTurns)
      BY <3>1 DEF History!PairCompletedHistoryTurns, PairStates
    <3> QED
      BY <1>5, <1>6, <3>2
  <2>5. History!TrimStoredHistory(pairs) = History!TrimStoredHistory(all)
    BY <1>7, <1>10, <2>3, <2>4, SaturatedIsEnough
  <2> QED
    BY <1>1, <1>6, <1>7, <1>8, <1>10, <2>5
<1>11. CASE ~(Len(tail) < HistoryTailRows \/ History!BoundedTurnSaturated(bounded, tail))
  BY <1>1, <1>6, <1>8, <1>11
<1> QED
  BY <1>9, <1>10, <1>11

(* The model is told what a full scan of the conversation would tell it,   *)
(* and of the answers the reader sees no other, however the attempts at a  *)
(* question, the windows that ask and the rows without an end interleave   *)
(* (loadBoundedHistory, pairCompletedHistoryTurns, loadConversationForUi). *)
THEOREM HistoryIsTold == Spec => []HistoryIsWhatWasShown
<1> DEFINE Safe == part = "history" => RowsInOrder(messages)
<1>1. Init => Safe
  BY TranscriptInitSafe DEF Init
<1>2. Safe /\ [Next]_allVars => Safe'
  <2> SUFFICES ASSUME Safe, [Next]_allVars, part' = "history" PROVE RowsInOrder(messages)'
    OBVIOUS
  <2>1. part = "history"
    BY DEF Next, allVars
  <2>2. [History!TranscriptNext]_messages
    BY <2>1 DEF Next, allVars, slots
  <2> QED
    BY <2>1, <2>2, TranscriptStepSafe
<1>3. Safe => HistoryIsWhatWasShown
  BY TailTellsAll, RememberedAreShown DEF HistoryIsWhatWasShown
<1> QED
  BY <1>1, <1>2, <1>3, PTL DEF Spec
=============================================================================
