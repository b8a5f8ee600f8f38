------------------------- MODULE IndexVersionsProofs -------------------------
(***************************************************************************)
(* Which changes of an index keep it sound: the image of the source at its *)
(* own progress marker.                                                    *)
(*                                                                         *)
(* The lemmas of the first part are about any one version of the index.    *)
(* The second part states the invariant of the service and its store over  *)
(* the three versions of PebbleStoreProofs, and shows that the source, the *)
(* batcher and the first steps of Start keep it.                           *)
(***************************************************************************)
EXTENDS Indexer, PebbleStoreProofs

-----------------------------------------------------------------------------
(* Sound is DurableExact for any of the three versions, with the partitions *)
(* that Bootstrap tests for emptiness.                                     *)

Listed(dat) == \A c \in Cells : dat.post[c] # 0 => c[1] \in dat.parts

Sound(met, dat) ==
  /\ \A c \in Cells :
       c[1][2] = Generation(met, c[1][1]) => Current(c[1][1], c[2], dat.post[c], dat.progress)
  /\ Listed(dat)

\* What a scan at change n leaves of document x under template t.
ScanValue(t, x, n) ==
  IF Stored(LastChange(x, n)) THEN Projection(LastChange(x, n), t) ELSE 0

-----------------------------------------------------------------------------
(* The source.                                                             *)
LEMMA LastIsPositive == Last \in Nat /\ Last > 0
BY LogAssumption, ShapeAssumption

LEMMA MaxGenIsNatural == MaxGen \in Nat
BY ShapeAssumption

LEMMA ScanLength == Len(ScanOrder) \in Nat
BY LogAssumption

(* Every document has a last change among the first n.                     *)
IsLast(k, x, n) ==
  /\ k \in 0..n /\ (k # 0 => Log[k].doc = x)
  /\ \A j \in (k + 1)..n : Log[j].doc # x

HasLast(n) == \A x : IsLast(LastChange(x, n), x, n)

LEMMA LastChosen ==
  ASSUME NEW x, NEW n \in Nat, NEW k, IsLast(k, x, n)
  PROVE  LastChange(x, n) = k /\ IsLast(LastChange(x, n), x, n)
<1>1. IsLast(LastChange(x, n), x, n)
  BY DEF LastChange, IsLast
<1>2. \A a, b : IsLast(a, x, n) /\ IsLast(b, x, n) => ~(a < b)
  BY DEF IsLast
<1> DEFINE m == LastChange(x, n)
<1> HIDE DEF m
<1>3. m \in 0..n /\ k \in 0..n /\ ~(m < k) /\ ~(k < m)
  BY <1>1, <1>2 DEF IsLast, m
<1>4. m = k
  BY <1>3
<1>5. QED
  BY <1>1, <1>4 DEF m

(* The next change is the last of its document, and of no other.           *)
LEMMA LastChangeStep ==
  ASSUME NEW x, NEW p \in Nat, HasLast(p)
  PROVE  /\ LastChange(x, p + 1) = IF Log[p + 1].doc = x THEN p + 1 ELSE LastChange(x, p)
         /\ IsLast(LastChange(x, p + 1), x, p + 1)
<1> DEFINE a == LastChange(x, p)
<1>1. IsLast(a, x, p)
  BY DEF HasLast
<1> HIDE DEF a
<1>2. CASE Log[p + 1].doc = x
  <2>1. IsLast(p + 1, x, p + 1)
    BY <1>2 DEF IsLast
  <2>2. QED
    BY <1>2, <2>1, LastChosen
<1>3. CASE Log[p + 1].doc # x
  <2>1. IsLast(a, x, p + 1)
    BY <1>1, <1>3 DEF IsLast
  <2>2. QED
    BY <1>3, <2>1, LastChosen DEF a
<1>4. QED
  BY <1>2, <1>3

(* How the next change moves what is current.                              *)
LEMMA CurrentOther ==
  ASSUME NEW t, NEW x, NEW v, NEW p \in Nat, HasLast(p), Log[p + 1].doc # x, Current(t, x, v, p)
  PROVE  Current(t, x, v, p + 1)
<1>1. LastChange(x, p + 1) = LastChange(x, p)
  BY LastChangeStep
<1>2. QED
  BY <1>1 DEF Current

LEMMA CurrentProjected ==
  ASSUME NEW t, NEW x, NEW p \in Nat, HasLast(p), Log[p + 1].doc = x,
         Log[p + 1].op # "physical"
  PROVE  Current(t, x, Projection(p + 1, t), p + 1)
<1>1. LastChange(x, p + 1) = p + 1
  BY LastChangeStep
<1>2. QED
  BY <1>1 DEF Current

LEMMA CurrentRemoved ==
  ASSUME NEW t, NEW x, NEW v, NEW p \in Nat, HasLast(p), Log[p + 1].doc = x,
         Log[p + 1].op = "physical", Current(t, x, v, p)
  PROVE  Current(t, x, v, p + 1)
<1> DEFINE k == LastChange(x, p)
<1>1. LastChange(x, p + 1) = p + 1
  BY LastChangeStep
<1>2. k \in 0..p /\ (k # 0 => Log[k].doc = x)
  BY DEF HasLast, IsLast
<1>3. IF k = 0 THEN v = 0
      ELSE IF Log[k].op # "physical" THEN v = Projection(k, t)
      ELSE v \in {0} \cup {Projection(j, t) : j \in {j \in 1..k : Log[j].doc = x}}
  BY DEF Current
<1> HIDE DEF k
<1>4. v \in {0} \cup {Projection(j, t) : j \in {j \in 1..(p + 1) : Log[j].doc = x}}
  <2>1. CASE k = 0
    BY <1>3, <2>1
  <2>2. CASE k # 0 /\ Log[k].op # "physical"
    BY <1>2, <1>3, <2>2
  <2>3. CASE k # 0 /\ Log[k].op = "physical"
    BY <1>2, <1>3, <2>3
  <2>4. QED
    BY <2>1, <2>2, <2>3
<1>5. QED
  BY <1>1, <1>4 DEF Current


-----------------------------------------------------------------------------
(* Which changes keep a version sound.                                     *)
LEMMA GenerationFailed ==
  ASSUME NEW met \in Meta, NEW r \in Refs, Recorded(met, r), NEW t \in Templates
  PROVE  Generation(Failed(met, r), t) \in {0, Generation(met, t)}
<1> DEFINE new == Failed(met, r)
<1>1. /\ new.catalogs = met.catalogs /\ new.retired = met.retired
      /\ new.failed = {q \in met.failed : q[1] # r[1]} \cup {r}
  BY DEF Failed, Meta
<1>2. met.catalogs[TemplateDb[r[1]]] \in {0, r[2]}
  BY DEF Recorded
<1>3. r = <<r[1], r[2]>>
  BY DEF Refs
<1> HIDE DEF new
<1> DEFINE g == met.catalogs[TemplateDb[t]]
<1>4. CASE t = r[1]
  <2>1. g = 0 \/ g = r[2]
    BY <1>2, <1>4
  <2>2. CASE g = 0
    BY <1>1, <2>2 DEF Generation, new
  <2>3. CASE g = r[2]
    <3>1. <<t, g>> \in new.failed
      BY <1>1, <1>3, <1>4, <2>3
    <3>2. QED
      BY <1>1, <3>1 DEF Generation, new
  <2>4. QED
    BY <2>1, <2>2, <2>3
<1>5. CASE t # r[1]
  <2>1. <<t, g>> \in new.failed <=> <<t, g>> \in met.failed
    <3>1. <<t, g>> # r
      BY <1>3, <1>5
    <3>2. QED
      BY <1>1, <1>5, <3>1
  <2>2. QED
    BY <1>1, <2>1 DEF Generation, new
<1>6. QED
  BY <1>4, <1>5

LEMMA SoundMarked ==
  ASSUME NEW met \in Meta, NEW dat \in Data, NEW r \in Refs, Recorded(met, r), Sound(met, dat)
  PROVE  Sound(Failed(met, r), Marked(dat, r))
<1>1. \A c \in Cells : c[1][2] # 0 /\ Generation(Failed(met, r), c[1][1]) \in {0, Generation(met, c[1][1])}
  <2>1. \A c \in Cells : c[1][1] \in Templates /\ c[1][2] \in 1..MaxGen
    BY CellShape
  <2>2. \A c \in Cells : c[1][2] # 0
    BY <2>1
  <2>3. QED
    BY <2>1, <2>2, GenerationFailed
<1>2. /\ Marked(dat, r).post = dat.post /\ Marked(dat, r).progress = dat.progress
      /\ dat.parts \subseteq Marked(dat, r).parts
  BY MarkedFields
<1>3. QED
  BY <1>1, <1>2 DEF Sound, Listed

LEMMA GenerationRetired ==
  ASSUME NEW met \in Meta, NEW d \in Databases, NEW t \in Templates
  PROVE  Generation(Retired(met, d), t) = IF TemplateDb[t] = d THEN 0 ELSE Generation(met, t)
<1> DEFINE new == Retired(met, d)
<1>1. /\ new.catalogs = [met.catalogs EXCEPT ![d] = 0] /\ new.retired = met.retired \cup {d}
      /\ new.failed = met.failed \ RefsOf(d)
  BY DEF Retired, Meta
<1>2. TemplateDb[t] \in Databases /\ DOMAIN met.catalogs = Databases
  BY ShapeAssumption DEF Meta
<1> HIDE DEF new
<1>3. CASE TemplateDb[t] = d
  BY <1>1, <1>3 DEF Generation, new
<1>4. CASE TemplateDb[t] # d
  <2>1. new.catalogs[TemplateDb[t]] = met.catalogs[TemplateDb[t]]
    BY <1>1, <1>2, <1>4
  <2>2. \A g : <<t, g>> \in new.failed <=> <<t, g>> \in met.failed
    BY <1>1, <1>4 DEF RefsOf, TemplatesOf
  <2>3. TemplateDb[t] \in new.retired <=> TemplateDb[t] \in met.retired
    BY <1>1, <1>4
  <2>4. QED
    BY <1>4, <2>1, <2>2, <2>3 DEF Generation, new
<1>5. QED
  BY <1>3, <1>4

LEMMA SoundPurged ==
  ASSUME NEW met \in Meta, NEW dat \in Data, NEW d \in Databases, Sound(met, dat)
  PROVE  Sound(Retired(met, d), Purged(dat, d))
<1> DEFINE new == Purged(dat, d)
<1>1. /\ new.post = [c \in Cells |-> IF DocDb[c[2]] = d THEN 0 ELSE dat.post[c]]
      /\ new.progress = dat.progress /\ new.parts = dat.parts \ RefsOf(d)
  BY PurgedFields
<1> HIDE DEF new
<1>2. ASSUME NEW c \in Cells, c[1][2] = Generation(Retired(met, d), c[1][1])
      PROVE  Current(c[1][1], c[2], new.post[c], new.progress)
  <2>1. c[1][1] \in Templates /\ c[1][2] # 0 /\ TemplateDb[c[1][1]] = DocDb[c[2]]
    <3>1. c[1][1] \in Templates /\ c[1][2] \in 1..MaxGen /\ TemplateDb[c[1][1]] = DocDb[c[2]]
      BY CellShape
    <3>2. c[1][2] # 0
      BY <3>1, MaxGenIsNatural
    <3>3. QED
      BY <3>1, <3>2
  <2>2. DocDb[c[2]] # d /\ c[1][2] = Generation(met, c[1][1])
    BY <1>2, <2>1, GenerationRetired
  <2>3. new.post[c] = dat.post[c]
    BY <1>1, <2>2
  <2>4. QED
    BY <1>1, <2>2, <2>3 DEF Sound
<1>3. Listed(new)
  <2>1. \A c \in Cells : c[1] \in RefsOf(d) <=> DocDb[c[2]] = d
    BY RefsOfCell
  <2>2. QED
    BY <1>1, <2>1 DEF Sound, Listed
<1>4. QED
  BY <1>2, <1>3 DEF Sound, new

LEMMA SoundUnpublished ==
  ASSUME NEW met \in Meta, \A d \in Databases : met.catalogs[d] = 0, NEW dat, Listed(dat)
  PROVE  Sound(met, dat)
<1>1. \A c \in Cells : c[1][2] # 0 /\ TemplateDb[c[1][1]] \in Databases
  <2>1. \A c \in Cells : c[1][1] \in Templates /\ c[1][2] \in 1..MaxGen
    BY CellShape
  <2>2. QED
    BY <2>1, ShapeAssumption
<1>2. \A c \in Cells : Generation(met, c[1][1]) = 0
  BY <1>1 DEF Generation
<1>3. QED
  BY <1>1, <1>2 DEF Sound

(* An empty store is sound.                                                *)
LEMMA EmptySound ==
  Sound(EmptyMeta, EmptyData) /\ EmptyData.progress <= EmptyData.progress
<1>1. EmptyMeta \in Meta /\ Listed(EmptyData) /\ EmptyData.progress = 0
      /\ \A d \in Databases : EmptyMeta.catalogs[d] = 0
  BY EmptyTyped DEF EmptyData, EmptyMeta, Listed
<1>2. Sound(EmptyMeta, EmptyData)
  BY <1>1, SoundUnpublished
<1>3. 0 <= 0
  OBVIOUS
<1>4. QED
  BY <1>1, <1>2, <1>3

(* Replacements keep the list of partitions complete.                      *)
LEMMA ListedReplaced ==
  ASSUME NEW dat \in Data, NEW ops \in Batches, NEW p \in 0..Last, Listed(dat)
  PROVE  Listed(Replaced(dat, ops, p))
<1> DEFINE new == Replaced(dat, ops, p)
<1>1. /\ new.parts = dat.parts \cup {c[1] : c \in DOMAIN ops}
      /\ new.post = [c \in Cells |-> IF c \in DOMAIN ops THEN ops[c] ELSE dat.post[c]]
  BY ReplacedFields
<1> HIDE DEF new
<1>2. QED
  BY <1>1 DEF Listed, new

LEMMA ProjectionsShape ==
  ASSUME NEW i \in 1..Last, NEW g \in 1..MaxGen
  PROVE  /\ Projections(i, g) \in Batches
         /\ \A c \in DOMAIN Projections(i, g) : c[2] = Log[i].doc
         /\ \A c \in Cells : c \in DOMAIN Projections(i, g) <=> c[1][2] = g /\ c[2] = Log[i].doc
         /\ \A c \in DOMAIN Projections(i, g) : Projections(i, g)[c] = Projection(i, c[1][1])
<1> DEFINE x == Log[i].doc
           D == {<<t, g>> : t \in TemplatesFor(x)} \X {x}
           f == Projections(i, g)
<1>1. x \in Docs
  BY LogAssumption
<1>2. f = [c \in D |-> Projection(i, c[1][1])]
  BY DEF Projections
<1>3. \A c \in D : c[1] \in Refs /\ c[2] = x /\ TemplateDb[c[1][1]] = DocDb[x] /\ c \in Refs \X Docs
  BY <1>1 DEF TemplatesFor, TemplatesOf, Refs
<1>4. D \subseteq Cells
  BY <1>3 DEF Cells
<1>5. \A t : Projection(i, t) \in Values
  BY LastIsPositive DEF Projection, Values
<1>6. \A c \in Cells : c \in D <=> c[1][2] = g /\ c[2] = x
  <2>1. ASSUME NEW c \in Cells, c[1][2] = g, c[2] = x
        PROVE  c \in D
    <3>1. c = <<c[1], c[2]>> /\ c[1] = <<c[1][1], c[1][2]>>
      BY DEF Cells, Refs
    <3>2. c[1][1] \in TemplatesFor(x)
      BY <2>1, CellShape DEF TemplatesFor, TemplatesOf
    <3>3. c[1] \in {<<t, g>> : t \in TemplatesFor(x)}
      BY <2>1, <3>1, <3>2
    <3>4. QED
      BY <2>1, <3>1, <3>3
  <2>2. \A c \in D : c[1][2] = g /\ c[2] = x
    OBVIOUS
  <2>3. QED
    BY <2>1, <2>2
<1>7. f \in Batches
  <2>1. f \in [D -> Values]
    BY <1>2, <1>5
  <2>2. QED
    BY <1>4, <2>1 DEF Batches
<1> HIDE DEF D, f
<1>8. DOMAIN f = D /\ \A c \in D : f[c] = Projection(i, c[1][1])
  BY <1>2
<1>9. QED
  BY <1>3, <1>6, <1>7, <1>8 DEF f

(* A change whose document needs no projection.                            *)
LEMMA SoundProgress ==
  ASSUME NEW met \in Meta, NEW dat \in Data, Sound(met, dat), dat.progress + 1 <= Last,
         HasLast(dat.progress),
         \/ Log[dat.progress + 1].op = "physical"
         \/ DocDb[Log[dat.progress + 1].doc] \in met.retired
  PROVE  Sound(met, Replaced(dat, Nothing, dat.progress + 1))
<1> DEFINE p == dat.progress
           q == p + 1
           new == Replaced(dat, Nothing, q)
<1>1. p \in Nat /\ p + 1 \in 0..Last /\ p + 1 # 0
  <2>1. p \in 0..Last
    BY DEF Data
  <2>2. QED
    BY <2>1, LastIsPositive
<1>2. Nothing \in Batches /\ DOMAIN Nothing = {}
  BY NothingShape
<1>3. Listed(new)
  BY <1>1, <1>2, ListedReplaced DEF Sound
<1> HIDE DEF q
<1>4. /\ new.progress = (IF q # 0 THEN q ELSE dat.progress)
      /\ new.post = [c \in Cells |-> IF c \in DOMAIN Nothing THEN Nothing[c] ELSE dat.post[c]]
  BY ReplacedFields
<1> HIDE DEF new
<1>5. new.progress = p + 1 /\ \A c \in Cells : new.post[c] = dat.post[c]
  BY <1>1, <1>2, <1>4 DEF q
<1>6. ASSUME NEW c \in Cells, c[1][2] = Generation(met, c[1][1])
      PROVE  Current(c[1][1], c[2], new.post[c], p + 1)
  <2>1. Current(c[1][1], c[2], new.post[c], p)
    BY <1>5, <1>6 DEF Sound
  <2>2. CASE Log[p + 1].doc # c[2]
    BY <1>1, <2>1, <2>2, CurrentOther
  <2>3. CASE Log[p + 1].doc = c[2] /\ Log[p + 1].op = "physical"
    BY <1>1, <2>1, <2>3, CurrentRemoved
  <2>4. CASE Log[p + 1].doc = c[2] /\ Log[p + 1].op # "physical"
    <3>1. TemplateDb[c[1][1]] \in met.retired
      BY <2>4, CellShape
    <3>2. c[1][2] = 0
      BY <1>6, <3>1 DEF Generation
    <3>3. c[1][2] \in 1..MaxGen
      BY CellShape
    <3>4. QED
      BY <3>2, <3>3
  <2>5. QED
    BY <2>2, <2>3, <2>4
<1> HIDE DEF p
<1>7. QED
  BY <1>5, <1>3, <1>6 DEF Sound, new, q, p

(* A change projected into the generation that serves.                     *)
LEMMA SoundEvent ==
  ASSUME NEW met \in Meta, NEW dat \in Data, Sound(met, dat), dat.progress + 1 <= Last,
         HasLast(dat.progress),
         Log[dat.progress + 1].op # "physical",
         NEW g \in 1..MaxGen,
         \A t \in TemplatesFor(Log[dat.progress + 1].doc) : Generation(met, t) = g
  PROVE  Sound(met, Replaced(dat, Projections(dat.progress + 1, g), dat.progress + 1))
<1> DEFINE p == dat.progress
           ops == Projections(p + 1, g)
           q == p + 1
           new == Replaced(dat, ops, q)
<1>1. p \in Nat /\ p + 1 \in 0..Last /\ p + 1 # 0 /\ p + 1 \in 1..Last
  <2>1. p \in 0..Last
    BY DEF Data
  <2>2. QED
    BY <2>1, LastIsPositive
<1>2. /\ ops \in Batches
      /\ \A c \in Cells : c \in DOMAIN ops <=> c[1][2] = g /\ c[2] = Log[p + 1].doc
      /\ \A c \in DOMAIN ops : ops[c] = Projection(p + 1, c[1][1])
  BY <1>1, ProjectionsShape
<1> HIDE DEF ops
<1>3. Listed(new)
  BY <1>1, <1>2, ListedReplaced DEF Sound
<1> HIDE DEF q
<1>4. /\ new.progress = (IF q # 0 THEN q ELSE dat.progress)
      /\ new.post = [c \in Cells |-> IF c \in DOMAIN ops THEN ops[c] ELSE dat.post[c]]
  BY ReplacedFields
<1> HIDE DEF new
<1>5. /\ new.progress = p + 1
      /\ \A c \in Cells : new.post[c] = IF c \in DOMAIN ops THEN ops[c] ELSE dat.post[c]
  BY <1>1, <1>4 DEF q
<1>6. ASSUME NEW c \in Cells, c[1][2] = Generation(met, c[1][1])
      PROVE  Current(c[1][1], c[2], new.post[c], p + 1)
  <2>1. CASE Log[p + 1].doc # c[2]
    <3>1. new.post[c] = dat.post[c]
      BY <1>2, <1>5, <2>1
    <3>2. Current(c[1][1], c[2], new.post[c], p)
      BY <1>6, <3>1 DEF Sound
    <3>3. QED
      BY <1>1, <2>1, <3>2, CurrentOther
  <2>2. CASE Log[p + 1].doc = c[2]
    <3>1. c[1][1] \in TemplatesFor(Log[p + 1].doc)
      BY <2>2, CellShape DEF TemplatesFor, TemplatesOf
    <3>2. c \in DOMAIN ops
      BY <1>2, <1>6, <2>2, <3>1
    <3>3. new.post[c] = Projection(p + 1, c[1][1])
      BY <1>2, <1>5, <3>2
    <3>4. QED
      BY <1>1, <2>2, <3>3, CurrentProjected
  <2>3. QED
    BY <2>1, <2>2
<1> HIDE DEF p
<1>7. QED
  BY <1>5, <1>3, <1>6 DEF Sound, new, ops, q, p

(* A complete scan, published at the change it was taken at.               *)
LEMMA SoundPublished ==
  ASSUME NEW met \in Meta, NEW dat \in Data, Listed(dat), NEW g \in 1..MaxGen, NEW b \in 1..Last,
         \A c \in Cells : c[1][2] = g => dat.post[c] = ScanValue(c[1][1], c[2], b)
  PROVE  Sound(Published(met, Databases, g, b), At(dat, b))
<1> DEFINE new == At(dat, b)
           pub == Published(met, Databases, g, b)
<1>1. new.post = dat.post /\ new.progress = b /\ new.parts = dat.parts
  BY DEF At, Data
<1>2. \A d \in Databases : pub.catalogs[d] = g
  BY DEF Published, Meta
<1> HIDE DEF new, pub
<1>3. ASSUME NEW c \in Cells, c[1][2] = Generation(pub, c[1][1])
      PROVE  Current(c[1][1], c[2], dat.post[c], b)
  <2>1. c[1][1] \in Templates /\ c[1][2] # 0 /\ TemplateDb[c[1][1]] \in Databases
    <3>1. c[1][1] \in Templates /\ c[1][2] \in 1..MaxGen
      BY CellShape
    <3>2. c[1][2] # 0
      BY <3>1, MaxGenIsNatural
    <3>3. QED
      BY <3>1, <3>2, ShapeAssumption
  <2>2. c[1][2] = g
    BY <1>2, <1>3, <2>1 DEF Generation
  <2> DEFINE k == LastChange(c[2], b)
  <2>3. dat.post[c] = IF Stored(k) THEN Projection(k, c[1][1]) ELSE 0
    BY <2>2 DEF ScanValue
  <2> HIDE DEF k
  <2>4. CASE k = 0
    BY <2>3, <2>4 DEF Stored, Current, k
  <2>5. CASE k # 0 /\ Log[k].op # "physical"
    BY <2>3, <2>5 DEF Stored, Current, k
  <2>6. CASE k # 0 /\ Log[k].op = "physical"
    <3>1. dat.post[c] = 0
      BY <2>3, <2>6 DEF Stored
    <3>2. QED
      BY <2>6, <3>1 DEF Current, k
  <2>7. QED
    BY <2>4, <2>5, <2>6
<1>4. QED
  BY <1>1, <1>3 DEF Sound, Listed, new, pub

-----------------------------------------------------------------------------
(* The inductive invariant: the three versions are sound, and where the    *)
(* service stands with respect to them.                                    *)

VersionsSound ==
  /\ Sound(meta, disk) /\ Sound(meta, Flushed) /\ Sound(meta, View)
  /\ disk.progress <= Flushed.progress /\ Flushed.progress <= View.progress

Bootstrapping == op \in {"scan", "flush", "publish"}

ScanSound ==
  Bootstrapping =>
    /\ gen \in 1..MaxGen /\ mark = head
    /\ \A d \in Databases : meta.catalogs[d] = 0
    /\ \A c \in Cells : c[1][2] = gen =>
         View.post[c] = IF \E n \in 1..scanned : ScanOrder[n] = c[2]
                        THEN ScanValue(c[1][1], c[2], head) ELSE 0
    /\ op # "scan" => scanned = Len(ScanOrder)

ServiceTyped ==
  /\ head \in 1..Last /\ gen \in 0..MaxGen /\ scanned \in 0..Len(ScanOrder)
  /\ pos \in 0..Last /\ fence \in 0..Last /\ failing \subseteq Refs

ServiceOrder ==
  /\ loop # "off" => progress = View.progress /\ (running \/ closed)
  /\ op # "off" => loop = "off"
  /\ op = "start" => mark = View.progress
  /\ loop \in {"recv", "barrier"} => pos = progress
  /\ loop = "barrier" => pos >= fence
  /\ ready => loop \in {"recv", "barrier", "fail"} /\ disk.progress >= fence
  /\ storeState # "open" => op = "off" /\ loop = "off"

IInv == StoreInv /\ VersionsSound /\ ScanSound /\ ServiceTyped /\ ServiceOrder

-----------------------------------------------------------------------------
(* The source grows by one change at a time, from its first.               *)
Known == head \in 1..Last /\ \A n \in 0..head : HasLast(n)

LEMMA AlwaysKnown == Spec => []Known
<1>1. Init => Known
  <2> SUFFICES ASSUME Init PROVE Known
    OBVIOUS
  <2>1. head = 1
    BY DEF Init
  <2>2. HasLast(0)
    <3>1. \A x : IsLast(0, x, 0)
      BY DEF IsLast
    <3>2. QED
      BY <3>1, LastChosen DEF HasLast
  <2>3. HasLast(1)
    <3>1. \A x : IsLast(LastChange(x, 0 + 1), x, 0 + 1)
      BY <2>2, LastChangeStep
    <3>2. QED
      BY <3>1 DEF HasLast
  <2>4. QED
    BY <2>1, <2>2, <2>3, LastIsPositive DEF Known
<1>2. Known /\ [Next]_vars => Known'
  <2> SUFFICES ASSUME Known, [Next]_vars PROVE Known'
    OBVIOUS
  <2>1. head' = head \/ (head < Last /\ head' = head + 1)
    <3>1. CASE UNCHANGED vars \/ BatcherStep \/ SourceChange
      BY <3>1 DEF vars, BatcherStep, SourceChange
    <3>2. CASE Operation
      BY <3>2 DEF Operation, Bootstrap, BootstrapDocument, BootstrapFails, BootstrapScanned,
         BootstrapFlushed, BootstrapPublish, BootstrapPublishFails, OpEnds,
         StartWithValidationContext, StartFails, StartCompletes
    <3>3. CASE SubscriptionLoop
      BY <3>3 DEF SubscriptionLoop, LoopEnds, LoopCancelled, Attach, Committed, ApplyProgressOnly,
         ApplyEvent, ApplyUnprojectable, ApplyRefused, FailEvent, FailedEvent, ReadyEvent,
         BarrierFlushed, FlushFails, StreamBreaks, StreamFails, ReconnectFlushed, Retry,
         RetryFails
    <3>4. CASE \/ \E d \in Databases : InvalidateDatabase(d)
               \/ Stop \/ StopCloses \/ Boot \/ ProcessEnds \/ ResetDerived
      BY <3>4 DEF InvalidateDatabase, Stop, StopCloses, Boot, ProcessEnds, ResetDerived
    <3>5. QED
      BY <3>1, <3>2, <3>3, <3>4 DEF Next
  <2>2. HasLast(head + 1)
    <3>1. head \in Nat /\ HasLast(head)
      BY LastIsPositive DEF Known
    <3>2. QED
      BY <3>1, LastChangeStep DEF HasLast
  <2>3. \A n \in 0..(head + 1) : HasLast(n)
    BY <2>2, LastIsPositive DEF Known
  <2>4. QED
    BY <2>1, <2>3, LastIsPositive DEF Known, HasLast, IsLast, LastChange
<1>3. QED
  BY <1>1, <1>2, PTL DEF Spec

-----------------------------------------------------------------------------
(* Steps that leave the store alone, and steps that leave the service      *)
(* alone.                                                                  *)
LEMMA SameVersions ==
  ASSUME VersionsSound, disk' = disk, Flushed' = Flushed, View' = View, meta' = meta
  PROVE  VersionsSound'
BY DEF VersionsSound

LEMMA SameStore ==
  ASSUME IInv, UNCHANGED pebbleVars
  PROVE  /\ StoreInv' /\ AbstractStep /\ VersionsSound'
         /\ disk' = disk /\ View' = View /\ meta' = meta /\ storeState' = storeState
<1>1. /\ UNCHANGED <<disk, meta, queueVars, flushPc>> /\ flushErr' = flushErr
      /\ storeState' = storeState
  BY DEF pebbleVars
<1>2. StoreInv
  BY DEF IInv
<1>3. /\ StoreInv' /\ AbstractStep
      /\ disk' = disk /\ Flushed' = Flushed /\ View' = View /\ meta' = meta
  BY <1>1, <1>2, StoreAsideStep
<1>4. QED
  BY <1>1, <1>3, SameVersions DEF IInv

LEMMA SameService ==
  ASSUME IInv, UNCHANGED <<head, opVars, flagVars, loopVars>>,
         View' = View, meta' = meta, disk.progress <= disk'.progress, disk \in Data, disk' \in Data,
         storeState' # "open" => op = "off" /\ loop = "off"
  PROVE  ScanSound' /\ ServiceTyped' /\ ServiceOrder'
<1>1. /\ head' = head /\ op' = op /\ mark' = mark /\ scanned' = scanned /\ gen' = gen
      /\ running' = running /\ closed' = closed /\ ready' = ready
      /\ progress' = progress /\ loop' = loop /\ failing' = failing
      /\ pos' = pos /\ fence' = fence
  BY DEF opVars, flagVars, loopVars
<1>2. ScanSound'
  BY <1>1 DEF IInv, ScanSound, Bootstrapping
<1>3. ServiceTyped'
  BY <1>1 DEF IInv, ServiceTyped
<1>4. ready => disk'.progress >= fence
  BY LastIsPositive DEF IInv, ServiceOrder, ServiceTyped, Data
<1>5. ServiceOrder'
  BY <1>1, <1>4 DEF IInv, ServiceOrder
<1>6. QED
  BY <1>2, <1>3, <1>5

LEMMA ProgressTyped ==
  ASSUME IInv
  PROVE  /\ disk \in Data /\ Flushed \in Data /\ View \in Data /\ meta \in Meta
         /\ disk.progress \in Nat /\ Flushed.progress \in Nat /\ View.progress \in Nat
         /\ View.progress \in 0..Last
<1>1. disk \in Data /\ Flushed \in Data /\ View \in Data /\ meta \in Meta
  BY VersionsTyped DEF IInv, StoreInv, StoreTyped
<1>2. QED
  BY <1>1, LastIsPositive DEF Data

LEMMA BatcherKeeps ==
  ASSUME IInv, BatcherStep
  PROVE  IInv' /\ AbstractStep
<1>1. StoreInv /\ VersionsSound
  BY DEF IInv
<1>2. UNCHANGED <<head, opVars, flagVars, loopVars>>
  BY DEF BatcherStep
<1>3. /\ disk \in Data /\ Flushed \in Data
      /\ disk.progress \in Nat /\ Flushed.progress \in Nat /\ View.progress \in Nat
  BY ProgressTyped
<1>4. ASSUME disk' \in {disk, Flushed}, View' = View, meta' = meta, storeState' # "open" => storeState # "open"
      PROVE  ScanSound' /\ ServiceTyped' /\ ServiceOrder'
  <2>1. disk.progress <= disk'.progress /\ disk' \in Data
    BY <1>1, <1>3, <1>4 DEF VersionsSound
  <2>2. storeState' # "open" => op = "off" /\ loop = "off"
    BY <1>4 DEF IInv, ServiceOrder
  <2>3. QED
    BY <1>2, <1>3, <1>4, <2>1, <2>2, SameService
<1>5. CASE FlushTake
  <2>1. /\ StoreInv' /\ AbstractStep
        /\ disk' = disk /\ Flushed' = View /\ View' = View /\ meta' = meta
    BY <1>1, <1>5, FlushTakeStep
  <2>2. VersionsSound'
    BY <1>1, <1>3, <2>1 DEF VersionsSound
  <2>3. storeState' = storeState
    BY <1>5 DEF FlushTake
  <2>4. QED
    BY <1>4, <2>1, <2>2, <2>3 DEF IInv
<1>6. CASE FlushCommit
  <2>1. /\ StoreInv' /\ AbstractStep
        /\ disk' = Flushed /\ Flushed' = Flushed /\ View' = View /\ meta' = meta
    BY <1>1, <1>6, FlushCommitStep
  <2>2. VersionsSound'
    BY <1>1, <1>3, <2>1 DEF VersionsSound
  <2>3. storeState' = storeState
    BY <1>6 DEF FlushCommit
  <2>4. QED
    BY <1>4, <2>1, <2>2, <2>3 DEF IInv
<1>7. CASE FlushFail
  <2>1. /\ StoreInv' /\ AbstractStep
        /\ disk' \in {disk, Flushed} /\ Flushed' = Flushed /\ View' = View /\ meta' = meta
    BY <1>1, <1>7, FlushFailStep
  <2>2. VersionsSound'
    BY <1>1, <1>3, <2>1 DEF VersionsSound
  <2>3. storeState' = storeState
    BY <1>7 DEF FlushFail
  <2>4. QED
    BY <1>4, <2>1, <2>2, <2>3 DEF IInv
<1>8. CASE FlushClear
  <2>1. /\ StoreInv' /\ AbstractStep
        /\ disk' = disk /\ Flushed' = disk /\ View' = View /\ meta' = meta
    BY <1>1, <1>8, FlushClearStep
  <2>2. VersionsSound'
    BY <1>1, <1>3, <2>1 DEF VersionsSound
  <2>3. storeState' = storeState
    BY <1>8 DEF FlushClear
  <2>4. QED
    BY <1>4, <2>1, <2>2, <2>3 DEF IInv
<1>9. CASE CloseDB
  <2>1. /\ UNCHANGED <<disk, meta, queueVars, flushPc>> /\ flushErr' = flushErr
        /\ storeState = "closing" /\ storeState' = "closed"
    BY <1>9 DEF CloseDB
  <2>2. /\ StoreInv' /\ AbstractStep
        /\ disk' = disk /\ Flushed' = Flushed /\ View' = View /\ meta' = meta
    BY <1>1, <2>1, StoreAsideStep
  <2>3. VersionsSound'
    BY <1>1, <2>2, SameVersions
  <2>4. QED
    BY <1>4, <2>1, <2>2, <2>3 DEF IInv
<1>10. QED
  BY <1>5, <1>6, <1>7, <1>8, <1>9 DEF BatcherStep, Batcher

-----------------------------------------------------------------------------
(* Bootstrap and Start.                                                    *)
LEMMA BootstrapKeeps ==
  ASSUME IInv, Bootstrap
  PROVE  IInv' /\ AbstractStep
<1>1. /\ StoreInv' /\ AbstractStep /\ VersionsSound'
      /\ disk' = disk /\ View' = View /\ meta' = meta /\ storeState' = storeState
  BY SameStore DEF Bootstrap
<1>2. /\ storeState = "open" /\ op = "off" /\ ~running /\ ~closed
      /\ op' = "scan" /\ mark' = head /\ scanned' = 0 /\ gen' = gen + 1 /\ gen < MaxGen
      /\ ~ready' /\ head' = head /\ running' = running /\ closed' = closed
      /\ progress' = progress /\ loop' = loop /\ failing' = failing
      /\ pos' = pos /\ fence' = fence
      /\ \A d \in Databases : meta.catalogs[d] = 0
      /\ View.parts = {}
  BY DEF Bootstrap, Idle, loopVars
<1>3. loop = "off"
  BY <1>2 DEF IInv, ServiceOrder
<1>4. ServiceTyped' /\ gen' \in 1..MaxGen
  <2>1. gen' \in 1..MaxGen /\ gen' \in 0..MaxGen
    BY <1>2, ShapeAssumption DEF IInv, ServiceTyped
  <2>2. scanned' \in 0..Len(ScanOrder)
    BY <1>2 DEF IInv, ServiceTyped
  <2>3. QED
    BY <1>2, <2>1, <2>2 DEF IInv, ServiceTyped
<1>5. ServiceOrder'
  BY <1>1, <1>2, <1>3 DEF IInv, ServiceOrder
<1>6. ScanSound'
  <2>1. \A c \in Cells : View.post[c] = 0
    BY <1>2 DEF IInv, VersionsSound, Sound, Listed
  <2>2. ~ \E n \in 1..scanned' : TRUE
    BY <1>2
  <2>3. QED
    BY <1>1, <1>2, <1>4, <2>1, <2>2 DEF ScanSound
<1>7. QED
  BY <1>1, <1>4, <1>5, <1>6 DEF IInv

(* Steps of a bootstrap or a start that do not touch the store.            *)
LEMMA OpEndsKeeps ==
  ASSUME IInv, UNCHANGED pebbleVars, OpEnds
  PROVE  IInv' /\ AbstractStep
<1>1. /\ StoreInv' /\ AbstractStep /\ VersionsSound'
      /\ disk' = disk /\ View' = View /\ meta' = meta /\ storeState' = storeState
  BY SameStore
<1>2. /\ op' = "off" /\ scanned' = 0 /\ gen' = gen /\ head' = head
      /\ running' = running /\ closed' = closed /\ ready' = ready
      /\ progress' = progress /\ loop' = loop /\ failing' = failing
      /\ pos' = pos /\ fence' = fence
  BY DEF OpEnds, flagVars, loopVars
<1>3. ServiceTyped'
  <2>1. scanned' \in 0..Len(ScanOrder)
    BY <1>2 DEF IInv, ServiceTyped
  <2>2. QED
    BY <1>2, <2>1 DEF IInv, ServiceTyped
<1>4. ServiceOrder' /\ ScanSound'
  BY <1>1, <1>2 DEF IInv, ServiceOrder, ScanSound, Bootstrapping
<1>5. QED
  BY <1>1, <1>3, <1>4 DEF IInv

LEMMA ScanKeeps ==
  ASSUME IInv, BootstrapScanned \/ BootstrapFlushed
  PROVE  IInv' /\ AbstractStep
<1>1. /\ UNCHANGED pebbleVars
      /\ op \in {"scan", "flush"} /\ op' \in {"flush", "publish"}
      /\ op' = "flush" => scanned = Len(ScanOrder)
      /\ op' = "publish" => op = "flush"
      /\ mark' = mark /\ scanned' = scanned /\ gen' = gen /\ head' = head
      /\ running' = running /\ closed' = closed /\ ready' = ready
      /\ progress' = progress /\ loop' = loop /\ failing' = failing
      /\ pos' = pos /\ fence' = fence
  BY DEF BootstrapScanned, BootstrapFlushed, flagVars, loopVars
<1>2. /\ StoreInv' /\ AbstractStep /\ VersionsSound'
      /\ disk' = disk /\ View' = View /\ meta' = meta /\ storeState' = storeState
  BY <1>1, SameStore
<1>3. ServiceTyped'
  BY <1>1 DEF IInv, ServiceTyped
<1>4. ServiceOrder'
  BY <1>1, <1>2 DEF IInv, ServiceOrder
<1>5. ScanSound'
  <2>1. Bootstrapping /\ scanned = Len(ScanOrder)
    BY <1>1 DEF Bootstrapping, IInv, ScanSound
  <2>2. QED
    BY <1>1, <1>2, <2>1 DEF IInv, ScanSound
<1>6. QED
  BY <1>2, <1>3, <1>4, <1>5 DEF IInv

LEMMA StartKeeps ==
  ASSUME IInv, StartWithValidationContext \/ StartCompletes
  PROVE  IInv' /\ AbstractStep
<1>1. UNCHANGED pebbleVars
  BY DEF StartWithValidationContext, StartCompletes
<1>2. /\ StoreInv' /\ AbstractStep /\ VersionsSound'
      /\ disk' = disk /\ View' = View /\ meta' = meta /\ storeState' = storeState
  BY <1>1, SameStore
<1>3. CASE StartWithValidationContext
  <2>1. /\ storeState = "open" /\ op = "off" /\ ~running /\ ~closed
        /\ op' = "start" /\ mark' = View.progress /\ scanned' = scanned /\ gen' = gen
        /\ head' = head /\ running' = running /\ closed' = closed /\ ready' = ready
        /\ progress' = progress /\ loop' = loop /\ failing' = failing
        /\ pos' = pos /\ fence' = fence
    BY <1>3 DEF StartWithValidationContext, Idle, LoadProgress, flagVars, loopVars
  <2>2. loop = "off"
    BY <2>1 DEF IInv, ServiceOrder
  <2>3. ServiceTyped' /\ ScanSound'
    BY <2>1 DEF IInv, ServiceTyped, ScanSound, Bootstrapping
  <2>4. ServiceOrder'
    BY <1>2, <2>1, <2>2 DEF IInv, ServiceOrder
  <2>5. QED
    BY <1>2, <2>3, <2>4 DEF IInv
<1>4. CASE StartCompletes
  <2>1. /\ op = "start" /\ progress' = mark /\ running' /\ ~ready' /\ loop' = "attach"
        /\ op' = "off" /\ scanned' = scanned /\ gen' = gen /\ head' = head
        /\ failing' = failing /\ pos' = pos /\ fence' = fence
    BY <1>4 DEF StartCompletes
  <2>2. mark = View.progress /\ storeState = "open"
    BY <2>1 DEF IInv, ServiceOrder
  <2>3. ServiceTyped' /\ ScanSound'
    BY <2>1 DEF IInv, ServiceTyped, ScanSound, Bootstrapping
  <2>4. ServiceOrder'
    BY <1>2, <2>1, <2>2 DEF ServiceOrder
  <2>5. QED
    BY <1>2, <2>3, <2>4 DEF IInv
<1>5. QED
  BY <1>3, <1>4
=============================================================================
