------------------------ MODULE ActiveObjectsProofs ------------------------
(***************************************************************************)
(* Proofs about ActiveObjects, for any numbers of entities, blocks and     *)
(* ids: an entity has one place, in memory or in the database.             *)
(*                                                                         *)
(* The blocks are seen as emergeBlock() would give them, loaded or not;    *)
(* what a block that is not modified has in the database counts as well.   *)
(* Each operation on static data keeps every entity in one block and at    *)
(* one place of it; each action is one change of an object and its data,   *)
(* of nothing but the pass, of blocks that are written, or new objects.    *)
(***************************************************************************)
EXTENDS ActiveObjects, DataLemmas

-----------------------------------------------------------------------------
(* A block that is not loaded is what emergeBlock() would make of it.      *)
Unloaded(saved) == [stored |-> saved, active |-> NoneActive, modified |-> FALSE]
ViewOf(c, d) == [b \in MapBlocks |-> IF c[b] # Nobody THEN c[b] ELSE Unloaded(d[b])]
View == ViewOf(content, disk)

(* A block that is not modified is given back by the database.             *)
HasIn(block, e) == e \in Range(block.stored) \/ \E id \in Ids : block.active[id] = e
Has(block, saved, e) == HasIn(block, e) \/ (~ block.modified /\ e \in Range(saved))

BlockOK(block, saved) ==
  /\ IsInjective(block.stored)
  /\ \A id \in Ids : block.active[id] \notin Range(block.stored)
  /\ \A i, j \in Ids : (block.active[i] = block.active[j] /\ block.active[i] # Nobody) => i = j
  /\ block.modified \/ ( /\ IsInjective(saved)
                         /\ \A e \in Entities : HasIn(block, e) => e \in Range(saved))

BlocksOK(v, d) ==
  /\ \A b \in MapBlocks : BlockOK(v[b], d[b])
  /\ \A b, c \in MapBlocks : \A e \in Entities :
       Has(v[b], d[b], e) /\ Has(v[c], d[c], e) => b = c

Contents == [MapBlocks -> StaticObjectList \union {Nobody}]
Disks    == [MapBlocks -> Seq(Entities)]
Lists    == [MapBlocks -> StaticObjectList]

ObjectsTypes ==
  /\ content \in Contents /\ disk \in Disks
  /\ objects \in [Ids -> ActiveObject \union {Nobody}]
  /\ activeBlocks \subseteq MapBlocks /\ blocksAdded \subseteq MapBlocks
  /\ envPc \in {"idle", "deactivate", "activate", "clear", "force", "stopped"}
  /\ toVisit \subseteq Ids /\ toRemove \subseteq Ids
  /\ fate \in [Entities -> {"new", "alive", "removed", "refused"}]

(* What is active in a block is that of an object that says so.            *)
SlotsOwned == \A b \in MapBlocks, id \in Ids : View[b].active[id] # Nobody =>
  /\ objects[id] # Nobody /\ objects[id].static = b
  /\ objects[id].entity = View[b].active[id] /\ id \notin toRemove

LiveOK(id) ==
  LET o == objects[id] IN
  /\ o.static = Nowhere => \A b \in MapBlocks : ~ Has(View[b], disk[b], o.entity)
  /\ o.static # Nowhere => View[o.static].active[id] = o.entity
  /\ \A j \in Ids : Live(j) /\ objects[j].entity = o.entity => j = id

Fates ==
  /\ \E k \in 0..MaxEntities : {e \in Entities : fate[e] # "new"} = 1..k
  /\ \A e \in Entities : fate[e] = "new" =>
       /\ \A b \in MapBlocks : ~ Has(View[b], disk[b], e)
       /\ \A id \in Present : objects[id].entity # e
  /\ \A id \in Present : objects[id].removal => fate[objects[id].entity] # "alive"

(* While the server runs, what is alive is somewhere.                      *)
Somewhere(e) ==
  \/ \E id \in Ids : Live(id) /\ objects[id].entity = e
  \/ \E b \in MapBlocks : HasIn(View[b], e)

Kept == Running => \A e \in Entities : fate[e] = "alive" => Somewhere(e)

Visits ==
  /\ toRemove \subseteq Present /\ toVisit \subseteq Present
  /\ \A id \in toRemove : ~ Live(id)
  /\ envPc = "force" => Present \subseteq toVisit \union toRemove
  /\ envPc = "stopped" => \A id \in Present : ~ Live(id)

ObjectsInv == /\ ObjectsTypes /\ BlocksOK(View, disk) /\ SlotsOwned
              /\ (\A id \in Ids : Live(id) => LiveOK(id)) /\ Fates /\ Kept /\ Visits

-----------------------------------------------------------------------------
(* One block.                                                              *)
LEMMA NobodyIsNobody ==
  /\ Nobody \notin Entities /\ Nobody \notin StaticObjectList /\ Nobody \notin ActiveObject
  /\ Nowhere \notin MapBlocks
BY ObjectsAssumption

LEMMA UnloadedType ==
  ASSUME NEW saved \in Seq(Entities)
  PROVE  /\ Unloaded(saved) \in StaticObjectList /\ Unloaded(saved).stored = saved
         /\ Unloaded(saved).modified = FALSE
         /\ \A id \in Ids : Unloaded(saved).active[id] = Nobody
         /\ \A e \in Entities : HasIn(Unloaded(saved), e) <=> e \in Range(saved)
         /\ \A e \in Entities : Has(Unloaded(saved), saved, e) <=> e \in Range(saved)
         /\ IsInjective(saved) => BlockOK(Unloaded(saved), saved)
<1>1. /\ Unloaded(saved) \in StaticObjectList /\ Unloaded(saved).stored = saved
      /\ Unloaded(saved).modified = FALSE
      /\ \A id \in Ids : Unloaded(saved).active[id] = Nobody
  BY DEF Unloaded, NoneActive, StaticObjectList
<1>2. \A e \in Entities : HasIn(Unloaded(saved), e) <=> e \in Range(saved)
  BY <1>1, NobodyIsNobody DEF HasIn
<1>3. Nobody \notin Range(saved)
  BY NobodyIsNobody DEF Range
<1> QED BY <1>1, <1>2, <1>3 DEF Has, BlockOK

LEMMA ViewType ==
  ASSUME NEW c \in Contents, NEW d \in Disks
  PROVE  /\ ViewOf(c, d) \in Lists
         /\ \A b \in MapBlocks : ViewOf(c, d)[b] = IF c[b] # Nobody THEN c[b] ELSE Unloaded(d[b])
<1>1. \A b \in MapBlocks : c[b] # Nobody => c[b] \in StaticObjectList
  BY DEF Contents
<1>2. \A b \in MapBlocks : Unloaded(d[b]) \in StaticObjectList
  BY UnloadedType DEF Disks
<1> QED BY <1>1, <1>2 DEF ViewOf, Lists

(* deleteStaticFromBlock() and saveStaticToBlock(), in a loaded block.     *)
Deleted(block, id, mark) ==
  [block EXCEPT !.active[id] = Nobody, !.modified = @ \/ mark]

Saved(block, id, e, stored, mark) ==
  [block EXCEPT !.stored = IF stored THEN Append(@, e) ELSE @,
                !.active[id] = IF stored \/ @ # Nobody THEN @ ELSE e,
                !.modified = @ \/ mark]

LEMMA EmergedIsView ==
  ASSUME NEW c \in Contents, disk \in Disks, NEW b \in MapBlocks
  PROVE  Emerged(c, b) = ViewOf(c, disk)[b]
BY DEF Emerged, ViewOf, Unloaded

Put(f, b, new) == [f EXCEPT ![b] = new]

LEMMA ViewChanged ==
  ASSUME NEW c \in Contents, NEW d \in Disks, NEW b \in MapBlocks,
         NEW new \in StaticObjectList
  PROVE  Put(c, b, new) \in Contents /\ ViewOf(Put(c, b, new), d) = Put(ViewOf(c, d), b, new)
<1>1. Put(c, b, new) \in Contents
  BY DEF Contents, Put
<1>2. ViewOf(Put(c, b, new), d) = Put(ViewOf(c, d), b, new)
  BY NobodyIsNobody DEF Contents, ViewOf, Put
<1> QED BY <1>1, <1>2

LEMMA DeletedBlock ==
  ASSUME NEW block \in StaticObjectList, NEW saved \in Seq(Entities), NEW id \in Ids,
         NEW mark \in BOOLEAN
  PROVE  LET new == Deleted(block, id, mark) IN
         /\ new \in StaticObjectList /\ new.stored = block.stored
         /\ new.modified = (block.modified \/ mark)
         /\ new.active[id] = Nobody
         /\ \A i \in Ids : i # id => new.active[i] = block.active[i]
         /\ \A e \in Entities : HasIn(new, e) => HasIn(block, e)
         /\ \A e \in Entities : HasIn(block, e) => HasIn(new, e) \/ e = block.active[id]
         /\ \A e \in Entities : Has(new, saved, e) => Has(block, saved, e)
         /\ BlockOK(block, saved) =>
              /\ BlockOK(new, saved)
              /\ \A e \in Entities : e = block.active[id] => ~ HasIn(new, e)
<1> DEFINE new == Deleted(block, id, mark)
<1>1. /\ new \in StaticObjectList /\ new.stored = block.stored
      /\ new.modified = (block.modified \/ mark)
      /\ new.active[id] = Nobody
      /\ \A i \in Ids : i # id => new.active[i] = block.active[i]
  BY DEF Deleted, StaticObjectList
<1> HIDE DEF new
<1>2. \A e \in Entities : HasIn(new, e) => HasIn(block, e)
  BY <1>1, NobodyIsNobody DEF HasIn
<1>3. \A e \in Entities : HasIn(block, e) => HasIn(new, e) \/ e = block.active[id]
  BY <1>1 DEF HasIn
<1>4. \A e \in Entities : Has(new, saved, e) => Has(block, saved, e)
  BY <1>1, <1>2 DEF Has, StaticObjectList
<1>5. ASSUME BlockOK(block, saved)
      PROVE  /\ BlockOK(new, saved)
             /\ \A e \in Entities : e = block.active[id] => ~ HasIn(new, e)
  <2>1. Nobody \notin Range(block.stored)
    BY NobodyIsNobody DEF Range, StaticObjectList
  <2>2. \A i \in Ids : new.active[i] \notin Range(new.stored)
    BY <1>1, <1>5, <2>1 DEF BlockOK
  <2>3. \A i, j \in Ids : (new.active[i] = new.active[j] /\ new.active[i] # Nobody) => i = j
    BY <1>1, <1>5 DEF BlockOK
  <2>4. new.modified \/ ( /\ IsInjective(saved)
                          /\ \A e \in Entities : HasIn(new, e) => e \in Range(saved))
    BY <1>1, <1>2, <1>5 DEF BlockOK
  <2>5. BlockOK(new, saved)
    BY <1>1, <1>5, <2>2, <2>3, <2>4 DEF BlockOK
  <2>6. \A e \in Entities : e = block.active[id] => ~ HasIn(new, e)
    BY <1>1, <1>5, NobodyIsNobody DEF BlockOK, HasIn
  <2> QED BY <2>5, <2>6
<1> QED BY <1>1, <1>2, <1>3, <1>4, <1>5 DEF new

LEMMA SavedBlock ==
  ASSUME NEW block \in StaticObjectList, NEW saved \in Seq(Entities), NEW id \in Ids,
         NEW e \in Entities, NEW stored \in BOOLEAN, NEW mark \in BOOLEAN,
         BlockOK(block, saved), ~ HasIn(block, e), block.active[id] = Nobody,
         mark \/ block.modified \/ e \in Range(saved)
  PROVE  LET new == Saved(block, id, e, stored, mark) IN
         /\ new \in StaticObjectList
         /\ new.modified = (block.modified \/ mark)
         /\ new.active[id] = IF stored THEN Nobody ELSE e
         /\ \A i \in Ids : i # id => new.active[i] = block.active[i]
         /\ \A x \in Entities : HasIn(new, x) <=> HasIn(block, x) \/ x = e
         /\ \A x \in Entities : Has(new, saved, x) => Has(block, saved, x) \/ x = e
         /\ BlockOK(new, saved)
<1> DEFINE new == Saved(block, id, e, stored, mark)
<1>1. /\ block.stored \in Seq(Entities)
      /\ block.active \in [Ids -> Entities \union {Nobody}] /\ block.modified \in BOOLEAN
  BY DEF StaticObjectList
<1>2. new.stored = (IF stored THEN Append(block.stored, e) ELSE block.stored)
  BY DEF Saved, StaticObjectList
<1>3. new.modified = (block.modified \/ mark)
  BY DEF Saved, StaticObjectList
<1>4. new.active = [block.active EXCEPT ![id] = IF stored \/ @ # Nobody THEN @ ELSE e]
  BY DEF Saved, StaticObjectList
<1>5. new \in StaticObjectList
  <2>1. (IF stored THEN Append(block.stored, e) ELSE block.stored) \in Seq(Entities)
    BY <1>1, AppendProperties
  <2>2. [block.active EXCEPT ![id] = IF stored \/ @ # Nobody THEN @ ELSE e]
          \in [Ids -> Entities \union {Nobody}]
    BY <1>1
  <2>3. (block.modified \/ mark) \in BOOLEAN
    OBVIOUS
  <2> DEFINE s2 == IF stored THEN Append(block.stored, e) ELSE block.stored
             a2 == [block.active EXCEPT ![id] = IF stored \/ @ # Nobody THEN @ ELSE e]
             m2 == block.modified \/ mark
  <2>4. new = [[[block EXCEPT !.stored = s2] EXCEPT !.active = a2] EXCEPT !.modified = m2]
    BY DEF Saved, StaticObjectList
  <2>5. s2 \in Seq(Entities) /\ a2 \in [Ids -> Entities \union {Nobody}] /\ m2 \in BOOLEAN
    BY <2>1, <2>2, <2>3
  <2> HIDE DEF s2, a2, m2, new
  <2> QED BY <2>4, <2>5 DEF StaticObjectList
<1> HIDE DEF new
<1>6. /\ new.active[id] = (IF stored THEN Nobody ELSE e)
      /\ \A i \in Ids : i # id => new.active[i] = block.active[i]
      /\ new.active \in [Ids -> Entities \union {Nobody}]
  BY <1>1, <1>4
<1>7. e \notin Range(block.stored) /\ \A i \in Ids : block.active[i] # e
  BY DEF HasIn
<1>8. /\ new.stored \in Seq(Entities)
      /\ Range(new.stored) = Range(block.stored) \union (IF stored THEN {e} ELSE {})
      /\ IsInjective(new.stored)
  <2>1. CASE stored
    BY <1>1, <1>6, <1>2, <1>3, <1>7, <2>1, AppendRange, AppendOnce DEF BlockOK
  <2>2. CASE ~ stored
    BY <1>1, <1>6, <1>2, <1>3, <2>2 DEF BlockOK
  <2> QED BY <2>1, <2>2
<1>9. new \in StaticObjectList
  BY <1>1, <1>6, <1>2, <1>3, <1>5, <1>8 DEF StaticObjectList
<1>10. \A x \in Entities : HasIn(new, x) <=> HasIn(block, x) \/ x = e
  <2> SUFFICES ASSUME NEW x \in Entities PROVE HasIn(new, x) <=> HasIn(block, x) \/ x = e
    OBVIOUS
  <2>1. x # Nobody
    BY NobodyIsNobody
  <2>2. ASSUME HasIn(new, x) PROVE HasIn(block, x) \/ x = e
    BY <1>6, <1>2, <1>3, <1>8, <2>1, <2>2 DEF HasIn
  <2>3. ASSUME HasIn(block, x) PROVE HasIn(new, x)
    BY <1>6, <1>2, <1>3, <1>8, <2>1, <2>3 DEF HasIn
  <2>4. HasIn(new, e)
    BY <1>6, <1>2, <1>3, <1>8 DEF HasIn
  <2> QED BY <2>2, <2>3, <2>4
<1>11. \A x \in Entities : Has(new, saved, x) => Has(block, saved, x) \/ x = e
  BY <1>1, <1>6, <1>2, <1>3, <1>10 DEF Has
<1>12. Nobody \notin Range(block.stored) /\ e # Nobody
  BY <1>1, NobodyIsNobody DEF Range
<1>13. \A i \in Ids : new.active[i] \notin Range(new.stored)
  BY <1>6, <1>2, <1>3, <1>7, <1>8, <1>12 DEF BlockOK
<1>14. \A i, j \in Ids : (new.active[i] = new.active[j] /\ new.active[i] # Nobody) => i = j
  BY <1>6, <1>2, <1>3, <1>7 DEF BlockOK
<1>15. new.modified \/ ( /\ IsInjective(saved)
                         /\ \A x \in Entities : HasIn(new, x) => x \in Range(saved))
  BY <1>1, <1>6, <1>2, <1>3, <1>10 DEF BlockOK
<1>16. BlockOK(new, saved)
  BY <1>8, <1>13, <1>14, <1>15 DEF BlockOK
<1> QED BY <1>6, <1>2, <1>3, <1>9, <1>10, <1>11, <1>16 DEF new

(* One block changes: what it has now, it had or nobody had.               *)
LEMMA ChangeBlock ==
  ASSUME NEW v \in Lists, NEW d \in Disks, BlocksOK(v, d), NEW b \in MapBlocks,
         NEW new \in StaticObjectList, BlockOK(new, d[b]),
         \A e \in Entities : Has(new, d[b], e) =>
           Has(v[b], d[b], e) \/ \A c \in MapBlocks \ {b} : ~ Has(v[c], d[c], e)
  PROVE  Put(v, b, new) \in Lists /\ BlocksOK(Put(v, b, new), d)
<1> DEFINE w == Put(v, b, new)
<1>1. w \in Lists /\ w[b] = new /\ \A c \in MapBlocks : c # b => w[c] = v[c]
  BY DEF Lists, Put
<1> HIDE DEF w
<1>2. \A c \in MapBlocks : BlockOK(w[c], d[c])
  BY <1>1 DEF BlocksOK
<1>3. ASSUME NEW c \in MapBlocks \ {b}, NEW e \in Entities, Has(new, d[b], e), Has(v[c], d[c], e)
      PROVE  FALSE
  BY <1>3 DEF BlocksOK
<1>4. \A b1, c1 \in MapBlocks : \A e \in Entities :
        Has(w[b1], d[b1], e) /\ Has(w[c1], d[c1], e) => b1 = c1
  <2> SUFFICES ASSUME NEW b1 \in MapBlocks, NEW c1 \in MapBlocks, NEW e \in Entities,
                      Has(w[b1], d[b1], e), Has(w[c1], d[c1], e)
               PROVE  b1 = c1
    OBVIOUS
  <2>1. CASE b1 = b
    BY <1>1, <1>3, <2>1
  <2>2. CASE b1 # b /\ c1 = b
    BY <1>1, <1>3, <2>2
  <2>3. CASE b1 # b /\ c1 # b
    BY <1>1, <2>3 DEF BlocksOK
  <2> QED BY <2>1, <2>2, <2>3
<1> QED BY <1>1, <1>2, <1>4 DEF BlocksOK, w

DeletedIn(v, b, id, mark) == Put(v, b, Deleted(v[b], id, mark))
SavedIn(v, b, id, e, stored, mark) == Put(v, b, Saved(v[b], id, e, stored, mark))

(* What both leave alone, and what becomes of an entity.                   *)
DataDeleted(w, v, d, b, id, mark) ==
  /\ w \in Lists /\ BlocksOK(w, d) /\ w[b].active[id] = Nobody
  /\ \A c \in MapBlocks : c # b => w[c] = v[c]
  /\ \A c \in MapBlocks, i \in Ids : i # id => w[c].active[i] = v[c].active[i]
  /\ \A c \in MapBlocks, e \in Entities :
       /\ HasIn(w[c], e) => HasIn(v[c], e)
       /\ Has(w[c], d[c], e) => Has(v[c], d[c], e)
       /\ HasIn(v[c], e) => HasIn(w[c], e) \/ (c = b /\ e = v[b].active[id])
  /\ \A e \in Entities : e = v[b].active[id] =>
       /\ \A c \in MapBlocks : ~ HasIn(w[c], e)
       /\ \A c \in MapBlocks \ {b} : ~ Has(w[c], d[c], e)
       /\ mark => ~ Has(w[b], d[b], e)
       /\ w[b].modified \/ e \in Range(d[b])

DataSaved(w, v, d, b, id, e, stored) ==
  /\ w \in Lists /\ BlocksOK(w, d)
  /\ w[b].active[id] = IF stored THEN Nobody ELSE e
  /\ \A c \in MapBlocks : c # b => w[c] = v[c]
  /\ \A c \in MapBlocks, i \in Ids : i # id => w[c].active[i] = v[c].active[i]
  /\ HasIn(w[b], e)
  /\ \A c \in MapBlocks, x \in Entities : x # e =>
       /\ Has(w[c], d[c], x) => Has(v[c], d[c], x)
       /\ HasIn(v[c], x) => HasIn(w[c], x)

LEMMA DeletedOK ==
  ASSUME NEW v \in Lists, NEW d \in Disks, BlocksOK(v, d), NEW b \in MapBlocks,
         NEW id \in Ids, NEW mark \in BOOLEAN
  PROVE  DataDeleted(DeletedIn(v, b, id, mark), v, d, b, id, mark)
<1> DEFINE new == Deleted(v[b], id, mark)
           w == Put(v, b, new)
<1>1. v[b] \in StaticObjectList /\ d[b] \in Seq(Entities) /\ BlockOK(v[b], d[b])
  BY DEF Lists, Disks, BlocksOK
<1>2. /\ new \in StaticObjectList /\ new.stored = v[b].stored
      /\ new.modified = (v[b].modified \/ mark)
      /\ new.active[id] = Nobody
      /\ \A i \in Ids : i # id => new.active[i] = v[b].active[i]
      /\ \A e \in Entities : HasIn(new, e) => HasIn(v[b], e)
      /\ \A e \in Entities : HasIn(v[b], e) => HasIn(new, e) \/ e = v[b].active[id]
      /\ \A e \in Entities : Has(new, d[b], e) => Has(v[b], d[b], e)
      /\ BlockOK(new, d[b])
      /\ \A e \in Entities : e = v[b].active[id] => ~ HasIn(new, e)
  BY <1>1, DeletedBlock
<1> HIDE DEF new
<1>3. w \in Lists /\ BlocksOK(w, d)
  BY <1>2, ChangeBlock
<1>4. w[b] = new /\ \A c \in MapBlocks : c # b => w[c] = v[c]
  BY DEF Lists, Put
<1> HIDE DEF w
<1>5. \A c \in MapBlocks, i \in Ids : i # id => w[c].active[i] = v[c].active[i]
  BY <1>2, <1>4
<1>6. \A c \in MapBlocks, e \in Entities :
        /\ HasIn(w[c], e) => HasIn(v[c], e)
        /\ Has(w[c], d[c], e) => Has(v[c], d[c], e)
        /\ HasIn(v[c], e) => HasIn(w[c], e) \/ (c = b /\ e = v[b].active[id])
  BY <1>2, <1>4
<1>7. ASSUME NEW e \in Entities, e = v[b].active[id]
      PROVE  /\ \A c \in MapBlocks : ~ HasIn(w[c], e)
             /\ \A c \in MapBlocks \ {b} : ~ Has(w[c], d[c], e)
             /\ mark => ~ Has(w[b], d[b], e)
             /\ w[b].modified \/ e \in Range(d[b])
  <2>1. HasIn(v[b], e)
    BY <1>7 DEF HasIn
  <2>2. Has(v[b], d[b], e)
    BY <2>1 DEF Has
  <2>3. \A c \in MapBlocks \ {b} : ~ Has(w[c], d[c], e)
    BY <1>4, <2>2 DEF BlocksOK
  <2>4. \A c \in MapBlocks : ~ HasIn(w[c], e)
    BY <1>2, <1>4, <1>7, <2>3 DEF Has
  <2>5. mark => ~ Has(w[b], d[b], e)
    BY <1>2, <1>4, <2>4 DEF Has
  <2>6. w[b].modified \/ e \in Range(d[b])
    BY <1>1, <1>2, <1>4, <2>1 DEF BlockOK
  <2> QED BY <2>3, <2>4, <2>5, <2>6
<1>8. DataDeleted(w, v, d, b, id, mark)
  BY <1>2, <1>3, <1>4, <1>5, <1>6, <1>7 DEF DataDeleted
<1> QED BY <1>8 DEF w, new, DeletedIn

LEMMA SavedOK ==
  ASSUME NEW v \in Lists, NEW d \in Disks, BlocksOK(v, d), NEW b \in MapBlocks,
         NEW id \in Ids, NEW e \in Entities, NEW stored \in BOOLEAN, NEW mark \in BOOLEAN,
         ~ HasIn(v[b], e), \A c \in MapBlocks \ {b} : ~ Has(v[c], d[c], e),
         v[b].active[id] = Nobody, mark \/ v[b].modified \/ e \in Range(d[b])
  PROVE  DataSaved(SavedIn(v, b, id, e, stored, mark), v, d, b, id, e, stored)
<1> DEFINE new == Saved(v[b], id, e, stored, mark)
           w == Put(v, b, new)
<1>1. v[b] \in StaticObjectList /\ d[b] \in Seq(Entities) /\ BlockOK(v[b], d[b])
  BY DEF Lists, Disks, BlocksOK
<1>2. /\ new \in StaticObjectList
      /\ new.modified = (v[b].modified \/ mark)
      /\ new.active[id] = (IF stored THEN Nobody ELSE e)
      /\ \A i \in Ids : i # id => new.active[i] = v[b].active[i]
      /\ \A x \in Entities : HasIn(new, x) <=> HasIn(v[b], x) \/ x = e
      /\ \A x \in Entities : Has(new, d[b], x) => Has(v[b], d[b], x) \/ x = e
      /\ BlockOK(new, d[b])
  BY <1>1, SavedBlock
<1> HIDE DEF new
<1>3. w \in Lists /\ BlocksOK(w, d)
  BY <1>2, ChangeBlock
<1>4. w[b] = new /\ \A c \in MapBlocks : c # b => w[c] = v[c]
  BY DEF Lists, Put
<1> HIDE DEF w
<1>5. \A c \in MapBlocks, i \in Ids : i # id => w[c].active[i] = v[c].active[i]
  BY <1>2, <1>4
<1>6. \A c \in MapBlocks, x \in Entities : x # e =>
        /\ Has(w[c], d[c], x) => Has(v[c], d[c], x)
        /\ HasIn(v[c], x) => HasIn(w[c], x)
  BY <1>2, <1>4
<1>7. DataSaved(w, v, d, b, id, e, stored)
  BY <1>2, <1>3, <1>4, <1>5, <1>6 DEF DataSaved
<1> QED BY <1>7 DEF w, new, SavedIn

LEMMA DeleteStaticView ==
  ASSUME NEW c \in Contents, disk \in Disks, NEW b \in MapBlocks, NEW id \in Ids,
         NEW mark \in BOOLEAN
  PROVE  /\ DeleteStatic(c, b, id, mark) \in Contents
         /\ ViewOf(DeleteStatic(c, b, id, mark), disk)
              = Put(ViewOf(c, disk), b, Deleted(ViewOf(c, disk)[b], id, mark))
<1>1. ViewOf(c, disk)[b] \in StaticObjectList /\ disk[b] \in Seq(Entities)
  BY ViewType DEF Lists, Disks
<1>2. Deleted(ViewOf(c, disk)[b], id, mark) \in StaticObjectList
  BY <1>1, DeletedBlock
<1>3. DeleteStatic(c, b, id, mark) = [c EXCEPT ![b] = Deleted(ViewOf(c, disk)[b], id, mark)]
  BY EmergedIsView, NobodyIsNobody DEF DeleteStatic, Deleted
<1>4. DeleteStatic(c, b, id, mark) = Put(c, b, Deleted(ViewOf(c, disk)[b], id, mark))
  BY <1>3 DEF Put
<1> QED BY <1>2, <1>4, ViewChanged

LEMMA SaveStaticView ==
  ASSUME NEW c \in Contents, disk \in Disks, NEW b \in MapBlocks, NEW id \in Ids,
         NEW e \in Entities, NEW stored \in BOOLEAN, NEW mark \in BOOLEAN,
         Saved(ViewOf(c, disk)[b], id, e, stored, mark) \in StaticObjectList
  PROVE  /\ SaveStatic(c, b, id, e, stored, mark) \in Contents
         /\ ViewOf(SaveStatic(c, b, id, e, stored, mark), disk)
              = Put(ViewOf(c, disk), b, Saved(ViewOf(c, disk)[b], id, e, stored, mark))
<1>1. SaveStatic(c, b, id, e, stored, mark)
        = [c EXCEPT ![b] = Saved(ViewOf(c, disk)[b], id, e, stored, mark)]
  BY EmergedIsView DEF SaveStatic, Saved
<1>2. SaveStatic(c, b, id, e, stored, mark)
        = Put(c, b, Saved(ViewOf(c, disk)[b], id, e, stored, mark))
  BY <1>1 DEF Put
<1> QED BY <1>2, ViewChanged

-----------------------------------------------------------------------------
(* The static data of an object is deleted, and saved where it stands.     *)
IsDeleted(w, o, id, mark) ==
  /\ w \in Lists /\ BlocksOK(w, disk)
  /\ \A b \in MapBlocks : w[b].active[id] = Nobody
  /\ \A b \in MapBlocks, i \in Ids : i # id => w[b].active[i] = View[b].active[i]
  /\ \A b \in MapBlocks, x \in Entities :
       /\ Has(w[b], disk[b], x) => Has(View[b], disk[b], x)
       /\ x # o.entity => (HasIn(View[b], x) => HasIn(w[b], x))
  /\ Live(id) =>
       /\ \A b \in MapBlocks : ~ HasIn(w[b], o.entity)
       /\ \A b \in MapBlocks : (mark \/ b # o.static) => ~ Has(w[b], disk[b], o.entity)
       /\ o.static # Nowhere =>
            w[o.static].modified \/ o.entity \in Range(disk[o.static])

LEMMA DeleteStaticOK ==
  ASSUME ObjectsInv, NEW id \in Ids, NEW o \in ActiveObject, objects[id] = o,
         NEW mark \in BOOLEAN
  PROVE  LET c == DeleteStatic(content, o.static, id, mark)
         IN  c \in Contents /\ IsDeleted(ViewOf(c, disk), o, id, mark)
<1> USE DEF IsDeleted
<1> DEFINE c == DeleteStatic(content, o.static, id, mark)
           w == ViewOf(c, disk)
<1>1. /\ o.entity \in Entities /\ o.static \in MapBlocks \union {Nowhere} /\ o # Nobody
      /\ content \in Contents /\ disk \in Disks /\ View \in Lists /\ BlocksOK(View, disk)
      /\ View = ViewOf(content, disk)
  BY NobodyIsNobody, ViewType DEF ActiveObject, ObjectsInv, ObjectsTypes, View
<1>2. \A b \in MapBlocks : View[b].active[id] # Nobody =>
        b = o.static /\ View[b].active[id] = o.entity
  BY DEF ObjectsInv, SlotsOwned
<1>3. ASSUME o.static = Nowhere PROVE c \in Contents /\ IsDeleted(w, o, id, mark)
  <2>1. c = content /\ w = View
    BY <1>1, <1>3 DEF DeleteStatic
  <2>2. \A b \in MapBlocks : View[b].active[id] = Nobody
    BY <1>2, <1>3, NobodyIsNobody
  <2>3. Live(id) => \A b \in MapBlocks : ~ Has(View[b], disk[b], o.entity)
    BY <1>3 DEF ObjectsInv, LiveOK
  <2>4. Live(id) => \A b \in MapBlocks : ~ HasIn(View[b], o.entity)
    BY <2>3 DEF Has
  <2> HIDE DEF c, w
  <2> QED BY <1>1, <1>3, <2>1, <2>2, <2>3, <2>4
<1>4. ASSUME o.static # Nowhere PROVE c \in Contents /\ IsDeleted(w, o, id, mark)
  <2>1. PICK s : s = o.static
    OBVIOUS
  <2>2. s \in MapBlocks
    BY <1>1, <1>4, <2>1
  <2>3. c \in Contents /\ w = Put(View, s, Deleted(View[s], id, mark))
    BY <1>1, <2>2, <2>1, DeleteStaticView
  <2>4. PICK v : v = View /\ v \in Lists /\ BlocksOK(v, disk) /\ disk \in Disks
    BY <1>1
  <2> DEFINE u == DeletedIn(v, s, id, mark)
  <2>5. DataDeleted(u, v, disk, s, id, mark)
    BY <2>2, <2>4, DeletedOK
  <2> USE DEF DataDeleted
  <2>6. w = u
    BY <2>3, <2>4, <2>1 DEF DeletedIn
  <2> HIDE DEF u, c, w
  <2>7. \A b \in MapBlocks : w[b].active[id] = Nobody
    BY <1>2, <2>5, <2>6, <2>4, <2>1
  <2>8. \A b \in MapBlocks, x \in Entities :
          x # o.entity => (HasIn(View[b], x) => HasIn(w[b], x))
    BY <1>2, <2>2, <2>5, <2>6, <2>4, <2>1, NobodyIsNobody
  <2>9. Live(id) => View[s].active[id] = o.entity
    BY <1>4, <2>1 DEF ObjectsInv, LiveOK
  <2> QED BY <1>1, <1>4, <2>2, <2>3, <2>5, <2>7, <2>8, <2>9, <2>6, <2>4, <2>1
<1> HIDE DEF c, w
<1>5. c \in Contents /\ IsDeleted(w, o, id, mark)
  BY <1>3, <1>4
<1> QED BY <1>5 DEF c, w

IsSaved(w, o, id, stored) ==
  /\ w \in Lists /\ BlocksOK(w, disk)
  /\ w[o.pos].active[id] = IF stored THEN Nobody ELSE o.entity
  /\ \A b \in MapBlocks : b # o.pos => w[b].active[id] = Nobody
  /\ \A b \in MapBlocks, i \in Ids : i # id => w[b].active[i] = View[b].active[i]
  /\ \A b \in MapBlocks, x \in Entities : x # o.entity =>
       /\ Has(w[b], disk[b], x) => Has(View[b], disk[b], x)
       /\ HasIn(View[b], x) => HasIn(w[b], x)
  /\ HasIn(w[o.pos], o.entity)

LEMMA SaveStaticOK ==
  ASSUME ObjectsInv, NEW id \in Ids, NEW o \in ActiveObject, objects[id] = o, Live(id),
         NEW mark \in BOOLEAN, mark \/ o.static = o.pos, NEW stored \in BOOLEAN
  PROVE  LET c == SaveStatic(DeleteStatic(content, o.static, id, mark), o.pos, id,
                             o.entity, stored, mark)
         IN  c \in Contents /\ IsSaved(ViewOf(c, disk), o, id, stored)
<1> DEFINE c == SaveStatic(DeleteStatic(content, o.static, id, mark), o.pos, id,
                           o.entity, stored, mark)
           w == ViewOf(c, disk)
<1>1. /\ o.entity \in Entities /\ o.pos \in MapBlocks /\ disk \in Disks
      /\ o.pos # Nowhere
  BY NobodyIsNobody DEF ActiveObject, ObjectsInv, ObjectsTypes
<1>2. PICK c1 : c1 = DeleteStatic(content, o.static, id, mark)
  OBVIOUS
<1>3. PICK w1 : w1 = ViewOf(c1, disk)
  OBVIOUS
<1>4. c1 \in Contents /\ IsDeleted(w1, o, id, mark)
  BY <1>2, <1>3, DeleteStaticOK
<1> USE DEF IsDeleted
<1>5. /\ ~ HasIn(w1[o.pos], o.entity) /\ w1[o.pos].active[id] = Nobody
      /\ \A b \in MapBlocks \ {o.pos} : ~ Has(w1[b], disk[b], o.entity)
      /\ mark \/ w1[o.pos].modified \/ o.entity \in Range(disk[o.pos])
  BY <1>1, <1>4
<1> DEFINE n == Saved(w1[o.pos], id, o.entity, stored, mark)
           w2 == SavedIn(w1, o.pos, id, o.entity, stored, mark)
<1>6. DataSaved(w2, w1, disk, o.pos, id, o.entity, stored)
  BY <1>1, <1>4, <1>5, SavedOK
<1> USE DEF DataSaved
<1>7. n \in StaticObjectList
  <2>1. w2[o.pos] = n
    <3>1. w2 = Put(w1, o.pos, n)
      BY DEF SavedIn
    <3> HIDE DEF n, w2
    <3> QED BY <1>1, <1>4, <3>1 DEF Lists, Put
  <2> HIDE DEF n, w2
  <2> QED BY <1>1, <1>6, <2>1 DEF Lists
<1>8. c = SaveStatic(c1, o.pos, id, o.entity, stored, mark)
  BY <1>2
<1>9. c \in Contents /\ w = w2
  BY <1>1, <1>3, <1>4, <1>7, <1>8, SaveStaticView DEF SavedIn
<1> HIDE DEF n, w2, c, w
<1>10. c \in Contents /\ IsSaved(w, o, id, stored)
  BY <1>1, <1>4, <1>6, <1>9 DEF IsSaved
<1> QED BY <1>10 DEF c, w

-----------------------------------------------------------------------------
(* A step that changes one object, o to o2, and the data of its entity.    *)
DataStep(o, id, o2) ==
  /\ BlocksOK(View', disk)
  /\ \A b \in MapBlocks, i \in Ids : i # id => View'[b].active[i] = View[b].active[i]
  /\ \A b \in MapBlocks : View'[b].active[id] # Nobody =>
       View'[b].active[id] = o.entity /\ o2.static = b /\ id \notin toRemove'
  /\ \A b \in MapBlocks, x \in Entities : x # o.entity =>
       /\ Has(View'[b], disk[b], x) => Has(View[b], disk[b], x)
       /\ HasIn(View[b], x) => HasIn(View'[b], x)
  /\ \A b \in MapBlocks :
       Has(View'[b], disk[b], o.entity) => ~ IsGone(o) \/ Has(View[b], disk[b], o.entity)

LiveStep(o, id, o2) == ~ IsGone(o2) =>
  /\ ~ IsGone(o) /\ id \notin toRemove'
  /\ (o2.static = Nowhere => \A b \in MapBlocks : ~ Has(View'[b], disk[b], o.entity))
  /\ (o2.static # Nowhere => View'[o2.static].active[id] = o.entity)

FateStep(o, o2) ==
  /\ fate' \in [Entities -> {"new", "alive", "removed", "refused"}]
  /\ \A x \in Entities : x # o.entity => fate'[x] = fate[x]
  /\ fate'[o.entity] \in {fate[o.entity], "removed", "refused"}
  /\ o2.removal => o.removal \/ fate'[o.entity] # "alive"
  /\ (Running /\ fate'[o.entity] = "alive") =>
       \/ ~ IsGone(o2)
       \/ \E b \in MapBlocks : HasIn(View'[b], o.entity)
       \/ IsGone(o) /\ \A b \in MapBlocks : HasIn(View[b], o.entity) => HasIn(View'[b], o.entity)

VisitStep(id) ==
  /\ content' \in Contents /\ UNCHANGED <<disk, activeBlocks, blocksAdded, envPc>>
  /\ envPc # "stopped" /\ (envPc = "force" => id \in toRemove')
  /\ toRemove \subseteq toRemove' /\ toRemove' \subseteq toRemove \union {id}
  /\ toVisit \subseteq toVisit' \union {id} /\ toVisit' \subseteq toVisit

LEMMA ObjectStep ==
  ASSUME ObjectsInv, NEW id \in Ids, NEW o \in ActiveObject,
         NEW o2 \in ActiveObject, objects[id] = o, objects' = [objects EXCEPT ![id] = o2],
         o2.entity = o.entity,
         DataStep(o, id, o2), LiveStep(o, id, o2), FateStep(o, o2), VisitStep(id)
  PROVE  ObjectsInv'
<1> USE DEF DataStep, LiveStep, FateStep, VisitStep
<1> DEFINE e == o.entity
<1>1. /\ e \in Entities /\ o # Nobody /\ o2 # Nobody /\ objects'[id] = o2
      /\ \A i \in Ids : i # id => objects'[i] = objects[i]
  BY NobodyIsNobody DEF ActiveObject, ObjectsInv, ObjectsTypes
<1>2. /\ Present' = Present /\ id \in Present
      /\ \A i \in Ids : i # id => (Live(i)' <=> Live(i))
      /\ (Live(id)' <=> ~ IsGone(o2)) /\ (Live(id) <=> ~ IsGone(o))
      /\ (Running' <=> Running)
  BY <1>1 DEF Present, Live, Running
<1>3. \A i \in Present : objects'[i].entity = objects[i].entity
  BY <1>1
<1>4. SlotsOwned'
  <2> SUFFICES ASSUME NEW b \in MapBlocks, NEW i \in Ids, View'[b].active[i] # Nobody
               PROVE  /\ objects'[i] # Nobody /\ objects'[i].static = b
                      /\ objects'[i].entity = View'[b].active[i] /\ i \notin toRemove'
    BY DEF SlotsOwned
  <2>1. CASE i = id
    BY <1>1, <2>1
  <2>2. CASE i # id
    BY <1>1, <2>2 DEF ObjectsInv, SlotsOwned
  <2> QED BY <2>1, <2>2
<1>5. ASSUME NEW i \in Ids, Live(i)' PROVE LiveOK(i)'
  <2>1. \A j \in Ids : Live(j)' => Live(j) /\ j \in Present
    BY <1>1, <1>2 DEF Live, Present
  <2>2. Live(i) /\ LiveOK(i)
    BY <1>5, <2>1 DEF ObjectsInv
  <2>3. \A j \in Ids : Live(j)' /\ objects'[j].entity = objects'[i].entity => j = i
    BY <1>3, <1>5, <2>1, <2>2 DEF LiveOK
  <2>4. CASE i = id
    BY <1>1, <1>2, <1>5, <2>3, <2>4 DEF LiveOK
  <2>5. CASE i # id
    <3>1. objects'[i] = objects[i] /\ objects[i].entity \in Entities
          /\ objects[i].static \in MapBlocks \union {Nowhere}
      BY <1>1, <2>2, <2>5 DEF ObjectsInv, ObjectsTypes, ActiveObject, Live
    <3>2. objects[i].entity = e => IsGone(o)
      BY <1>1, <1>2, <2>2, <2>5 DEF LiveOK
    <3>3. \A b \in MapBlocks :
            Has(View'[b], disk[b], objects[i].entity) => Has(View[b], disk[b], objects[i].entity)
      BY <3>1, <3>2
    <3>4. objects[i].static = Nowhere =>
            \A b \in MapBlocks : ~ Has(View'[b], disk'[b], objects'[i].entity)
      BY <2>2, <3>1, <3>3 DEF LiveOK
    <3>5. objects[i].static # Nowhere =>
            View'[objects'[i].static].active[i] = objects'[i].entity
      BY <2>2, <2>5, <3>1 DEF LiveOK
    <3> QED BY <2>3, <3>1, <3>4, <3>5 DEF LiveOK
  <2> QED BY <2>4, <2>5
<1>6. fate[e] # "new" /\ fate'[e] # "new"
  BY <1>1, <1>2 DEF ObjectsInv, Fates
<1>7. Fates'
  <2>1. {x \in Entities : fate'[x] # "new"} = {x \in Entities : fate[x] # "new"}
    BY <1>6
  <2>2. \E k \in 0..MaxEntities : {x \in Entities : fate'[x] # "new"} = 1..k
    BY <2>1 DEF ObjectsInv, Fates
  <2>3. ASSUME NEW x \in Entities, fate'[x] = "new"
        PROVE  /\ \A b \in MapBlocks : ~ Has(View'[b], disk'[b], x)
               /\ \A i \in Present' : objects'[i].entity # x
    <3>1. x # e /\ fate[x] = "new"
      BY <1>6, <2>3
    <3> QED BY <1>2, <1>3, <3>1 DEF ObjectsInv, Fates
  <2>4. ASSUME NEW i \in Present', objects'[i].removal
        PROVE  fate'[objects'[i].entity] # "alive"
    <3>1. i \in Present /\ i \in Ids /\ objects'[i].entity = objects[i].entity
          /\ objects[i].entity \in Entities
      BY <1>2, <1>3 DEF Present, ObjectsInv, ObjectsTypes, ActiveObject
    <3>2. \A x \in Entities : fate[x] # "alive" => fate'[x] # "alive"
      BY <1>1
    <3>3. CASE i # id \/ o.removal
      <4>1. objects[i].removal
        BY <1>1, <2>4, <3>1, <3>3
      <4> QED BY <3>1, <3>2, <4>1 DEF ObjectsInv, Fates
    <3>4. CASE i = id /\ ~ o.removal
      BY <1>1, <2>4, <3>4
    <3> QED BY <3>3, <3>4
  <2> QED BY <2>2, <2>3, <2>4 DEF Fates
<1>8. Kept'
  <2> SUFFICES ASSUME Running', NEW x \in Entities, fate'[x] = "alive" PROVE Somewhere(x)'
    BY DEF Kept
  <2>1. fate[x] = "alive" /\ Running
    BY <1>2
  <2>2. Somewhere(x)
    BY <2>1 DEF ObjectsInv, Kept
  <2>3. \A i \in Ids : (i # id /\ Live(i) /\ objects[i].entity = x) => Somewhere(x)'
    BY <1>1, <1>2 DEF Somewhere
  <2>4. CASE x # e
    BY <1>1, <1>2, <2>2, <2>3, <2>4 DEF Somewhere
  <2>5. CASE x = e
    <3>1. CASE ~ IsGone(o2)
      BY <1>1, <1>2, <2>5, <3>1 DEF Somewhere
    <3>2. CASE \E b \in MapBlocks : HasIn(View'[b], e)
      BY <2>5, <3>2 DEF Somewhere
    <3>3. CASE IsGone(o) /\ \A b \in MapBlocks : HasIn(View[b], e) => HasIn(View'[b], e)
      BY <1>2, <2>2, <2>3, <2>5, <3>3 DEF Somewhere
    <3> QED BY <2>1, <2>5, <3>1, <3>2, <3>3
  <2> QED BY <2>4, <2>5
<1>9. Visits'
  <2>1. toRemove' \subseteq Present' /\ toVisit' \subseteq Present'
    BY <1>2 DEF ObjectsInv, Visits
  <2>2. \A i \in toRemove' : ~ Live(i)'
    BY <1>2 DEF ObjectsInv, ObjectsTypes, Visits
  <2>3. envPc' = "force" => Present' \subseteq toVisit' \union toRemove'
    BY <1>2 DEF ObjectsInv, Visits
  <2> QED BY <2>1, <2>2, <2>3 DEF Visits
<1>10. ObjectsTypes'
  <2>1. objects' \in [Ids -> ActiveObject \union {Nobody}]
    BY DEF ObjectsInv, ObjectsTypes
  <2>2. /\ toVisit' \subseteq Ids /\ toRemove' \subseteq Ids
        /\ activeBlocks' \subseteq MapBlocks /\ blocksAdded' \subseteq MapBlocks
        /\ disk' \in Disks
        /\ envPc' \in {"idle", "deactivate", "activate", "clear", "force", "stopped"}
    BY DEF ObjectsInv, ObjectsTypes
  <2> QED BY <2>1, <2>2 DEF ObjectsTypes
<1>11. BlocksOK(View, disk)'
  OBVIOUS
<1> QED BY <1>4, <1>5, <1>7, <1>8, <1>9, <1>10, <1>11 DEF ObjectsInv

(* The blocks are as before.                                               *)
LEMMA SameData ==
  ASSUME ObjectsInv, NEW id \in Ids, NEW o \in ActiveObject,
         NEW o2 \in ActiveObject, objects[id] = o, objects' = [objects EXCEPT ![id] = o2],
         o2.entity = o.entity, o2.static = o.static, Running,
         UNCHANGED <<content, disk, envVars>>,
         fate' \in [Entities -> {"new", "alive", "removed", "refused"}],
         \A x \in Entities : x # o.entity => fate'[x] = fate[x],
         fate'[o.entity] \in {fate[o.entity], "removed"},
         IsGone(o2) => IsGone(o) \/ fate'[o.entity] # "alive",
         o2.removal => o.removal \/ fate'[o.entity] # "alive",
         IsGone(o) => IsGone(o2)
  PROVE  ObjectsInv'
<1>1. /\ content' \in Contents /\ disk' = disk /\ View' = View /\ BlocksOK(View', disk)
      /\ envPc' = envPc /\ envPc # "stopped" /\ envPc # "force"
      /\ toRemove' = toRemove /\ toVisit' = toVisit
      /\ UNCHANGED <<activeBlocks, blocksAdded>>
  BY DEF ObjectsInv, ObjectsTypes, Running, envVars, View
<1>2. \A b \in MapBlocks : View[b].active[id] # Nobody =>
        View[b].active[id] = o.entity /\ o2.static = b /\ id \notin toRemove
  BY DEF ObjectsInv, SlotsOwned
<1>3. o # Nobody /\ (Live(id) <=> ~ IsGone(o))
  BY NobodyIsNobody DEF Live
<1>4. LiveStep(o, id, o2)
  BY <1>1, <1>3 DEF ObjectsInv, LiveOK, Visits, LiveStep
<1>5. DataStep(o, id, o2)
  BY <1>1, <1>2 DEF DataStep
<1>6. FateStep(o, o2)
  BY <1>1 DEF FateStep
<1>7. VisitStep(id)
  BY <1>1 DEF VisitStep
<1> QED BY <1>4, <1>5, <1>6, <1>7, ObjectStep

(* The actions, one at a time.                                             *)
LEMMA MoveEntityOK ==
  ASSUME ObjectsInv, NEW id \in Ids, NEW b \in MapBlocks, MoveEntity(id, b)
  PROVE  ObjectsInv'
<1>1. PICK o \in ActiveObject : o = objects[id]
  BY DEF MoveEntity, Live, ObjectsInv, ObjectsTypes
<1>2. PICK o2 : o2 = [o EXCEPT !.pos = b]
  OBVIOUS
<1>3. /\ o2 \in ActiveObject /\ o2.entity = o.entity /\ o2.static = o.static
      /\ (IsGone(o2) <=> IsGone(o)) /\ o2.removal = o.removal
  BY <1>2 DEF ActiveObject, IsGone
<1>4. objects' = [objects EXCEPT ![id] = o2]
  BY <1>1, <1>2 DEF MoveEntity
<1>5. fate' = fate /\ fate \in [Entities -> {"new", "alive", "removed", "refused"}]
  BY DEF MoveEntity, ObjectsInv, ObjectsTypes
<1>6. Running /\ UNCHANGED <<content, disk, envVars>>
  BY DEF MoveEntity
<1> QED BY <1>1, <1>3, <1>4, <1>5, <1>6, SameData

LEMMA KnownOK ==
  ASSUME ObjectsInv, NEW id \in Ids, AddKnown(id) \/ RemoveKnown(id)
  PROVE  ObjectsInv'
<1>1. PICK o \in ActiveObject : o = objects[id]
  BY DEF AddKnown, RemoveKnown, Live, ObjectsInv, ObjectsTypes
<1>2. PICK k \in {0, 1} : objects' = [objects EXCEPT ![id].known = k]
  BY DEF AddKnown, RemoveKnown
<1>3. PICK o2 : o2 = [o EXCEPT !.known = k]
  OBVIOUS
<1>4. /\ o2 \in ActiveObject /\ o2.entity = o.entity /\ o2.static = o.static
      /\ (IsGone(o2) <=> IsGone(o)) /\ o2.removal = o.removal
  BY <1>3 DEF ActiveObject, IsGone
<1>5. objects' = [objects EXCEPT ![id] = o2]
  BY <1>1, <1>2, <1>3
<1>6. fate' = fate /\ fate \in [Entities -> {"new", "alive", "removed", "refused"}]
  BY DEF AddKnown, RemoveKnown, ObjectsInv, ObjectsTypes
<1>7. Running /\ UNCHANGED <<content, disk, envVars>>
  BY DEF AddKnown, RemoveKnown
<1> QED BY <1>1, <1>4, <1>5, <1>6, <1>7, SameData

LEMMA MarkForRemovalOK ==
  ASSUME ObjectsInv, NEW id \in Ids, MarkForRemoval(id)
  PROVE  ObjectsInv'
<1>1. PICK o \in ActiveObject : o = objects[id]
  BY DEF MarkForRemoval, Live, ObjectsInv, ObjectsTypes
<1>2. PICK o2 : o2 = [o EXCEPT !.removal = TRUE]
  OBVIOUS
<1>3. /\ o2 \in ActiveObject /\ o2.entity = o.entity /\ o2.static = o.static
      /\ IsGone(o2) /\ o2.removal
  BY <1>2 DEF ActiveObject, IsGone
<1>4. objects' = [objects EXCEPT ![id] = o2]
  BY <1>1, <1>2 DEF MarkForRemoval
<1>5. /\ fate \in [Entities -> {"new", "alive", "removed", "refused"}]
      /\ fate' = [fate EXCEPT ![o.entity] = "removed"] /\ o.entity \in Entities
  BY <1>1 DEF MarkForRemoval, ObjectsInv, ObjectsTypes, ActiveObject
<1>6. /\ fate' \in [Entities -> {"new", "alive", "removed", "refused"}]
      /\ \A x \in Entities : x # o.entity => fate'[x] = fate[x]
      /\ fate'[o.entity] = "removed"
  BY <1>5
<1>7. Running /\ UNCHANGED <<content, disk, envVars>>
  BY DEF MarkForRemoval
<1> QED BY <1>1, <1>3, <1>4, <1>6, <1>7, SameData

(* Steps in which no object and no data changes.                           *)
LEMMA SameObjects ==
  ASSUME ObjectsInv, ObjectsTypes', View' = View, UNCHANGED <<disk, objects, toRemove, fate>>,
         Running' => Running, toVisit' \subseteq Present,
         envPc' = "force" => Present \subseteq toVisit' \union toRemove,
         envPc' = "stopped" => envPc = "stopped"
  PROVE  ObjectsInv'
<1>1. disk' = disk /\ objects' = objects /\ toRemove' = toRemove /\ fate' = fate
  OBVIOUS
<1>2. BlocksOK(View, disk)' /\ SlotsOwned'
  BY <1>1 DEF ObjectsInv, SlotsOwned
<1>3. \A id \in Ids : Live(id)' => LiveOK(id)'
  BY <1>1 DEF ObjectsInv, Live, LiveOK
<1>4. Fates' /\ Kept'
  BY <1>1 DEF ObjectsInv, Fates, Kept, Present, Somewhere, Live
<1>5. Visits'
  BY <1>1 DEF ObjectsInv, Visits, Present, Live
<1> QED BY <1>2, <1>3, <1>4, <1>5 DEF ObjectsInv

LEMMA CalledBackFacts ==
  ASSUME ObjectsInv, NEW id \in Ids, CalledBack(id)
  PROVE  /\ objects[id] \in ActiveObject /\ objects[id] # Nobody
         /\ (Live(id) <=> ~ IsGone(objects[id]))
         /\ UNCHANGED <<disk, activeBlocks, blocksAdded, envPc>>
         /\ toVisit \subseteq toVisit' \union {id} /\ toVisit' \subseteq toVisit
BY DEF CalledBack, ObjectsInv, ObjectsTypes, Visits, Present, Live

(* Nothing happens to the object.                                          *)
LEMMA PassedOver ==
  ASSUME ObjectsInv, NEW id \in Ids, CalledBack(id), envPc # "force",
         UNCHANGED <<content, objects, toRemove, fate>>
  PROVE  ObjectsInv'
<1>1. /\ UNCHANGED <<content, disk, objects, activeBlocks, blocksAdded, envPc, toRemove, fate>>
      /\ toVisit' \subseteq toVisit
  BY CalledBackFacts
<1>2. View' = View /\ (Running' <=> Running)
  BY <1>1 DEF View, Running
<1>3. ObjectsTypes' /\ toVisit' \subseteq Present
  BY <1>1 DEF ObjectsInv, ObjectsTypes, Visits
<1> QED BY <1>1, <1>2, <1>3, SameObjects

LEMMA ResaveOK ==
  ASSUME ObjectsInv, NEW id \in Ids, CalledBack(id), ~ Skips(objects[id]),
         MustResave(objects[id]), Resave(id), UNCHANGED <<toRemove, fate>>
  PROVE  ObjectsInv'
<1>1. PICK o \in ActiveObject : o = objects[id]
  BY CalledBackFacts
<1>2. envPc = "deactivate" /\ Live(id) /\ ~ IsGone(o)
  BY <1>1, CalledBackFacts DEF Skips, MustResave
<1>3. /\ o.entity \in Entities /\ o.pos \in MapBlocks /\ o.pos # Nowhere
      /\ fate \in [Entities -> {"new", "alive", "removed", "refused"}]
      /\ id \notin toRemove
  BY <1>2, NobodyIsNobody DEF ActiveObject, ObjectsInv, ObjectsTypes, Visits
<1>4. PICK full \in BOOLEAN :
        /\ content' = IF full THEN DeleteStatic(content, o.static, id, TRUE)
                      ELSE SaveStatic(DeleteStatic(content, o.static, id, TRUE), o.pos, id,
                                      o.entity, FALSE, TRUE)
        /\ objects' = [objects EXCEPT ![id].static = IF full THEN Nowhere ELSE o.pos]
  BY <1>1 DEF Resave
<1>5. PICK o2 : o2 = [o EXCEPT !.static = IF full THEN Nowhere ELSE o.pos]
  OBVIOUS
<1>6. /\ o2 \in ActiveObject /\ o2.entity = o.entity
      /\ o2.static = (IF full THEN Nowhere ELSE o.pos)
      /\ ~ IsGone(o2) /\ o2.removal = o.removal
  BY <1>2, <1>5 DEF ActiveObject, IsGone
<1>7. objects' = [objects EXCEPT ![id] = o2]
  BY <1>1, <1>4, <1>5
<1>8. View' = ViewOf(content', disk)
  BY CalledBackFacts DEF View
<1>9. /\ toRemove' = toRemove /\ fate' = fate /\ envPc # "stopped" /\ envPc # "force"
  BY <1>2
<1>10. FateStep(o, o2)
  BY <1>3, <1>6, <1>9 DEF FateStep
<1>11. CASE full
  <2>1. content' \in Contents /\ IsDeleted(View', o, id, TRUE)
    BY <1>1, <1>4, <1>8, <1>11, DeleteStaticOK
  <2>2. DataStep(o, id, o2)
    BY <1>2, <2>1 DEF DataStep, IsDeleted
  <2>3. LiveStep(o, id, o2)
    BY <1>2, <1>3, <1>6, <1>9, <1>11, <2>1 DEF LiveStep, IsDeleted
  <2>4. VisitStep(id)
    BY <1>9, <2>1, CalledBackFacts DEF VisitStep
  <2> QED BY <1>1, <1>6, <1>7, <1>10, <2>2, <2>3, <2>4, ObjectStep
<1>12. CASE ~ full
  <2>1. content' \in Contents /\ IsSaved(View', o, id, FALSE)
    BY <1>1, <1>2, <1>4, <1>8, <1>12, SaveStaticOK
  <2>2. DataStep(o, id, o2)
    BY <1>2, <1>3, <1>6, <1>9, <1>12, <2>1 DEF DataStep, IsSaved
  <2>3. LiveStep(o, id, o2)
    BY <1>2, <1>3, <1>6, <1>9, <1>12, <2>1 DEF LiveStep, IsSaved
  <2>4. VisitStep(id)
    BY <1>9, <2>1, CalledBackFacts DEF VisitStep
  <2> QED BY <1>1, <1>6, <1>7, <1>10, <2>2, <2>3, <2>4, ObjectStep
<1> QED BY <1>11, <1>12

(* Deactivate() by whether its object is saved, refused or neither.        *)
Deactivates(id, o, mark, pending, refused, saved) ==
  /\ (pending => envPc # "force") /\ (saved <=> ~ IsGone(o) /\ ~ refused)
  /\ (refused => ~ IsGone(o))
  /\ content' = IF saved
        THEN SaveStatic(DeleteStatic(content, o.static, id, mark), o.pos, id,
                        o.entity, ~ pending, mark)
        ELSE DeleteStatic(content, o.static, id, mark)
  /\ objects' = [objects EXCEPT
       ![id].static = IF saved THEN o.pos ELSE Nowhere,
       ![id].deactivation = TRUE]
  /\ toRemove' = IF pending /\ ~ refused THEN toRemove ELSE toRemove \union {id}
  /\ fate' = IF refused THEN [fate EXCEPT ![o.entity] = "refused"] ELSE fate

LEMMA DeactivateCases ==
  ASSUME NEW id \in Ids, NEW o, o = objects[id], NEW changed \in BOOLEAN,
         Deactivate(id, changed)
  PROVE  \E mark, pending, refused, saved \in BOOLEAN :
           (mark \/ o.static = o.pos) /\ Deactivates(id, o, mark, pending, refused, saved)
<1>1. PICK mark \in BOOLEAN : mark = ShallBeWritten(o, changed)
  BY DEF ShallBeWritten
<1>2. mark \/ o.static = o.pos
  BY <1>1 DEF ShallBeWritten
<1> DEFINE deleted == DeleteStatic(content, o.static, id, mark)
           p == o.known > 0 /\ envPc # "force"
           r == ~ IsGone(o) /\ IsFull(deleted, o.pos)
<1>3. /\ content' = IF ~ IsGone(o) /\ ~ r
            THEN SaveStatic(deleted, o.pos, id, o.entity, ~ p, mark) ELSE deleted
      /\ objects' = [objects EXCEPT
           ![id].static = IF ~ IsGone(o) /\ ~ r THEN o.pos ELSE Nowhere,
           ![id].deactivation = TRUE]
      /\ toRemove' = IF p /\ ~ r THEN toRemove ELSE toRemove \union {id}
      /\ fate' = IF r THEN [fate EXCEPT ![o.entity] = "refused"] ELSE fate
  BY <1>1 DEF Deactivate
<1>4. (p => envPc # "force") /\ (r => ~ IsGone(o))
  OBVIOUS
<1>5. p \in BOOLEAN /\ r \in BOOLEAN /\ (~ IsGone(o) /\ ~ r) \in BOOLEAN
  OBVIOUS
<1> HIDE DEF p, r, deleted
<1>6. PICK saved \in BOOLEAN : saved = (~ IsGone(o) /\ ~ r)
  BY <1>5
<1>7. Deactivates(id, o, mark, p, r, saved)
  BY <1>3, <1>4, <1>6 DEF deleted, Deactivates
<1> QED BY <1>2, <1>5, <1>7

LEMMA DeactivateOK ==
  ASSUME ObjectsInv, NEW id \in Ids, CalledBack(id), envPc \in {"deactivate", "force"},
         ~ Skips(objects[id]), NEW changed \in BOOLEAN, Deactivate(id, changed)
  PROVE  ObjectsInv'
<1>1. PICK o \in ActiveObject : o = objects[id]
  BY CalledBackFacts
<1>2. /\ o.entity \in Entities /\ o.pos \in MapBlocks /\ o.pos # Nowhere
      /\ fate \in [Entities -> {"new", "alive", "removed", "refused"}]
      /\ (Live(id) <=> ~ IsGone(o)) /\ (Live(id) => id \notin toRemove)
      /\ (envPc = "deactivate" => Live(id))
  BY <1>1, CalledBackFacts, NobodyIsNobody
  DEF ActiveObject, ObjectsInv, ObjectsTypes, Visits, Skips
<1>3. PICK mark \in BOOLEAN, pending \in BOOLEAN, refused \in BOOLEAN, saved \in BOOLEAN :
        (mark \/ o.static = o.pos) /\ Deactivates(id, o, mark, pending, refused, saved)
  BY <1>1, DeactivateCases
<1>4. mark \/ o.static = o.pos
  BY <1>3
<1>5. Deactivates(id, o, mark, pending, refused, saved)
  BY <1>3
<1> USE DEF Deactivates
<1>6. PICK o2 : o2 = [o EXCEPT !.static = IF saved THEN o.pos ELSE Nowhere,
                              !.deactivation = TRUE]
  OBVIOUS
<1>7. /\ o2 \in ActiveObject /\ o2.entity = o.entity /\ IsGone(o2)
      /\ o2.static = (IF saved THEN o.pos ELSE Nowhere) /\ o2.removal = o.removal
  BY <1>2, <1>6 DEF ActiveObject, IsGone
<1>8. objects' = [objects EXCEPT ![id] = o2]
  BY <1>1, <1>5, <1>6 DEF ObjectsInv, ObjectsTypes
<1>9. View' = ViewOf(content', disk)
  BY CalledBackFacts DEF View
<1>10. LiveStep(o, id, o2)
  BY <1>7 DEF LiveStep
<1>11. /\ fate' \in [Entities -> {"new", "alive", "removed", "refused"}]
       /\ \A x \in Entities : x # o.entity => fate'[x] = fate[x]
       /\ fate'[o.entity] = IF refused THEN "refused" ELSE fate[o.entity]
  BY <1>2, <1>5
<1>12. envPc # "stopped" /\ (Running => Live(id))
  BY <1>2 DEF Running
<1>13. CASE saved
  <2>1. PICK stored \in BOOLEAN : stored = ~ pending
    OBVIOUS
  <2>2. content' \in Contents /\ IsSaved(View', o, id, stored)
    <3>1. content' = SaveStatic(DeleteStatic(content, o.static, id, mark), o.pos, id,
                                o.entity, stored, mark)
      BY <1>5, <1>13, <2>1
    <3> QED BY <1>1, <1>2, <1>4, <1>5, <1>9, <1>13, <3>1, SaveStaticOK
  <2>3. DataStep(o, id, o2)
    <3>1. \A b \in MapBlocks : View'[b].active[id] # Nobody =>
            View'[b].active[id] = o.entity /\ o2.static = b /\ id \notin toRemove'
      BY <1>2, <1>5, <1>7, <1>13, <2>1, <2>2 DEF IsSaved
    <3> QED BY <1>5, <1>13, <2>2, <3>1 DEF DataStep, IsSaved
  <2>4. FateStep(o, o2)
    BY <1>2, <1>5, <1>7, <1>11, <1>13, <2>2 DEF FateStep, IsSaved
  <2>5. VisitStep(id)
    BY <1>5, <1>12, <1>13, <2>2, CalledBackFacts DEF VisitStep
  <2> QED BY <1>1, <1>7, <1>8, <1>10, <2>3, <2>4, <2>5, ObjectStep
<1>14. CASE ~ saved
  <2>1. content' \in Contents /\ IsDeleted(View', o, id, mark)
    BY <1>1, <1>5, <1>9, <1>14, DeleteStaticOK
  <2>2. DataStep(o, id, o2)
    BY <1>2, <2>1 DEF DataStep, IsDeleted
  <2>3. FateStep(o, o2)
    BY <1>2, <1>5, <1>7, <1>11, <1>12, <1>14 DEF FateStep
  <2>4. VisitStep(id)
    BY <1>5, <1>12, <1>14, <2>1, CalledBackFacts DEF VisitStep
  <2> QED BY <1>1, <1>7, <1>8, <1>10, <2>2, <2>3, <2>4, ObjectStep
<1> QED BY <1>13, <1>14

LEMMA DeactivateFarOK ==
  ASSUME ObjectsInv, NEW id \in Ids, DeactivateFar(id)
  PROVE  ObjectsInv'
<1>1. CalledBack(id) /\ envPc \in {"deactivate", "force"}
  BY DEF DeactivateFar
<1>2. \/ /\ envPc # "force" /\ UNCHANGED <<content, objects, toRemove, fate>>
      \/ /\ ~ Skips(objects[id]) /\ MustResave(objects[id])
         /\ Resave(id) /\ UNCHANGED <<toRemove, fate>>
      \/ /\ ~ Skips(objects[id]) /\ \E changed \in BOOLEAN : Deactivate(id, changed)
  BY DEF DeactivateFar, Skips
<1> QED BY <1>1, <1>2, PassedOver, ResaveOK, DeactivateOK

(* An object that is gone, and its blocks: the entity is left where it is. *)
LEMMA ClearOK ==
  ASSUME ObjectsInv, NEW id \in Ids, Clear(id)
  PROVE  ObjectsInv'
<1>1. CalledBack(id) /\ envPc = "clear" /\ fate' = fate
  BY DEF Clear
<1>2. PICK o \in ActiveObject : o = objects[id]
  BY <1>1, CalledBackFacts
<1>3. /\ o.entity \in Entities /\ o.static \in MapBlocks \union {Nowhere}
      /\ fate \in [Entities -> {"new", "alive", "removed", "refused"}]
      /\ content \in Contents /\ disk \in Disks /\ View \in Lists /\ BlocksOK(View, disk)
      /\ View = ViewOf(content, disk) /\ View' = ViewOf(content', disk)
      /\ (o.removal => fate[o.entity] # "alive")
      /\ envPc # "stopped" /\ envPc # "force"
  BY <1>1, <1>2, CalledBackFacts, ViewType
  DEF ActiveObject, ObjectsInv, ObjectsTypes, Fates, Present, View
<1>4. CASE ~ IsGone(o) \/ (~ o.removal /\ o.known > 0)
  BY <1>1, <1>2, <1>4, PassedOver DEF Clear, IsGone
<1>5. CASE o.removal
  <2>1. /\ content' = DeleteStatic(content, o.static, id, TRUE)
        /\ objects' = [objects EXCEPT ![id].static = Nowhere]
        /\ toRemove' = IF o.known > 0 THEN toRemove ELSE toRemove \union {id}
    BY <1>2, <1>5 DEF Clear, IsGone
  <2>2. PICK o2 : o2 = [o EXCEPT !.static = Nowhere]
    OBVIOUS
  <2>3. /\ o2 \in ActiveObject /\ o2.entity = o.entity /\ IsGone(o2) /\ o2.removal
        /\ objects' = [objects EXCEPT ![id] = o2]
    BY <1>2, <1>5, <2>1, <2>2 DEF ActiveObject, IsGone
  <2>4. content' \in Contents /\ IsDeleted(View', o, id, TRUE)
    BY <1>2, <1>3, <2>1, DeleteStaticOK
  <2>5. DataStep(o, id, o2)
    BY <1>3, <2>4 DEF DataStep, IsDeleted
  <2>6. LiveStep(o, id, o2)
    BY <2>3 DEF LiveStep
  <2>7. FateStep(o, o2)
    BY <1>1, <1>3, <1>5 DEF FateStep
  <2>8. VisitStep(id)
    BY <1>1, <1>3, <2>1, <2>4, CalledBackFacts DEF VisitStep
  <2> QED BY <1>2, <2>3, <2>5, <2>6, <2>7, <2>8, ObjectStep
<1>6. CASE IsGone(o) /\ ~ o.removal /\ ~ o.known > 0
  <2>1. /\ objects' = objects /\ toRemove' = toRemove \union {id}
        /\ content' = IF o.static = Nowhere THEN content
                      ELSE LET block == Emerged(content, o.static)
                               e     == block.active[id]
                           IN [content EXCEPT ![o.static] =
                                 IF e = Nobody THEN block
                                 ELSE [block EXCEPT !.stored = Append(@, e),
                                                    !.active[id] = Nobody,
                                                    !.modified = TRUE]]
    BY <1>2, <1>6 DEF Clear
  <2>2. LiveStep(o, id, o)
    BY <1>6 DEF LiveStep
  <2>3. objects' = [objects EXCEPT ![id] = o]
    BY <1>2, <2>1 DEF ObjectsInv, ObjectsTypes
  <2>4. \A b \in MapBlocks : View[b].active[id] # Nobody =>
          b = o.static /\ View[b].active[id] = o.entity
    BY <1>2 DEF ObjectsInv, SlotsOwned
  <2>5. SUFFICES /\ content' \in Contents /\ BlocksOK(View', disk)
                 /\ \A b \in MapBlocks : View'[b].active[id] = Nobody
                 /\ \A b \in MapBlocks, i \in Ids : i # id => View'[b].active[i] = View[b].active[i]
                 /\ \A b \in MapBlocks, x \in Entities :
                      /\ Has(View'[b], disk[b], x) => Has(View[b], disk[b], x)
                      /\ HasIn(View[b], x) => HasIn(View'[b], x)
    <3>1. DataStep(o, id, o)
      BY <1>3, <2>5 DEF DataStep
    <3>2. FateStep(o, o)
      BY <1>1, <1>3, <1>6, <2>5 DEF FateStep
    <3>3. VisitStep(id)
      BY <1>1, <1>3, <2>1, <2>5, CalledBackFacts DEF VisitStep
    <3> QED BY <1>2, <2>2, <2>3, <3>1, <3>2, <3>3, ObjectStep
  <2>6. CASE o.static = Nowhere
    BY <1>3, <2>1, <2>4, <2>6, NobodyIsNobody
  <2>7. CASE o.static # Nowhere /\ View[o.static].active[id] = Nobody
    <3>1. o.static \in MapBlocks /\ View[o.static] \in StaticObjectList
      BY <1>3, <2>7 DEF Lists
    <3>2. content' = Put(content, o.static, View[o.static])
      BY <1>3, <2>1, <2>7, <3>1, EmergedIsView DEF Put
    <3>3. content' \in Contents /\ View' = Put(View, o.static, View[o.static])
      BY <1>3, <3>1, <3>2, ViewChanged
    <3>4. Put(View, o.static, View[o.static]) = View
      BY <1>3, <3>1 DEF Put, Lists
    <3> QED BY <1>3, <2>4, <2>7, <3>3, <3>4
  <2>8. CASE o.static # Nowhere /\ View[o.static].active[id] # Nobody
    <3>1. PICK s \in MapBlocks, v \in Lists, d \in Disks :
            s = o.static /\ v = View /\ d = disk
      BY <1>3, <2>8
    <3>2. v[s].active[id] = o.entity /\ o.entity # Nobody /\ BlocksOK(v, d)
      BY <1>3, <2>4, <2>8, <3>1, NobodyIsNobody
    <3>3. PICK yes \in BOOLEAN : yes
      OBVIOUS
    <3> DEFINE w1 == DeletedIn(v, s, id, yes)
    <3>4. DataDeleted(w1, v, d, s, id, yes)
      BY <3>2, DeletedOK
    <3> HIDE DEF w1
    <3> USE DEF DataDeleted, DataSaved
    <3> DEFINE w2 == SavedIn(w1, s, id, o.entity, yes, yes)
    <3>5. ~ HasIn(w1[s], o.entity) /\ \A b \in MapBlocks : ~ Has(w1[b], d[b], o.entity)
      BY <1>3, <3>2, <3>3, <3>4
    <3>6. o.entity \in Entities /\ (yes \/ w1[s].modified \/ o.entity \in Range(d[s]))
      BY <1>3, <3>3
    <3>7. DataSaved(w2, w1, d, s, id, o.entity, yes)
      BY <3>4, <3>5, <3>6, SavedOK
    <3> HIDE DEF w2
    <3>8. PICK n : n = Saved(Deleted(v[s], id, yes), id, o.entity, yes, yes)
      OBVIOUS
    <3>9. w2 = Put(v, s, n) /\ n \in StaticObjectList
      <4>1. w1 = Put(v, s, Deleted(v[s], id, yes)) /\ w1[s] = Deleted(v[s], id, yes)
        BY <3>1, <3>3 DEF w1, DeletedIn, Put, Lists
      <4>2. w2 = Put(w1, s, n)
        BY <3>3, <3>8, <4>1 DEF w2, SavedIn
      <4>3. w2 = Put(v, s, n) /\ w2[s] = n
        BY <3>4, <4>1, <4>2 DEF Put, Lists
      <4> QED BY <3>7, <4>3 DEF Lists
    <3>10. content' = Put(content, s, n)
      <4>1. v[s].active \in [Ids -> Entities \union {Nobody}] /\ v[s].modified \in BOOLEAN
            /\ v[s] \in StaticObjectList
        BY DEF Lists, StaticObjectList
      <4>2. n = [v[s] EXCEPT !.stored = Append(@, o.entity), !.active[id] = Nobody,
                             !.modified = TRUE]
        BY <3>3, <3>8, <4>1 DEF Saved, Deleted, StaticObjectList
      <4> QED BY <1>3, <2>1, <2>8, <3>1, <3>2, <4>2, EmergedIsView DEF Put
    <3>11. content' \in Contents /\ View' = w2
      BY <1>3, <3>1, <3>9, <3>10, ViewChanged
    <3>12. \A b \in MapBlocks : View'[b].active[id] = Nobody
      BY <2>4, <3>1, <3>3, <3>4, <3>7, <3>11
    <3>13. \A b \in MapBlocks, x \in Entities :
             /\ Has(View'[b], disk[b], x) => Has(View[b], disk[b], x)
             /\ HasIn(View[b], x) => HasIn(View'[b], x)
      <4> SUFFICES ASSUME NEW b \in MapBlocks, NEW x \in Entities
                   PROVE  /\ Has(w2[b], d[b], x) => Has(v[b], d[b], x)
                          /\ HasIn(v[b], x) => HasIn(w2[b], x)
        BY <3>1, <3>11
      <4>1. CASE x # o.entity
        BY <3>2, <3>4, <3>7, <4>1
      <4>2. CASE x = o.entity /\ b # s
        BY <3>4, <3>7, <4>2
      <4>3. CASE x = o.entity /\ b = s
        BY <3>2, <3>7, <4>3 DEF Has, HasIn
      <4> QED BY <4>1, <4>2, <4>3
    <3> QED BY <3>1, <3>4, <3>7, <3>11, <3>12, <3>13
  <2> QED BY <2>6, <2>7, <2>8
<1> QED BY <1>4, <1>5, <1>6 DEF IsGone

-----------------------------------------------------------------------------
(* serialize(): a finite set of naturals in its order, and a block.        *)
LEMMA OrderedOnce ==
  ASSUME NEW S, S \subseteq Nat, IsFiniteSet(S)
  PROVE  /\ Ordered(S) \in [1..Cardinality(S) -> S] /\ Cardinality(S) \in Nat
         /\ \A i, j \in 1..Cardinality(S) : Ordered(S)[i] = Ordered(S)[j] => i = j
         /\ \A y \in S : \E i \in 1..Cardinality(S) : Ordered(S)[i] = y
<1> DEFINE n == Cardinality(S)
           Upto(y) == {j \in S : j <= y}
           rank == [y \in S |-> Cardinality(Upto(y))]
<1>1. n \in Nat /\ IsFiniteSet(1..n) /\ Cardinality(1..n) = n
  BY FS_CardinalityType, FS_Interval
<1>2. \A y \in S : IsFiniteSet(Upto(y)) /\ Cardinality(Upto(y)) \in 1..n
  <2> SUFFICES ASSUME NEW y \in S
               PROVE  IsFiniteSet(Upto(y)) /\ Cardinality(Upto(y)) \in 1..n
    OBVIOUS
  <2>1. Upto(y) \in SUBSET S /\ y \in Upto(y)
    OBVIOUS
  <2>2. IsFiniteSet(Upto(y)) /\ Cardinality(Upto(y)) <= n
    BY <2>1, FS_Subset
  <2>3. Cardinality(Upto(y)) \in Nat /\ Cardinality(Upto(y)) # 0
    BY <2>1, <2>2, FS_CardinalityType, FS_EmptySet
  <2> QED BY <1>1, <2>2, <2>3
<1>3. \A y, z \in S : y < z => Cardinality(Upto(y)) # Cardinality(Upto(z))
  <2> SUFFICES ASSUME NEW y \in S, NEW z \in S, y < z
               PROVE  Cardinality(Upto(y)) # Cardinality(Upto(z))
    OBVIOUS
  <2>1. \A j \in S : j \in Nat
    OBVIOUS
  <2>2. \A j \in S : j <= y => j <= z
    BY <2>1
  <2>3. Upto(y) \subseteq Upto(z)
    BY <2>2
  <2>4. z <= z /\ ~ z <= y
    BY <2>1
  <2>5. z \in Upto(z) /\ z \notin Upto(y)
    BY <2>4
  <2>6. Upto(y) \in SUBSET Upto(z) /\ z \in Upto(z) /\ z \notin Upto(y)
    BY <2>3, <2>5
  <2>7. Upto(y) # Upto(z) /\ IsFiniteSet(Upto(z))
    BY <1>2, <2>6
  <2> HIDE DEF Upto
  <2> QED BY <2>6, <2>7, FS_Subset
<1>4. \A y, z \in S : Cardinality(Upto(y)) = Cardinality(Upto(z)) => y = z
  <2> HIDE DEF Upto
  <2> QED BY <1>3
<1>5. rank \in Injection(S, 1..n)
  <2> HIDE DEF Upto
  <2> QED BY <1>2, <1>4 DEF Injection, IsInjective
<1>6. rank \in Surjection(S, 1..n)
  <2> HIDE DEF rank
  <2> QED BY <1>1, <1>5, FS_Injection
<1>7. \A i \in 1..n : \E y \in S : Cardinality(Upto(y)) = i
  <2> HIDE DEF Upto
  <2> QED BY <1>6 DEF Surjection
<1>8. \A i \in 1..n : Ordered(S)[i] \in S /\ Cardinality(Upto(Ordered(S)[i])) = i
  BY <1>7 DEF Ordered
<1>9. Ordered(S) \in [1..n -> S]
  <2>1. PICK f : f = Ordered(S)
    OBVIOUS
  <2>2. PICK m : m = n
    OBVIOUS
  <2> DEFINE g(i) == CHOOSE id \in S : Cardinality({j \in S : j <= id}) = i
  <2>3. f = [i \in 1..m |-> g(i)]
    <3>1. Ordered(S) = [i \in 1..Cardinality(S) |-> g(i)]
      BY Zenon DEF Ordered
    <3> QED BY <2>1, <2>2, <3>1, Zenon
  <2> HIDE DEF g
  <2>4. \A i \in 1..m : f[i] \in S
    BY <1>8, <2>1, <2>2
  <2>5. f \in [1..m -> S]
    BY <2>3, <2>4
  <2> QED BY <2>1, <2>2, <2>5
<1>10. \A y \in S : \E i \in 1..n : Ordered(S)[i] = y
  <2> HIDE DEF Upto
  <2> QED BY <1>2, <1>4, <1>8
<1>11. \A i, j \in 1..n : Ordered(S)[i] = Ordered(S)[j] => i = j
  <2> HIDE DEF Upto
  <2> QED BY <1>8
<1> QED BY <1>1, <1>9, <1>10, <1>11

LEMMA SerializedOnce ==
  ASSUME NEW block \in StaticObjectList, NEW saved, BlockOK(block, saved)
  PROVE  /\ Serialized(block) \in Seq(Entities) /\ IsInjective(Serialized(block))
         /\ \A e \in Entities : e \in Range(Serialized(block)) <=> HasIn(block, e)
<1> DEFINE T == {id \in Ids : block.active[id] # Nobody}
           n == Cardinality(T)
           m == Len(block.stored)
           ids == Ordered(T)
           tail == [i \in DOMAIN ids |-> block.active[ids[i]]]
           all == block.stored \o tail
<1>1. /\ block.stored \in Seq(Entities) /\ m \in Nat /\ DOMAIN block.stored = 1..m
      /\ block.active \in [Ids -> Entities \union {Nobody}]
  BY DEF StaticObjectList
<1>2. T \in SUBSET Ids /\ IsFiniteSet(T) /\ T \subseteq Nat
  BY ObjectsAssumption, FS_Subset
<1>3. /\ ids \in [1..n -> T] /\ n \in Nat
      /\ \A i, j \in 1..n : ids[i] = ids[j] => i = j
      /\ \A y \in T : \E i \in 1..n : ids[i] = y
  <2> HIDE DEF T
  <2> QED BY <1>2, OrderedOnce
<1>4. /\ tail \in [1..n -> Entities]
      /\ \A i \in 1..n : ids[i] \in Ids /\ tail[i] = block.active[ids[i]]
  <2> HIDE DEF ids, n
  <2> QED BY <1>1, <1>3
<1>5. tail \in Seq(Entities) /\ Len(tail) = n
  <2> HIDE DEF tail, n
  <2> QED BY <1>3, <1>4
<1> HIDE DEF tail, n, ids
<1>6. /\ all \in Seq(Entities) /\ Len(all) = m + n /\ DOMAIN all = 1..(m + n)
      /\ \A i \in 1..m : all[i] = block.stored[i]
      /\ \A i \in 1..n : all[m + i] = tail[i]
  <2>1. /\ all \in Seq(Entities) /\ Len(all) = m + n
        /\ \A i \in 1 .. m + n : all[i] = IF i <= m THEN block.stored[i] ELSE tail[i - m]
    BY <1>1, <1>5, ConcatProperties
  <2> HIDE DEF all
  <2>2. DOMAIN all = 1..(m + n)
    BY <1>1, <1>3, <2>1
  <2>3. \A i \in 1..m : i \in 1 .. m + n /\ i <= m
    BY <1>1, <1>3
  <2>4. \A i \in 1..n : m + i \in 1 .. m + n /\ ~ (m + i <= m) /\ (m + i) - m = i
    BY <1>1, <1>3
  <2> QED BY <2>1, <2>2, <2>3, <2>4
<1> HIDE DEF all
<1>7. \A i \in 1..(m + n) : (i \notin 1..m) => \E k \in 1..n : i = m + k
  <2> SUFFICES ASSUME NEW i \in 1..(m + n), i \notin 1..m PROVE \E k \in 1..n : i = m + k
    OBVIOUS
  <2>1. i - m \in 1..n /\ i = m + (i - m)
    BY <1>1, <1>3
  <2> QED BY <2>1
<1>8. \A i \in 1..m, k \in 1..n : block.stored[i] # tail[k]
  BY <1>1, <1>4 DEF BlockOK, Range
<1>9. \A k, l \in 1..n : tail[k] = tail[l] => k = l
  BY <1>3, <1>4, <1>2 DEF BlockOK
<1>10. \A i, j \in 1..(m + n) : all[i] = all[j] => i = j
  <2> SUFFICES ASSUME NEW i \in 1..(m + n), NEW j \in 1..(m + n), all[i] = all[j]
               PROVE  i = j
    OBVIOUS
  <2>1. CASE i \in 1..m /\ j \in 1..m
    BY <1>1, <1>6, <2>1 DEF BlockOK, IsInjective
  <2>2. CASE i \in 1..m /\ j \notin 1..m
    <3>1. PICK k \in 1..n : j = m + k
      BY <1>7, <2>2
    <3> QED BY <1>6, <1>8, <2>2, <3>1
  <2>3. CASE i \notin 1..m /\ j \in 1..m
    <3>1. PICK k \in 1..n : i = m + k
      BY <1>7, <2>3
    <3> QED BY <1>6, <1>8, <2>3, <3>1
  <2>4. CASE i \notin 1..m /\ j \notin 1..m
    <3>1. PICK k \in 1..n, l \in 1..n : i = m + k /\ j = m + l
      BY <1>7, <2>4
    <3>2. tail[k] = tail[l]
      BY <1>6, <3>1
    <3> QED BY <1>9, <3>1, <3>2
  <2> QED BY <2>1, <2>2, <2>3, <2>4
<1>11. IsInjective(all)
  BY <1>6, <1>10 DEF IsInjective
<1>12. ASSUME NEW e \in Entities PROVE e \in Range(all) <=> HasIn(block, e)
  <2>1. ASSUME e \in Range(all) PROVE HasIn(block, e)
    <3>1. PICK i \in 1..(m + n) : all[i] = e
      BY <1>6, <2>1 DEF Range
    <3>2. CASE i \in 1..m
      BY <1>1, <1>6, <3>1, <3>2 DEF HasIn, Range
    <3>3. CASE i \notin 1..m
      <4>1. PICK k \in 1..n : i = m + k
        BY <1>7, <3>3
      <4>2. tail[k] = e
        BY <1>6, <3>1, <4>1
      <4> QED BY <1>4, <4>2 DEF HasIn
    <3> QED BY <3>2, <3>3
  <2>2. ASSUME e \in Range(block.stored) PROVE e \in Range(all)
    <3>1. PICK i \in 1..m : block.stored[i] = e
      BY <1>1, <2>2 DEF Range
    <3>2. i \in 1..(m + n) /\ all[i] = e
      BY <1>1, <1>3, <1>6, <3>1
    <3> QED BY <1>6, <3>2 DEF Range
  <2>3. ASSUME NEW id \in Ids, block.active[id] = e PROVE e \in Range(all)
    <3>1. id \in T
      BY <2>3, NobodyIsNobody
    <3>2. PICK k \in 1..n : ids[k] = id
      BY <1>3, <3>1
    <3>3. m + k \in 1..(m + n) /\ all[m + k] = e
      BY <1>1, <1>3, <1>4, <1>6, <2>3, <3>2
    <3> QED BY <1>6, <3>3 DEF Range
  <2> QED BY <2>1, <2>2, <2>3 DEF HasIn
<1>13. Serialized(block) = all
  BY DEF Serialized, all, tail, ids
<1> QED BY <1>6, <1>11, <1>12, <1>13

(* The block in the database.                                              *)
Written(block, saved) == IF block.modified THEN Serialized(block) ELSE saved

LEMMA WrittenOK ==
  ASSUME NEW block \in StaticObjectList, NEW saved \in Seq(Entities), BlockOK(block, saved)
  PROVE  LET new == Written(block, saved) IN
         /\ new \in Seq(Entities) /\ BlockOK(Unloaded(new), new)
         /\ \A id \in Ids : Unloaded(new).active[id] = Nobody
         /\ \A e \in Entities :
              /\ Has(Unloaded(new), new, e) <=> Has(block, saved, e)
              /\ HasIn(block, e) => HasIn(Unloaded(new), e)
<1> DEFINE new == Written(block, saved)
<1>1. /\ new \in Seq(Entities) /\ IsInjective(new)
      /\ \A e \in Entities : e \in Range(new) <=> Has(block, saved, e)
  <2>1. CASE block.modified
    BY <2>1, SerializedOnce DEF Written, Has
  <2>2. CASE ~ block.modified
    BY <2>2 DEF Written, Has, BlockOK
  <2> QED BY <2>1, <2>2
<1> HIDE DEF new
<1>2. \A e \in Entities : HasIn(block, e) => Has(block, saved, e)
  BY DEF Has
<1> QED BY <1>1, <1>2, UnloadedType DEF new

(* Blocks are unloaded, and objects are freed that nothing lives in.       *)
Leaves(R) ==
  /\ objects' = [id \in Ids |-> IF id \in R THEN Nobody ELSE objects[id]]
  /\ toRemove' = toRemove \ R
  /\ UNCHANGED <<activeBlocks, blocksAdded, toVisit, fate>>
  /\ content' \in Contents /\ disk' \in Disks
  /\ \A b \in MapBlocks :
       \/ View'[b] = View[b] /\ disk'[b] = disk[b]
       \/ /\ disk'[b] = Written(View[b], disk[b]) /\ View'[b] = Unloaded(disk'[b])
          /\ \A id \in Ids : Live(id) => objects[id].static # b

LEMMA LeavesOK ==
  ASSUME ObjectsInv, NEW R, R \subseteq toRemove, R = {} \/ toVisit = {}, Leaves(R),
         envPc' \in {"idle", "deactivate", "activate", "clear", "force", "stopped"},
         Running' => Running,
         envPc' = "force" => (envPc = "force" /\ R = {}),
         envPc' = "stopped" => Present \subseteq R
  PROVE  ObjectsInv'
<1>1. /\ View \in Lists /\ disk \in Disks /\ BlocksOK(View, disk)
      /\ content \in Contents /\ toRemove \subseteq Ids
      /\ objects \in [Ids -> ActiveObject \union {Nobody}]
  BY ViewType DEF ObjectsInv, ObjectsTypes, View
<1>2. \A b \in MapBlocks :
        /\ View[b] \in StaticObjectList /\ disk[b] \in Seq(Entities) /\ BlockOK(View[b], disk[b])
  BY <1>1 DEF Lists, Disks, BlocksOK
<1>3. \A b \in MapBlocks :
        /\ BlockOK(View'[b], disk'[b])
        /\ \A e \in Entities :
             /\ Has(View'[b], disk'[b], e) <=> Has(View[b], disk[b], e)
             /\ HasIn(View[b], e) => HasIn(View'[b], e)
        /\ \A id \in Ids : View'[b].active[id] # Nobody => View'[b] = View[b]
  <2> SUFFICES ASSUME NEW b \in MapBlocks
               PROVE  /\ BlockOK(View'[b], disk'[b])
                      /\ \A e \in Entities :
                           /\ Has(View'[b], disk'[b], e) <=> Has(View[b], disk[b], e)
                           /\ HasIn(View[b], e) => HasIn(View'[b], e)
                      /\ \A id \in Ids : View'[b].active[id] # Nobody => View'[b] = View[b]
    OBVIOUS
  <2>1. CASE View'[b] = View[b] /\ disk'[b] = disk[b]
    BY <1>2, <2>1
  <2>2. CASE disk'[b] = Written(View[b], disk[b]) /\ View'[b] = Unloaded(disk'[b])
    BY <1>2, <2>2, WrittenOK
  <2> QED BY <2>1, <2>2 DEF Leaves
<1>4. BlocksOK(View', disk')
  BY <1>1, <1>3 DEF BlocksOK
<1>5. /\ \A id \in Ids : objects'[id] = IF id \in R THEN Nobody ELSE objects[id]
      /\ toRemove' = toRemove \ R /\ fate' = fate /\ toVisit' = toVisit
      /\ Present' = Present \ R
  BY <1>1 DEF Leaves, Present
<1>6. \A id \in R : ~ Live(id)
  BY DEF ObjectsInv, Visits
<1>7. \A id \in Ids : /\ Live(id)' <=> Live(id)
                      /\ Live(id) => objects'[id] = objects[id]
  BY <1>5, <1>6 DEF Live
<1>8. ObjectsTypes'
  <2>1. objects' \in [Ids -> ActiveObject \union {Nobody}]
    BY <1>1 DEF Leaves
  <2>2. /\ content' \in Contents /\ disk' \in Disks /\ activeBlocks' \subseteq MapBlocks
        /\ blocksAdded' \subseteq MapBlocks /\ toVisit' \subseteq Ids /\ toRemove' \subseteq Ids
        /\ fate' \in [Entities -> {"new", "alive", "removed", "refused"}]
    BY <1>1, <1>5 DEF Leaves, ObjectsInv, ObjectsTypes
  <2> QED BY <2>1, <2>2 DEF ObjectsTypes
<1>9. SlotsOwned'
  <2> SUFFICES ASSUME NEW b \in MapBlocks, NEW id \in Ids, View'[b].active[id] # Nobody
               PROVE  /\ objects'[id] # Nobody /\ objects'[id].static = b
                      /\ objects'[id].entity = View'[b].active[id] /\ id \notin toRemove'
    BY DEF SlotsOwned
  <2>1. View'[b] = View[b]
    BY <1>3
  <2>2. /\ objects[id] # Nobody /\ objects[id].static = b
        /\ objects[id].entity = View[b].active[id] /\ id \notin toRemove
    BY <2>1 DEF ObjectsInv, SlotsOwned
  <2> QED BY <1>5, <2>1, <2>2
<1>10. ASSUME NEW id \in Ids, Live(id)' PROVE LiveOK(id)'
  <2>1. /\ Live(id) /\ LiveOK(id) /\ objects'[id] = objects[id]
        /\ objects[id].entity \in Entities /\ objects[id].static \in MapBlocks \union {Nowhere}
    BY <1>1, <1>7, <1>10 DEF ObjectsInv, ActiveObject, Live
  <2>2. objects[id].static = Nowhere =>
          \A b \in MapBlocks : ~ Has(View'[b], disk'[b], objects[id].entity)
    BY <1>3, <2>1 DEF LiveOK
  <2>3. objects[id].static # Nowhere =>
          View'[objects[id].static].active[id] = objects[id].entity
    <3> SUFFICES ASSUME objects[id].static # Nowhere
                 PROVE  View'[objects[id].static].active[id] = objects[id].entity
      OBVIOUS
    <3>1. View'[objects[id].static] = View[objects[id].static]
      BY <2>1 DEF Leaves
    <3> QED BY <2>1, <3>1 DEF LiveOK
  <2>4. \A j \in Ids : Live(j)' /\ objects'[j].entity = objects'[id].entity => j = id
    BY <1>7, <2>1 DEF LiveOK
  <2> QED BY <2>1, <2>2, <2>3, <2>4 DEF LiveOK
<1>11. Fates'
  <2>1. \A e \in Entities : fate'[e] = "new" =>
          /\ \A b \in MapBlocks : ~ Has(View'[b], disk'[b], e)
          /\ \A id \in Present' : objects'[id].entity # e
    BY <1>3, <1>5 DEF ObjectsInv, Fates, Present
  <2>2. \A id \in Present' : objects'[id].removal => fate'[objects'[id].entity] # "alive"
    BY <1>5 DEF ObjectsInv, Fates, Present
  <2>3. \E k \in 0..MaxEntities : {e \in Entities : fate'[e] # "new"} = 1..k
    BY <1>5 DEF ObjectsInv, Fates
  <2> QED BY <2>1, <2>2, <2>3 DEF Fates
<1>12. Kept'
  <2> SUFFICES ASSUME Running', NEW e \in Entities, fate'[e] = "alive" PROVE Somewhere(e)'
    BY DEF Kept
  <2>1. Somewhere(e)
    BY <1>5 DEF ObjectsInv, Kept
  <2> QED BY <1>3, <1>7, <2>1 DEF Somewhere
<1>13. Visits'
  <2>1. toRemove' \subseteq Present' /\ toVisit' \subseteq Present'
    BY <1>5 DEF ObjectsInv, Visits
  <2>2. \A id \in toRemove' : ~ Live(id)'
    BY <1>1, <1>5, <1>7 DEF ObjectsInv, Visits
  <2>3. envPc' = "force" => Present' \subseteq toVisit' \union toRemove'
    BY <1>5 DEF ObjectsInv, Visits
  <2>4. envPc' = "stopped" => \A id \in Present' : ~ Live(id)'
    BY <1>5
  <2> QED BY <2>1, <2>2, <2>3, <2>4 DEF Visits
<1> QED BY <1>4, <1>8, <1>9, <1>10, <1>11, <1>12, <1>13 DEF ObjectsInv

LEMMA EndPassOK ==
  ASSUME ObjectsInv, EndPass
  PROVE  ObjectsInv'
<1>1. /\ envPc' \in {"idle", "activate"} /\ Running /\ toVisit = {}
      /\ UNCHANGED <<activeBlocks, blocksAdded, toVisit, fate>> /\ View' = View /\ disk' = disk
      /\ content' \in Contents /\ disk' \in Disks
  BY DEF EndPass, Running, View, ObjectsInv, ObjectsTypes
<1>2. objects \in [Ids -> ActiveObject \union {Nobody}]
  BY DEF ObjectsInv, ObjectsTypes
<1>3. PICK R : /\ R \subseteq toRemove /\ toRemove' = toRemove \ R
               /\ objects' = [id \in Ids |-> IF id \in R THEN Nobody ELSE objects[id]]
  <2>1. CASE /\ objects' = [id \in Ids |-> IF id \in toRemove THEN Nobody ELSE objects[id]]
             /\ toRemove' = {}
    BY <2>1
  <2>2. CASE UNCHANGED <<objects, toRemove>>
    <3>1. PICK R : R = {}
      OBVIOUS
    <3>2. /\ R \subseteq toRemove /\ toRemove' = toRemove \ R
          /\ objects' = [id \in Ids |-> IF id \in R THEN Nobody ELSE objects[id]]
      BY <1>2, <2>2, <3>1
    <3> QED BY <3>2, Zenon
  <2> QED BY <2>1, <2>2 DEF EndPass
<1>4. Leaves(R)
  BY <1>1, <1>3 DEF Leaves
<1> QED BY <1>1, <1>3, <1>4, LeavesOK

LEMMA UnloadStaticOK ==
  ASSUME ObjectsInv, NEW b \in MapBlocks, UnloadStatic(b)
  PROVE  ObjectsInv'
<1>1. /\ content \in Contents /\ disk \in Disks /\ content[b] # Nobody
      /\ objects \in [Ids -> ActiveObject \union {Nobody}] /\ View \in Lists
      /\ Running /\ BlockOK(View[b], disk[b]) /\ View[b] = content[b]
      /\ View[b] \in StaticObjectList /\ disk[b] \in Seq(Entities)
  BY ViewType DEF UnloadStatic, ObjectsInv, ObjectsTypes, View, BlocksOK, Lists, Disks
<1>2. /\ UNCHANGED <<objects, activeBlocks, blocksAdded, envPc, toVisit, toRemove, fate>>
      /\ disk' = [disk EXCEPT ![b] = Written(View[b], disk[b])]
      /\ content' = [content EXCEPT ![b] = Nobody]
      /\ \A id \in Ids : Live(id) => objects[id].static # b
  BY <1>1 DEF UnloadStatic, envVars, Written, Present, Live, IsGone
<1>3. Written(View[b], disk[b]) \in Seq(Entities)
  BY <1>1, WrittenOK
<1>4. content' \in Contents /\ disk' \in Disks
  BY <1>1, <1>2, <1>3 DEF Contents, Disks
<1>5. \A c \in MapBlocks : c # b => content'[c] = content[c] /\ disk'[c] = disk[c]
  BY <1>1, <1>2 DEF Contents, Disks
<1>6. content'[b] = Nobody /\ disk'[b] = Written(View[b], disk[b])
  BY <1>1, <1>2 DEF Contents, Disks
<1>7. \A c \in MapBlocks : c # b => View'[c] = View[c]
  BY <1>5 DEF View, ViewOf
<1>8. View'[b] = Unloaded(disk'[b])
  BY <1>6 DEF View, ViewOf
<1>9. /\ toRemove' = toRemove \ {} /\ {} \subseteq toRemove
      /\ objects' = [id \in Ids |-> IF id \in {} THEN Nobody ELSE objects[id]]
  BY <1>1, <1>2
<1>10. Leaves({})
  BY <1>2, <1>4, <1>5, <1>6, <1>7, <1>8, <1>9 DEF Leaves
<1>11. envPc' = envPc /\ envPc \in {"idle", "deactivate", "activate", "clear", "force", "stopped"}
  BY <1>2 DEF ObjectsInv, ObjectsTypes
<1>12. (Running' <=> Running) /\ envPc # "stopped"
  BY <1>1, <1>11 DEF Running
<1> QED BY <1>9, <1>10, <1>11, <1>12, LeavesOK

LEMMA StoppedOK ==
  ASSUME ObjectsInv, Stopped
  PROVE  ObjectsInv'
<1>1. /\ content \in Contents /\ disk \in Disks /\ View \in Lists /\ BlocksOK(View, disk)
      /\ \A b \in MapBlocks :
           View[b] = IF content[b] # Nobody THEN content[b] ELSE Unloaded(disk[b])
  BY ViewType DEF ObjectsInv, ObjectsTypes, View
<1>2. \A b \in MapBlocks : Written(View[b], disk[b]) \in Seq(Entities)
  <2> SUFFICES ASSUME NEW b \in MapBlocks PROVE Written(View[b], disk[b]) \in Seq(Entities)
    OBVIOUS
  <2>1. View[b] \in StaticObjectList /\ disk[b] \in Seq(Entities) /\ BlockOK(View[b], disk[b])
    BY <1>1 DEF Lists, Disks, BlocksOK
  <2> QED BY <2>1, WrittenOK
<1>3. /\ content' = [b \in MapBlocks |-> Nobody]
      /\ disk' = [b \in MapBlocks |-> Written(View[b], disk[b])]
  <2>1. \A b \in MapBlocks : Unloaded(disk[b]).modified = FALSE
    BY DEF Unloaded
  <2>2. \A b \in MapBlocks :
          (IF content[b] # Nobody /\ content[b].modified THEN Serialized(content[b]) ELSE disk[b])
            = Written(View[b], disk[b])
    BY <1>1, <2>1 DEF Written
  <2> QED BY <2>2 DEF Stopped
<1>4. content' \in Contents /\ disk' \in Disks
  BY <1>2, <1>3 DEF Contents, Disks
<1>5. \A b \in MapBlocks : disk'[b] = Written(View[b], disk[b]) /\ View'[b] = Unloaded(disk'[b])
  BY <1>3 DEF View, ViewOf
<1>6. Present \subseteq toRemove /\ \A id \in Ids : ~ Live(id)
  BY DEF Stopped, ObjectsInv, Visits, Present, Live
<1>7. /\ toRemove' = toRemove \ toRemove /\ toVisit = {} /\ envPc' = "stopped"
      /\ objects' = [id \in Ids |-> IF id \in toRemove THEN Nobody ELSE objects[id]]
      /\ UNCHANGED <<activeBlocks, blocksAdded, toVisit, fate>>
  BY DEF Stopped
<1>8. Leaves(toRemove)
  BY <1>4, <1>5, <1>6, <1>7 DEF Leaves
<1>9. ~ Running'
  BY <1>7 DEF Running
<1> QED BY <1>6, <1>7, <1>8, <1>9, LeavesOK

LEMMA PassesStart ==
  ASSUME ObjectsInv, \/ \E S \in SUBSET MapBlocks : UpdateActiveBlocks(S)
                     \/ RemoveRemovedObjects \/ Stop
  PROVE  ObjectsInv'
<1>1. /\ envPc = "idle" /\ toVisit' = Present
      /\ UNCHANGED <<content, disk, objects, toRemove, fate>>
      /\ envPc' \in {"deactivate", "clear", "force"}
      /\ activeBlocks' \subseteq MapBlocks /\ blocksAdded' \subseteq MapBlocks
  BY DEF UpdateActiveBlocks, RemoveRemovedObjects, Stop, ObjectsInv, ObjectsTypes
<1>2. ObjectsTypes'
  BY <1>1 DEF ObjectsInv, ObjectsTypes, Present
<1>3. View' = View /\ Running
  BY <1>1 DEF View, Running
<1> QED BY <1>1, <1>2, <1>3, SameObjects

LEMMA LoadStaticOK ==
  ASSUME ObjectsInv, NEW b \in MapBlocks, LoadStatic(b)
  PROVE  ObjectsInv'
<1>1. /\ content \in Contents /\ disk \in Disks /\ content[b] = Nobody
      /\ UNCHANGED <<disk, objects, activeBlocks, blocksAdded, envPc, toVisit, toRemove, fate>>
      /\ Running /\ View = ViewOf(content, disk) /\ View \in Lists
  BY ViewType DEF LoadStatic, envVars, ObjectsInv, ObjectsTypes, View
<1>2. content' = Put(content, b, View[b]) /\ View[b] \in StaticObjectList
  BY <1>1, EmergedIsView DEF LoadStatic, Put, Lists
<1>3. content' \in Contents /\ ViewOf(content', disk) = Put(View, b, View[b])
  BY <1>1, <1>2, ViewChanged
<1>4. Put(View, b, View[b]) = View
  BY <1>1 DEF Put, Lists
<1>5. View' = View
  BY <1>1, <1>3, <1>4 DEF View
<1>6. ObjectsTypes'
  BY <1>1, <1>3 DEF ObjectsInv, ObjectsTypes
<1>7. (Running' <=> Running) /\ envPc # "stopped" /\ envPc # "force" /\ toVisit' \subseteq Present
  BY <1>1 DEF Running, ObjectsInv, Visits
<1> QED BY <1>1, <1>5, <1>6, <1>7, SameObjects

-----------------------------------------------------------------------------
(* Objects are added, for entities that have none, with their data in the  *)
(* block b; what else that block stored may be lost when it is refused.    *)
AddsObjects(b, N, ent) ==
  /\ content' \in Contents /\ disk' = disk
  /\ objects' \in [Ids -> ActiveObject \union {Nobody}]
  /\ \A id \in N : /\ objects[id] = Nobody /\ objects'[id] = NewObject(ent[id], b, b)
                    /\ \A j \in Ids : Live(j) => objects[j].entity # ent[id]
  /\ \A id \in Ids \ N : objects'[id] = objects[id]
  /\ \A i, j \in N : ent[i] = ent[j] => i = j

AddsData(b, N, ent) ==
  /\ BlocksOK(View', disk)
  /\ \A c \in MapBlocks, id \in Ids :
       View'[c].active[id] = IF c = b /\ id \in N THEN ent[id] ELSE View[c].active[id]
  /\ \A c \in MapBlocks, x \in Entities :
       /\ Has(View'[c], disk[c], x) => Has(View[c], disk[c], x) \/ \E id \in N : ent[id] = x
       /\ HasIn(View[c], x) /\ fate'[x] = "alive" => HasIn(View'[c], x)

AddsFate(N, ent) ==
  /\ fate' \in [Entities -> {"new", "alive", "removed", "refused"}]
  /\ \E k \in 0..MaxEntities : {x \in Entities : fate'[x] # "new"} = 1..k
  /\ \A x \in Entities :
       /\ fate'[x] = "new" => (fate[x] = "new" /\ \A id \in N : ent[id] # x)
       /\ fate'[x] = "alive" =>
            fate[x] = "alive" \/ (fate[x] = "new" /\ \E id \in N : ent[id] = x)

AddsPass ==
  /\ toVisit' = toVisit /\ toRemove' = toRemove
  /\ activeBlocks' \subseteq MapBlocks /\ blocksAdded' \subseteq MapBlocks
  /\ Running /\ envPc' \in {"idle", "deactivate", "activate", "clear"}

LEMMA AddsOK ==
  ASSUME ObjectsInv, NEW b \in MapBlocks, NEW N \in SUBSET Ids, NEW ent \in [N -> Entities],
         AddsObjects(b, N, ent), AddsData(b, N, ent), AddsFate(N, ent), AddsPass
  PROVE  ObjectsInv'
<1> USE DEF AddsObjects, AddsData, AddsFate, AddsPass
<1>1. ObjectsTypes'
  BY DEF ObjectsInv, ObjectsTypes
<1>2. \A id \in N :
        /\ objects'[id] # Nobody /\ objects'[id].entity = ent[id] /\ objects'[id].static = b
        /\ ~ objects'[id].removal /\ Live(id)' /\ ~ Live(id) /\ id \notin Present
  <2> SUFFICES ASSUME NEW id \in N
               PROVE  /\ objects'[id] # Nobody /\ objects'[id].entity = ent[id]
                      /\ objects'[id].static = b
                      /\ ~ objects'[id].removal /\ Live(id)' /\ ~ Live(id) /\ id \notin Present
    OBVIOUS
  <2>1. /\ NewObject(ent[id], b, b) \in ActiveObject /\ NewObject(ent[id], b, b).entity = ent[id]
        /\ NewObject(ent[id], b, b).static = b /\ ~ NewObject(ent[id], b, b).removal
        /\ ~ IsGone(NewObject(ent[id], b, b))
    BY DEF NewObject, ActiveObject, IsGone
  <2>2. objects'[id] = NewObject(ent[id], b, b) /\ objects[id] = Nobody
    OBVIOUS
  <2> QED BY <2>1, <2>2, NobodyIsNobody DEF Live, Present
<1>3. \A id \in Ids \ N : (Live(id)' <=> Live(id)) /\ objects'[id] = objects[id]
  BY DEF Live
<1>4. Present' = Present \union N /\ toRemove \subseteq Present /\ toVisit \subseteq Present
  BY <1>2, <1>3 DEF Present, ObjectsInv, Visits
<1>5. SlotsOwned'
  <2> SUFFICES ASSUME NEW c \in MapBlocks, NEW id \in Ids, View'[c].active[id] # Nobody
               PROVE  /\ objects'[id] # Nobody /\ objects'[id].static = c
                      /\ objects'[id].entity = View'[c].active[id] /\ id \notin toRemove'
    BY DEF SlotsOwned
  <2>1. CASE id \notin N
    BY <1>3, <2>1 DEF ObjectsInv, SlotsOwned
  <2>2. CASE id \in N
    <3>1. ~ (c = b /\ id \in N) => View[c].active[id] # Nobody
      OBVIOUS
    <3>2. View[c].active[id] # Nobody => objects[id] # Nobody
      BY DEF ObjectsInv, SlotsOwned
    <3>3. c = b
      BY <2>2, <3>1, <3>2
    <3> QED BY <1>2, <1>4, <2>2, <3>3
  <2> QED BY <2>1, <2>2
<1>6. ASSUME NEW id \in Ids, Live(id)' PROVE LiveOK(id)'
  <2>1. CASE id \in N
    <3>1. \A j \in Ids : Live(j)' /\ objects'[j].entity = ent[id] => j = id
      BY <1>2, <1>3, <2>1
    <3>2. b # Nowhere /\ View'[b].active[id] = ent[id]
      BY <2>1, NobodyIsNobody
    <3> QED BY <1>2, <2>1, <3>1, <3>2 DEF LiveOK
  <2>2. CASE id \notin N
    <3>1. /\ Live(id) /\ LiveOK(id) /\ objects'[id] = objects[id]
          /\ objects[id].entity \in Entities /\ objects[id].static \in MapBlocks \union {Nowhere}
      BY <1>3, <1>6, <2>2 DEF ObjectsInv, ObjectsTypes, ActiveObject, Live
    <3>2. \A j \in N : ent[j] # objects[id].entity
      BY <3>1
    <3>3. \A j \in Ids : Live(j)' /\ objects'[j].entity = objects'[id].entity => j = id
      BY <1>2, <1>3, <3>1, <3>2 DEF LiveOK
    <3>4. objects[id].static = Nowhere =>
            \A c \in MapBlocks : ~ Has(View'[c], disk[c], objects[id].entity)
      BY <3>1, <3>2 DEF LiveOK
    <3>5. objects[id].static # Nowhere =>
            View'[objects[id].static].active[id] = objects[id].entity
      BY <2>2, <3>1 DEF LiveOK
    <3> QED BY <3>1, <3>3, <3>4, <3>5 DEF LiveOK
  <2> QED BY <2>1, <2>2
<1>7. Fates'
  <2>1. ASSUME NEW x \in Entities, fate'[x] = "new"
        PROVE  /\ \A c \in MapBlocks : ~ Has(View'[c], disk'[c], x)
               /\ \A id \in Present' : objects'[id].entity # x
    <3>1. fate[x] = "new" /\ \A id \in N : ent[id] # x
      BY <2>1
    <3>2. /\ \A c \in MapBlocks : ~ Has(View[c], disk[c], x)
          /\ \A id \in Present : objects[id].entity # x
      BY <3>1 DEF ObjectsInv, Fates
    <3>3. \A c \in MapBlocks : ~ Has(View'[c], disk'[c], x)
      BY <3>1, <3>2
    <3>4. \A id \in Present' : objects'[id].entity # x
      BY <1>2, <1>3, <1>4, <3>1, <3>2 DEF Present
    <3> QED BY <3>3, <3>4
  <2>2. ASSUME NEW id \in Present', objects'[id].removal
        PROVE  fate'[objects'[id].entity] # "alive"
    <3>1. id \in Present /\ id \in Ids \ N /\ objects'[id] = objects[id]
          /\ objects[id].entity \in Entities
      BY <1>2, <1>3, <1>4, <2>2 DEF Present, ObjectsInv, ObjectsTypes, ActiveObject
    <3>2. fate[objects[id].entity] # "alive" /\ fate[objects[id].entity] # "new"
      BY <2>2, <3>1 DEF ObjectsInv, Fates
    <3> QED BY <3>1, <3>2
  <2> QED BY <2>1, <2>2 DEF Fates
<1>8. Kept'
  <2> SUFFICES ASSUME NEW x \in Entities, fate'[x] = "alive" PROVE Somewhere(x)'
    BY DEF Kept
  <2>1. CASE \E id \in N : ent[id] = x
    BY <1>2, <2>1 DEF Somewhere
  <2>2. CASE ~ \E id \in N : ent[id] = x
    <3>1. fate[x] = "alive"
      BY <2>2
    <3>2. Somewhere(x)
      BY <3>1 DEF ObjectsInv, Kept
    <3>3. \A id \in Ids : Live(id) => Live(id)' /\ objects'[id] = objects[id]
      BY <1>2, <1>3
    <3> QED BY <3>2, <3>3 DEF Somewhere
  <2> QED BY <2>1, <2>2
<1>9. Visits'
  <2>1. \A id \in toRemove' : ~ Live(id)'
    BY <1>2, <1>3, <1>4 DEF ObjectsInv, Visits, Present
  <2> QED BY <1>4, <2>1 DEF Visits
<1>10. BlocksOK(View, disk)'
  OBVIOUS
<1> QED BY <1>1, <1>5, <1>6, <1>7, <1>8, <1>9, <1>10 DEF ObjectsInv

LEMMA SpawnOK ==
  ASSUME ObjectsInv, NEW e \in Entities, NEW b \in MapBlocks, Spawn(e, b)
  PROVE  ObjectsInv'
<1>1. /\ content \in Contents /\ disk \in Disks /\ View \in Lists /\ BlocksOK(View, disk)
      /\ View = ViewOf(content, disk) /\ objects \in [Ids -> ActiveObject \union {Nobody}]
      /\ fate \in [Entities -> {"new", "alive", "removed", "refused"}] /\ Running
      /\ UNCHANGED <<disk, activeBlocks, blocksAdded, envPc, toVisit, toRemove>>
  BY ViewType DEF ObjectsInv, ObjectsTypes, View, Spawn, envVars
<1>2. PICK id \in FreeIds :
        /\ objects' = [objects EXCEPT ![id] = NewObject(e, b, b)]
        /\ content' = [content EXCEPT ![b] =
             [Emerged(content, b) EXCEPT !.active[id] = e, !.modified = TRUE]]
  <2>1. \E i \in FreeIds : \A j \in FreeIds : i <= j
    <3>1. FreeIds \subseteq Nat /\ FreeIds # {}
      BY ObjectsAssumption DEF FreeIds, Spawn
    <3> QED BY <3>1, LeastNatural
  <2>2. (CHOOSE i \in FreeIds : \A j \in FreeIds : i <= j) \in FreeIds
    BY <2>1
  <2> QED BY <2>2 DEF Spawn
<1>3. id \in Ids /\ objects[id] = Nobody
  BY DEF FreeIds, Present
<1>4. \A c \in MapBlocks : View[c].active[id] = Nobody
  BY <1>3 DEF ObjectsInv, SlotsOwned
<1>5. /\ fate[e] = "new" /\ fate' = [fate EXCEPT ![e] = "alive"]
      /\ \E l \in 0..MaxEntities : {x \in Entities : fate'[x] # "new"} = 1..l
  <2>1. PICK k \in 0..MaxEntities : {x \in Entities : fate[x] # "new"} = 1..k
    BY DEF ObjectsInv, Fates
  <2>2. k \in Nat /\ MaxEntities \in Nat /\ Cardinality(1..k) = k
    BY ObjectsAssumption, FS_Interval
  <2>3. e = k + 1 /\ fate' = [fate EXCEPT ![e] = "alive"]
    <3> DEFINE old == {d \in Entities : fate[d] # "new"}
    <3>1. e = 1 + Cardinality(old) /\ fate' = [fate EXCEPT ![e] = "alive"]
      BY DEF Spawn
    <3>2. old = 1..k
      BY <2>1
    <3> HIDE DEF old
    <3> QED BY <2>2, <3>1, <3>2
  <2>4. k + 1 \in 0..MaxEntities /\ 1..(k + 1) = (1..k) \union {k + 1} /\ k + 1 \notin 1..k
    BY <2>2, <2>3 DEF Entities
  <2>5. fate[e] = "new"
    BY <2>1, <2>3, <2>4
  <2>6. {x \in Entities : fate'[x] # "new"} = 1..(k + 1)
    BY <1>1, <2>1, <2>3, <2>4
  <2> QED BY <2>3, <2>4, <2>5, <2>6
<1>6. /\ \A c \in MapBlocks : ~ Has(View[c], disk[c], e)
      /\ \A c \in MapBlocks : ~ HasIn(View[c], e)
      /\ \A j \in Present : objects[j].entity # e
  BY <1>5 DEF ObjectsInv, Fates, Has
<1>7. PICK v \in Lists, d \in Disks, yes \in BOOLEAN, no \in BOOLEAN :
        v = View /\ d = disk /\ yes /\ ~ no
  BY <1>1
<1> DEFINE n == Saved(v[b], id, e, no, yes)
           w == SavedIn(v, b, id, e, no, yes)
<1>8. DataSaved(w, v, d, b, id, e, no)
  <2>1. /\ BlocksOK(v, d) /\ ~ HasIn(v[b], e) /\ v[b].active[id] = Nobody
        /\ \A c \in MapBlocks \ {b} : ~ Has(v[c], d[c], e)
        /\ yes \/ v[b].modified \/ e \in Range(d[b])
    BY <1>1, <1>4, <1>6, <1>7
  <2> QED BY <1>3, <2>1, SavedOK
<1> USE DEF DataSaved
<1>9. w = Put(v, b, n) /\ n \in StaticObjectList
  <2>1. w = Put(v, b, n)
    BY DEF SavedIn
  <2> HIDE DEF n, w
  <2>2. w[b] = n
    BY <2>1 DEF Put, Lists
  <2> QED BY <1>8, <2>1, <2>2 DEF Lists
<1>10. content' = Put(content, b, n)
  <2>1. /\ v[b] \in StaticObjectList /\ v[b].active[id] = Nobody
        /\ v[b].active \in [Ids -> Entities \union {Nobody}] /\ v[b].modified \in BOOLEAN
    BY <1>4, <1>7 DEF Lists, StaticObjectList
  <2>2. n = [v[b] EXCEPT !.active[id] = e, !.modified = TRUE]
    BY <1>3, <1>7, <2>1 DEF Saved, StaticObjectList
  <2>3. Emerged(content, b) = v[b]
    BY <1>1, <1>7, EmergedIsView
  <2> HIDE DEF n
  <2> QED BY <1>2, <2>2, <2>3 DEF Put
<1> HIDE DEF n, w
<1>11. content' \in Contents /\ View' = w
  <2>1. content' \in Contents /\ ViewOf(content', disk) = Put(View, b, n)
    BY <1>1, <1>9, <1>10, ViewChanged
  <2>2. View' = ViewOf(content', disk)
    BY <1>1 DEF View
  <2> QED BY <1>7, <1>9, <2>1, <2>2
<1>12. PICK N \in SUBSET Ids : N = {id}
  BY <1>3
<1>13. PICK ent \in [N -> Entities] : ent[id] = e /\ \A i \in N : i = id
  <2>1. [i \in N |-> e] \in [N -> Entities] /\ [i \in N |-> e][id] = e
    BY <1>12
  <2> QED BY <1>12, <2>1
<1>14. AddsObjects(b, N, ent)
  <2>1. NewObject(e, b, b) \in ActiveObject
    BY NobodyIsNobody DEF NewObject, ActiveObject
  <2>2. /\ objects' \in [Ids -> ActiveObject \union {Nobody}] /\ objects'[id] = NewObject(e, b, b)
        /\ \A i \in Ids \ N : objects'[i] = objects[i]
    BY <1>1, <1>2, <1>3, <1>13, <1>12, <2>1
  <2>3. \A j \in Ids : Live(j) => objects[j].entity # e
    BY <1>6 DEF Present, Live
  <2> QED BY <1>1, <1>3, <1>11, <1>13, <1>12, <2>2, <2>3 DEF AddsObjects
<1>15. AddsData(b, N, ent)
  <2>1. \A c \in MapBlocks, i \in Ids :
          View'[c].active[i] = IF c = b /\ i \in N THEN ent[i] ELSE View[c].active[i]
    BY <1>7, <1>8, <1>11, <1>13, <1>12
  <2>2. \A c \in MapBlocks, x \in Entities :
          /\ Has(View'[c], disk[c], x) => Has(View[c], disk[c], x) \/ \E i \in N : ent[i] = x
          /\ HasIn(View[c], x) => HasIn(View'[c], x)
    BY <1>6, <1>7, <1>8, <1>11, <1>13, <1>12
  <2> QED BY <1>7, <1>8, <1>11, <2>1, <2>2 DEF AddsData
<1>16. AddsFate(N, ent)
  <2>1. \A x \in Entities : fate'[x] = IF x = e THEN "alive" ELSE fate[x]
    BY <1>1, <1>5
  <2> QED BY <1>1, <1>5, <1>13, <1>12, <2>1 DEF AddsFate
<1>17. AddsPass
  BY <1>1 DEF AddsPass, Running, ObjectsInv, ObjectsTypes
<1> QED BY <1>13, <1>12, <1>14, <1>15, <1>16, <1>17, AddsOK

(* A block that stores too many loses the last ones.                       *)
LEMMA TruncateOK ==
  ASSUME ObjectsInv, NEW b \in MapBlocks, b \in blocksAdded, AddsPass, UNCHANGED disk,
         content[b] # Nobody, Len(content[b].stored) > MaxPerBlock, ActivateObjects(b)
  PROVE  ObjectsInv'
<1>1. /\ content \in Contents /\ disk \in Disks /\ View \in Lists /\ BlocksOK(View, disk)
      /\ View = ViewOf(content, disk) /\ View[b] = content[b] /\ View[b] \in StaticObjectList
      /\ fate \in [Entities -> {"new", "alive", "removed", "refused"}]
      /\ objects \in [Ids -> ActiveObject \union {Nobody}] /\ MaxPerBlock \in Nat
  BY ViewType, ObjectsAssumption DEF ObjectsInv, ObjectsTypes, View, Lists
<1> DEFINE block == View[b]
           n == Len(block.stored)
           less == SubSeq(block.stored, 1, MaxPerBlock)
           new == [block EXCEPT !.stored = less, !.modified = TRUE]
           Lost(x) == \E i \in MaxPerBlock + 1 .. n : block.stored[i] = x
<1>2. /\ content' = [content EXCEPT ![b].stored = SubSeq(@, 1, MaxPerBlock), ![b].modified = TRUE]
      /\ fate' = [x \in Entities |-> IF Lost(x) THEN "refused" ELSE fate[x]]
      /\ objects' = objects
  BY <1>1 DEF ActivateObjects
<1>3. /\ block.stored \in Seq(Entities) /\ n \in Nat /\ n > MaxPerBlock
      /\ DOMAIN block.stored = 1..n
  BY <1>1 DEF StaticObjectList
<1>4. /\ less \in Seq(Entities) /\ DOMAIN less = 1..MaxPerBlock
      /\ \A i \in 1..MaxPerBlock : less[i] = block.stored[i] /\ i \in 1..n
  BY <1>1, <1>3
<1>5. \A x \in Entities : (x \in Range(less) => x \in Range(block.stored))
        /\ (x \in Range(block.stored) => x \in Range(less) \/ Lost(x))
        /\ (Lost(x) => x \in Range(block.stored))
  <2> HIDE DEF less, block
  <2>1. \A i \in 1..n : i \in 1..MaxPerBlock \/ i \in MaxPerBlock + 1 .. n
    BY <1>1, <1>3
  <2>2. \A i \in MaxPerBlock + 1 .. n : i \in 1..n
    BY <1>1, <1>3
  <2> HIDE DEF n
  <2> QED BY <1>3, <1>4, <2>1, <2>2 DEF Range
<1>6. IsInjective(less)
  <2>1. IsInjective(block.stored)
    BY <1>1 DEF BlocksOK, BlockOK
  <2> HIDE DEF less, block
  <2> QED BY <1>3, <1>4, <2>1 DEF IsInjective
<1>7. /\ new.stored = less /\ new.modified = TRUE /\ new.active = block.active
      /\ new \in StaticObjectList
  <2> HIDE DEF less
  <2> QED BY <1>1, <1>4 DEF StaticObjectList
<1>8. content' = Put(content, b, new)
  BY <1>1, <1>2 DEF Put, Contents, StaticObjectList
<1> HIDE DEF new, less
<1>9. Nobody \notin Range(less) /\ \A id \in Ids : block.active[id] \notin Range(less)
  <2>1. \A id \in Ids : block.active[id] \notin Range(block.stored)
                      /\ block.active[id] \in Entities \union {Nobody}
    BY <1>1 DEF BlocksOK, BlockOK, StaticObjectList
  <2>2. Nobody \notin Range(less)
    BY <1>4, NobodyIsNobody, RangeIn
  <2> QED BY <1>5, <2>1, <2>2
<1>10. \A x \in Entities : (HasIn(new, x) => HasIn(block, x))
         /\ (HasIn(block, x) => HasIn(new, x) \/ Lost(x)) /\ (Lost(x) => HasIn(block, x))
  <2> HIDE DEF block, Lost
  <2> QED BY <1>5, <1>7 DEF HasIn
<1>11. BlockOK(new, disk[b])
  BY <1>1, <1>6, <1>7, <1>9 DEF BlockOK, BlocksOK
<1>12. PICK v \in Lists, d \in Disks : v = View /\ d = disk
  BY <1>1
<1>13. Put(v, b, new) \in Lists /\ BlocksOK(Put(v, b, new), d)
  <2>1. \A x \in Entities : Has(new, d[b], x) => Has(v[b], d[b], x)
    BY <1>7, <1>10, <1>12 DEF Has
  <2> QED BY <1>1, <1>7, <1>11, <1>12, <2>1, ChangeBlock
<1>14. content' \in Contents /\ View' = Put(v, b, new)
  <2>1. content' \in Contents /\ ViewOf(content', disk) = Put(View, b, new)
    BY <1>1, <1>7, <1>8, ViewChanged
  <2>2. View' = ViewOf(content', disk)
    BY DEF View
  <2> QED BY <1>12, <2>1, <2>2
<1>15. View'[b] = new /\ \A c \in MapBlocks : c # b => View'[c] = View[c]
  BY <1>1, <1>12, <1>14 DEF Put, Lists
<1>16. \A x \in Entities : fate'[x] = IF Lost(x) THEN "refused" ELSE fate[x]
  <2> HIDE DEF Lost
  <2> QED BY <1>2
<1>17. \A x \in Entities : Lost(x) => fate[x] # "new"
  BY <1>10 DEF ObjectsInv, Fates, Has
<1>18. PICK N \in SUBSET Ids : N = {}
  OBVIOUS
<1>19. PICK ent \in [N -> Entities] : TRUE
  <2>1. [i \in N |-> 1] \in [N -> Entities]
    BY <1>18
  <2> QED BY <2>1
<1>20. AddsObjects(b, N, ent)
  BY <1>1, <1>2, <1>14, <1>18 DEF AddsObjects
<1>21. AddsData(b, N, ent)
  <2>1. BlocksOK(View', disk)
    BY <1>12, <1>13, <1>14
  <2>2. \A c \in MapBlocks, id \in Ids :
          View'[c].active[id] = IF c = b /\ id \in N THEN ent[id] ELSE View[c].active[id]
    BY <1>7, <1>15, <1>18
  <2>3. \A c \in MapBlocks, x \in Entities :
          /\ Has(View'[c], disk[c], x) => Has(View[c], disk[c], x)
          /\ (HasIn(View[c], x) /\ fate'[x] = "alive") => HasIn(View'[c], x)
    <3> SUFFICES ASSUME NEW c \in MapBlocks, NEW x \in Entities
                 PROVE  /\ Has(View'[c], disk[c], x) => Has(View[c], disk[c], x)
                        /\ (HasIn(View[c], x) /\ fate'[x] = "alive") => HasIn(View'[c], x)
      OBVIOUS
    <3>1. CASE c # b
      BY <1>15, <3>1
    <3>2. CASE c = b
      <4> HIDE DEF Lost
      <4> QED BY <1>7, <1>10, <1>15, <1>16, <3>2 DEF Has
    <3> QED BY <3>1, <3>2
  <2> QED BY <2>1, <2>2, <2>3 DEF AddsData
<1>22. AddsFate(N, ent)
  <2> HIDE DEF Lost
  <2>1. fate' \in [Entities -> {"new", "alive", "removed", "refused"}]
    BY <1>1, <1>2
  <2>2. {x \in Entities : fate'[x] # "new"} = {x \in Entities : fate[x] # "new"}
    BY <1>16, <1>17
  <2>3. \E k \in 0..MaxEntities : {x \in Entities : fate'[x] # "new"} = 1..k
    BY <2>2 DEF ObjectsInv, Fates
  <2> QED BY <1>16, <1>18, <2>1, <2>3 DEF AddsFate
<1> QED BY <1>18, <1>19, <1>20, <1>21, <1>22, AddsOK

(* All that a block stores becomes active, under free ids.                 *)
LEMMA ActivationOK ==
  ASSUME ObjectsInv, NEW b \in MapBlocks, b \in blocksAdded, AddsPass, UNCHANGED disk,
         content[b] # Nobody, ~ Len(content[b].stored) > MaxPerBlock, ActivateObjects(b)
  PROVE  ObjectsInv'
<1>1. /\ content \in Contents /\ disk \in Disks /\ View \in Lists /\ BlocksOK(View, disk)
      /\ View = ViewOf(content, disk) /\ View[b] = content[b] /\ View[b] \in StaticObjectList
      /\ fate \in [Entities -> {"new", "alive", "removed", "refused"}]
      /\ objects \in [Ids -> ActiveObject \union {Nobody}]
  BY ViewType DEF ObjectsInv, ObjectsTypes, View, Lists
<1> DEFINE block == content[b]
           n == Len(block.stored)
           m == Cardinality(FreeIds)
           ids == Ordered(FreeIds)
           Index(id) == CHOOSE i \in DOMAIN ids : ids[i] = id
           N == {ids[i] : i \in 1..n}
           ent == [id \in N |-> block.stored[Index(id)]]
           new == [block EXCEPT !.active = [id \in Ids |-> IF id \in N THEN ent[id] ELSE @[id]],
                                !.stored = <<>>]
<1>2. /\ block.stored \in Seq(Entities) /\ n \in Nat /\ DOMAIN block.stored = 1..n
      /\ block.active \in [Ids -> Entities \union {Nobody}]
  BY <1>1 DEF StaticObjectList
<1>3. /\ ids \in [1..m -> FreeIds] /\ m \in Nat
      /\ \A i, j \in 1..m : ids[i] = ids[j] => i = j
  <2>1. FreeIds \in SUBSET Ids /\ FreeIds \subseteq Nat /\ IsFiniteSet(FreeIds)
    BY ObjectsAssumption, FS_Subset DEF FreeIds
  <2> QED BY <2>1, OrderedOnce
<1>4. DOMAIN ids = 1..m /\ Len(ids) = m
  <2> HIDE DEF ids, m
  <2> QED BY <1>3
<1>5. /\ n <= m /\ fate' = fate
      /\ objects' = [id \in Ids |-> IF id \in N THEN NewObject(block.stored[Index(id)], b, b)
                                    ELSE objects[id]]
      /\ content' = [content EXCEPT
            ![b].active = [id \in Ids |-> IF id \in N THEN block.stored[Index(id)] ELSE @[id]],
            ![b].stored = <<>>]
  <2>1. ~ Len(content[b].stored) > MaxPerBlock
    OBVIOUS
  <2>2. n <= Len(ids)
    BY <1>1 DEF ActivateObjects
  <2>3. fate' = fate
    BY <1>1 DEF ActivateObjects
  <2>4. objects' = [id \in Ids |-> IF id \in N THEN NewObject(block.stored[Index(id)], b, b)
                                  ELSE objects[id]]
    BY <1>1 DEF ActivateObjects
  <2>5. content' = [content EXCEPT
            ![b].active = [id \in Ids |-> IF id \in N THEN block.stored[Index(id)] ELSE @[id]],
            ![b].stored = <<>>]
    BY <1>1 DEF ActivateObjects, StoredAfterActivation
  <2> QED BY <1>4, <2>2, <2>3, <2>4, <2>5
<1>6. \A i \in 1..n : i \in 1..m /\ ids[i] \in FreeIds /\ ids[i] \in N /\ Index(ids[i]) = i
  <2>1. \A i \in 1..n : i \in 1..m
    BY <1>2, <1>3, <1>5
  <2> QED BY <1>3, <1>4, <2>1
<1>7. \A id \in N : /\ id \in Ids /\ objects[id] = Nobody /\ Index(id) \in 1..n
                    /\ ids[Index(id)] = id /\ block.stored[Index(id)] \in Entities
  <2> SUFFICES ASSUME NEW id \in N
               PROVE  /\ id \in Ids /\ objects[id] = Nobody /\ Index(id) \in 1..n
                      /\ ids[Index(id)] = id /\ block.stored[Index(id)] \in Entities
    OBVIOUS
  <2>1. PICK i \in 1..n : id = ids[i]
    OBVIOUS
  <2>2. Index(id) = i /\ id \in FreeIds
    BY <1>6, <2>1
  <2> HIDE DEF Index, ids, block, n, N
  <2> QED BY <1>2, <2>1, <2>2 DEF FreeIds, Present
<1> HIDE DEF Index, ids, m
<1>8. /\ N \in SUBSET Ids /\ ent \in [N -> Entities]
      /\ \A id \in N : ent[id] = block.stored[Index(id)] /\ ent[id] \in Range(block.stored)
      /\ \A x \in Entities : x \in Range(block.stored) => \E id \in N : ent[id] = x
      /\ \A i, j \in N : ent[i] = ent[j] => i = j
  <2>1. N \in SUBSET Ids /\ ent \in [N -> Entities]
    BY <1>7
  <2>2. \A id \in N : ent[id] = block.stored[Index(id)]
    OBVIOUS
  <2>3. \A i \in 1..n : ids[i] \in N /\ ent[ids[i]] = block.stored[i]
    BY <1>6
  <2> HIDE DEF N, ent
  <2>4. \A id \in N : ent[id] \in Range(block.stored)
    BY <1>2, <1>7, <2>2 DEF Range
  <2>5. \A x \in Entities : x \in Range(block.stored) => \E id \in N : ent[id] = x
    BY <1>2, <2>3 DEF Range
  <2>6. IsInjective(block.stored)
    BY <1>1 DEF BlocksOK, BlockOK
  <2>7. \A i, j \in N : ent[i] = ent[j] => i = j
    <3> SUFFICES ASSUME NEW i \in N, NEW j \in N, ent[i] = ent[j] PROVE i = j
      OBVIOUS
    <3>1. Index(i) \in 1..n /\ Index(j) \in 1..n
          /\ block.stored[Index(i)] = block.stored[Index(j)]
      BY <1>7, <2>2
    <3>2. Index(i) = Index(j)
      BY <1>2, <2>6, <3>1 DEF IsInjective
    <3> QED BY <1>7, <3>2
  <2> QED BY <2>1, <2>2, <2>4, <2>5, <2>7
<1>9. \A id \in N : View[b].active[id] = Nobody
                   /\ \A c \in MapBlocks : View[c].active[id] = Nobody
  BY <1>7 DEF ObjectsInv, SlotsOwned
<1>10. /\ new.stored = <<>> /\ new.modified = block.modified
       /\ new.active \in [Ids -> Entities \union {Nobody}]
       /\ \A id \in Ids : new.active[id] = IF id \in N THEN ent[id] ELSE block.active[id]
       /\ new \in StaticObjectList
  <2> DEFINE act == [id \in Ids |-> IF id \in N THEN ent[id] ELSE block.active[id]]
  <2> HIDE DEF N, ent
  <2>1. act \in [Ids -> Entities \union {Nobody}]
    BY <1>2, <1>8
  <2>2. new = [[block EXCEPT !.active = act] EXCEPT !.stored = <<>>]
    BY <1>1 DEF StaticObjectList
  <2>3. \A id \in Ids : act[id] = IF id \in N THEN ent[id] ELSE block.active[id]
    OBVIOUS
  <2>4. <<>> \in Seq(Entities)
    OBVIOUS
  <2> HIDE DEF act, new
  <2> QED BY <1>1, <2>1, <2>2, <2>3, <2>4 DEF StaticObjectList
<1>11. content' = Put(content, b, new)
  <2>1. \A id \in N : ent[id] = block.stored[Index(id)]
    BY <1>8
  <2> DEFINE act == [id \in Ids |-> IF id \in N THEN ent[id] ELSE block.active[id]]
             act2 == [id \in Ids |-> IF id \in N THEN block.stored[Index(id)]
                                     ELSE block.active[id]]
  <2> HIDE DEF N, ent
  <2>2. act = act2
    BY <2>1
  <2>3. content' = [[content EXCEPT ![b].active = act2] EXCEPT ![b].stored = <<>>]
    BY <1>1, <1>5 DEF Contents, StaticObjectList
  <2>4. new = [[block EXCEPT !.active = act] EXCEPT !.stored = <<>>]
    BY <1>1 DEF StaticObjectList
  <2> HIDE DEF act, act2, new
  <2> QED BY <1>1, <2>2, <2>3, <2>4 DEF Put, Contents, StaticObjectList
<1> HIDE DEF new, N, ent
<1>12. \A x \in Entities : HasIn(new, x) <=> HasIn(block, x)
  <2> SUFFICES ASSUME NEW x \in Entities PROVE HasIn(new, x) <=> HasIn(block, x)
    OBVIOUS
  <2>1. Range(new.stored) = {} /\ x # Nobody
    BY <1>10, NobodyIsNobody DEF Range
  <2>2. ASSUME HasIn(new, x) PROVE HasIn(block, x)
    BY <1>8, <1>10, <2>1, <2>2 DEF HasIn
  <2>3. ASSUME HasIn(block, x) PROVE HasIn(new, x)
    <3>1. CASE x \in Range(block.stored)
      <4>1. PICK id \in N : ent[id] = x
        BY <1>8, <3>1
      <4>2. id \in Ids /\ new.active[id] = x
        BY <1>8, <1>10, <4>1
      <4> QED BY <4>2 DEF HasIn
    <3>2. CASE \E id \in Ids : block.active[id] = x
      BY <1>1, <1>9, <1>10, <2>1, <3>2 DEF HasIn
    <3> QED BY <2>3, <3>1, <3>2 DEF HasIn
  <2> QED BY <2>2, <2>3
<1>13. BlockOK(new, disk[b])
  <2>1. BlockOK(block, disk[b])
    BY <1>1 DEF BlocksOK
  <2>2. IsInjective(new.stored) /\ Range(new.stored) = {}
    BY <1>10 DEF IsInjective, Range
  <2>3. \A i, j \in Ids : (new.active[i] = new.active[j] /\ new.active[i] # Nobody) => i = j
    <3> SUFFICES ASSUME NEW i \in Ids, NEW j \in Ids, new.active[i] = new.active[j],
                        new.active[i] # Nobody
                 PROVE  i = j
      OBVIOUS
    <3>1. \A id \in Ids : block.active[id] \notin Range(block.stored)
      BY <2>1 DEF BlockOK
    <3>2. CASE i \in N /\ j \in N
      BY <1>8, <1>10, <3>2
    <3>3. CASE i \in N /\ j \notin N
      BY <1>8, <1>10, <3>1, <3>3
    <3>4. CASE i \notin N /\ j \in N
      BY <1>8, <1>10, <3>1, <3>4
    <3>5. CASE i \notin N /\ j \notin N
      BY <1>10, <2>1, <3>5 DEF BlockOK
    <3> QED BY <3>2, <3>3, <3>4, <3>5
  <2>4. new.modified \/ ( /\ IsInjective(disk[b])
                          /\ \A x \in Entities : HasIn(new, x) => x \in Range(disk[b]))
    BY <1>10, <1>12, <2>1 DEF BlockOK
  <2> QED BY <2>2, <2>3, <2>4 DEF BlockOK
<1>14. PICK v \in Lists, d \in Disks : v = View /\ d = disk
  BY <1>1
<1>15. Put(v, b, new) \in Lists /\ BlocksOK(Put(v, b, new), d)
  <2>1. \A x \in Entities : Has(new, d[b], x) => Has(v[b], d[b], x)
    BY <1>1, <1>10, <1>12, <1>14 DEF Has
  <2> QED BY <1>1, <1>10, <1>13, <1>14, <2>1, ChangeBlock
<1>16. content' \in Contents /\ View' = Put(v, b, new)
  <2>1. content' \in Contents /\ ViewOf(content', disk) = Put(View, b, new)
    BY <1>1, <1>10, <1>11, ViewChanged
  <2>2. View' = ViewOf(content', disk)
    BY DEF View
  <2> QED BY <1>14, <2>1, <2>2
<1>17. View'[b] = new /\ \A c \in MapBlocks : c # b => View'[c] = View[c]
  BY <1>1, <1>14, <1>16 DEF Put, Lists
<1>18. \A id \in N : HasIn(View[b], ent[id]) /\ Has(View[b], disk[b], ent[id])
  BY <1>1, <1>8 DEF HasIn, Has
<1>19. ASSUME NEW id \in N, NEW j \in Ids, Live(j) PROVE objects[j].entity # ent[id]
  <2> SUFFICES ASSUME objects[j].entity = ent[id] PROVE FALSE
    OBVIOUS
  <2>1. /\ LiveOK(j) /\ objects[j].static \in MapBlocks \union {Nowhere}
        /\ ent[id] \in Entities
    BY <1>1, <1>8, <1>19 DEF ObjectsInv, ActiveObject, Live
  <2>2. CASE objects[j].static = Nowhere
    BY <1>18, <2>1, <2>2 DEF LiveOK
  <2>3. CASE objects[j].static # Nowhere
    <3>1. PICK c \in MapBlocks : c = objects[j].static
      BY <2>1, <2>3
    <3>2. View[c].active[j] = ent[id]
      BY <2>1, <2>3, <3>1 DEF LiveOK
    <3>3. Has(View[c], disk[c], ent[id])
      BY <3>2 DEF Has, HasIn
    <3>4. c = b
      BY <1>1, <1>18, <2>1, <3>3 DEF BlocksOK
    <3> QED BY <1>1, <1>8, <3>2, <3>4 DEF BlocksOK, BlockOK
  <2> QED BY <2>2, <2>3
<1>20. AddsObjects(b, N, ent)
  <2>1. /\ \A id \in N : objects'[id] = NewObject(ent[id], b, b)
        /\ \A id \in Ids \ N : objects'[id] = objects[id]
    BY <1>5, <1>8
  <2>2. objects' \in [Ids -> ActiveObject \union {Nobody}]
    <3>1. \A id \in N : NewObject(ent[id], b, b) \in ActiveObject
      BY <1>8, NobodyIsNobody DEF NewObject, ActiveObject
    <3>2. objects' = [id \in Ids |-> objects'[id]]
      BY <1>5
    <3> QED BY <1>1, <2>1, <3>1, <3>2
  <2> QED BY <1>7, <1>8, <1>16, <1>19, <2>1, <2>2 DEF AddsObjects
<1>21. AddsData(b, N, ent)
  <2>1. BlocksOK(View', disk)
    BY <1>14, <1>15, <1>16
  <2>2. \A c \in MapBlocks, id \in Ids :
          View'[c].active[id] = IF c = b /\ id \in N THEN ent[id] ELSE View[c].active[id]
    BY <1>1, <1>10, <1>17
  <2>3. \A c \in MapBlocks, x \in Entities :
          /\ Has(View'[c], disk[c], x) => Has(View[c], disk[c], x)
          /\ HasIn(View[c], x) => HasIn(View'[c], x)
    BY <1>1, <1>10, <1>12, <1>17 DEF Has
  <2> QED BY <2>1, <2>2, <2>3 DEF AddsData
<1>22. AddsFate(N, ent)
  <2>1. \A x \in Entities : fate'[x] = "new" => \A id \in N : ent[id] # x
    BY <1>5, <1>18 DEF ObjectsInv, Fates
  <2> QED BY <1>1, <1>5, <2>1 DEF AddsFate, ObjectsInv, Fates
<1> QED BY <1>8, <1>20, <1>21, <1>22, AddsOK

LEMMA ActivateBlockOK ==
  ASSUME ObjectsInv, NEW b \in MapBlocks, ActivateBlock(b)
  PROVE  ObjectsInv'
<1>1. /\ UNCHANGED disk /\ toVisit' = toVisit /\ toRemove' = toRemove /\ b \in blocksAdded
      /\ activeBlocks' \subseteq MapBlocks /\ blocksAdded' \subseteq MapBlocks
      /\ Running /\ Running' /\ envPc' \in {"idle", "activate"} /\ toVisit \subseteq Present
  BY DEF ActivateBlock, ObjectsInv, ObjectsTypes, Running, Visits
<1>2. AddsPass
  BY <1>1 DEF AddsPass
<1>3. CASE content[b] = Nobody
  <2>1. UNCHANGED <<content, objects, fate>>
    BY <1>3 DEF ActivateBlock
  <2>2. View' = View
    BY <1>1, <2>1 DEF View
  <2>3. ObjectsTypes'
    BY <1>1, <2>1 DEF ObjectsInv, ObjectsTypes
  <2> QED BY <1>1, <2>1, <2>2, <2>3, SameObjects
<1>4. CASE content[b] # Nobody
  <2>1. ActivateObjects(b)
    BY <1>4 DEF ActivateBlock
  <2> QED BY <1>1, <1>2, <1>4, <2>1, TruncateOK, ActivationOK
<1> QED BY <1>3, <1>4

-----------------------------------------------------------------------------
LEMMA ObjectsInitInv == ObjectsInit => ObjectsInv
<1> SUFFICES ASSUME ObjectsInit PROVE ObjectsInv
  OBVIOUS
<1>1. /\ content = [b \in MapBlocks |-> Nobody] /\ disk = [b \in MapBlocks |-> <<>>]
      /\ objects = [id \in Ids |-> Nobody] /\ activeBlocks = {} /\ blocksAdded = {}
      /\ envPc = "idle" /\ toVisit = {} /\ toRemove = {} /\ fate = [e \in Entities |-> "new"]
  BY DEF ObjectsInit
<1>2. <<>> \in Seq(Entities) /\ IsInjective(<<>>) /\ \A e \in Entities : e \notin Range(<<>>)
  BY DEF IsInjective, Range
<1>3. ObjectsTypes
  BY <1>1, <1>2 DEF ObjectsTypes, Contents, Disks
<1>4. \A b \in MapBlocks : View[b] = Unloaded(<<>>) /\ disk[b] = <<>>
  BY <1>1 DEF View, ViewOf
<1>5. \A b \in MapBlocks :
        /\ BlockOK(View[b], disk[b]) /\ \A id \in Ids : View[b].active[id] = Nobody
        /\ \A e \in Entities : ~ Has(View[b], disk[b], e) /\ ~ HasIn(View[b], e)
  <2>1. PICK saved \in Seq(Entities) : saved = <<>>
    BY <1>2
  <2>2. IsInjective(saved) /\ \A e \in Entities : e \notin Range(saved)
    BY <1>2, <2>1
  <2>3. /\ BlockOK(Unloaded(saved), saved)
        /\ \A id \in Ids : Unloaded(saved).active[id] = Nobody
        /\ \A e \in Entities : /\ ~ Has(Unloaded(saved), saved, e)
                               /\ ~ HasIn(Unloaded(saved), e)
    BY <2>2, UnloadedType
  <2> QED BY <1>4, <2>1, <2>3
<1>6. BlocksOK(View, disk) /\ SlotsOwned
  BY <1>5 DEF BlocksOK, SlotsOwned
<1>7. Present = {} /\ \A id \in Ids : ~ Live(id)
  BY <1>1 DEF Present, Live
<1>8. \E k \in 0..MaxEntities : {e \in Entities : fate[e] # "new"} = 1..k
  <2>1. 0 \in 0..MaxEntities /\ 1..0 = {}
    BY ObjectsAssumption
  <2>2. {e \in Entities : fate[e] # "new"} = {}
    BY <1>1
  <2> QED BY <2>1, <2>2
<1>9. Fates /\ Kept /\ Visits
  BY <1>1, <1>5, <1>7, <1>8 DEF Fates, Kept, Visits
<1> QED BY <1>3, <1>6, <1>7, <1>9 DEF ObjectsInv

LEMMA ObjectsNextInv == ObjectsInv /\ [ObjectsNext]_objectVars => ObjectsInv'
<1> SUFFICES ASSUME ObjectsInv, [ObjectsNext]_objectVars PROVE ObjectsInv'
  OBVIOUS
<1>1. ASSUME NEW id \in Ids, \/ MarkForRemoval(id) \/ AddKnown(id) \/ RemoveKnown(id)
                             \/ DeactivateFar(id) \/ Clear(id)
                             \/ \E b \in MapBlocks : MoveEntity(id, b)
      PROVE  ObjectsInv'
  BY <1>1, MarkForRemovalOK, KnownOK, DeactivateFarOK, ClearOK, MoveEntityOK
<1>2. ASSUME NEW b \in MapBlocks, \/ \E e \in Entities : Spawn(e, b)
                                  \/ ActivateBlock(b) \/ LoadStatic(b) \/ UnloadStatic(b)
      PROVE  ObjectsInv'
  BY <1>2, SpawnOK, ActivateBlockOK, LoadStaticOK, UnloadStaticOK
<1>3. CASE (\E S \in SUBSET MapBlocks : UpdateActiveBlocks(S)) \/ RemoveRemovedObjects \/ Stop
  BY <1>3, PassesStart
<1>4. CASE EndPass
  BY <1>4, EndPassOK
<1>5. CASE Stopped
  BY <1>5, StoppedOK
<1>6. CASE UNCHANGED objectVars
  <2>1. /\ UNCHANGED <<content, disk, objects, activeBlocks, blocksAdded, envPc,
                       toVisit, toRemove, fate>>
        /\ View' = View
    BY <1>6 DEF objectVars, View
  <2>2. /\ ObjectsTypes' /\ (Running' <=> Running) /\ toVisit' \subseteq Present
        /\ (envPc' = "force" => Present \subseteq toVisit' \union toRemove)
    BY <2>1 DEF ObjectsInv, ObjectsTypes, Running, Visits
  <2> QED BY <2>1, <2>2, SameObjects
<1> QED BY <1>1, <1>2, <1>3, <1>4, <1>5, <1>6 DEF ObjectsNext

LEMMA ObjectsInvariant == ObjectsSpec => []ObjectsInv
BY ObjectsInitInv, ObjectsNextInv, PTL DEF ObjectsSpec

LEMMA OnceOf == ObjectsInv => EntityOnce
<1> SUFFICES ASSUME ObjectsInv, NEW e \in Entities
             PROVE  /\ \A p, q \in Whereabouts(e) : p = q
                    /\ (Running /\ fate[e] = "alive" => Whereabouts(e) # {})
  BY DEF EntityOnce
<1>1. /\ BlocksOK(View, disk) /\ e # Nobody
      /\ \A b \in MapBlocks :
           View[b] = IF content[b] # Nobody THEN content[b] ELSE Unloaded(disk[b])
      /\ \A b \in MapBlocks : View[b] \in StaticObjectList /\ disk[b] \in Seq(Entities)
      /\ objects \in [Ids -> ActiveObject \union {Nobody}]
  BY ViewType, NobodyIsNobody DEF ObjectsInv, ObjectsTypes, View, Lists, Disks
<1>2. \A b \in MapBlocks : StoredIn(b) = View[b].stored
  BY <1>1, UnloadedType DEF StoredIn
<1>3. \A b \in MapBlocks, id \in Ids :
        content[b] # Nobody => content[b].active[id] = View[b].active[id]
  BY <1>1
<1> DEFINE IsLive(p)   == \E id \in Ids : /\ p = <<"live", Nowhere, id>>
                                         /\ Live(id) /\ objects[id].entity = e
           IsActive(p) == \E b \in MapBlocks, id \in Ids :
                            /\ p = <<"active", b, id>> /\ content[b] # Nobody /\ ~ Owned(b, id)
                            /\ View[b].active[id] = e
           IsStored(p) == \E b \in MapBlocks : \E i \in DOMAIN View[b].stored :
                            p = <<"stored", b, i>> /\ View[b].stored[i] = e
<1>4. \A p : p \in Whereabouts(e) <=> IsLive(p) \/ IsActive(p) \/ IsStored(p)
  <2> SUFFICES ASSUME NEW p PROVE p \in Whereabouts(e) <=> IsLive(p) \/ IsActive(p) \/ IsStored(p)
    OBVIOUS
  <2> DEFINE L == {<<"live", Nowhere, id>> : id \in {i \in Ids : Live(i) /\ objects[i].entity = e}}
             A == {<<"active", x[1], x[2]>> : x \in
                    {y \in MapBlocks \X Ids : /\ content[y[1]] # Nobody /\ ~ Owned(y[1], y[2])
                                             /\ content[y[1]].active[y[2]] = e}}
             T == UNION {{<<"stored", b, i>> :
                            i \in {k \in DOMAIN StoredIn(b) : StoredIn(b)[k] = e}}
                         : b \in MapBlocks}
  <2>1. Whereabouts(e) = (L \union A) \union T
    BY DEF Whereabouts
  <2>2. p \in L <=> IsLive(p)
    OBVIOUS
  <2>3. p \in A <=> IsActive(p)
    <3>1. ASSUME p \in A PROVE IsActive(p)
      <4>1. PICK y \in MapBlocks \X Ids :
              /\ p = <<"active", y[1], y[2]>> /\ content[y[1]] # Nobody /\ ~ Owned(y[1], y[2])
              /\ content[y[1]].active[y[2]] = e
        BY <3>1
      <4>2. y[1] \in MapBlocks /\ y[2] \in Ids
        OBVIOUS
      <4> QED BY <1>3, <4>1, <4>2
    <3>2. ASSUME IsActive(p) PROVE p \in A
      <4>1. PICK b \in MapBlocks, id \in Ids :
              /\ p = <<"active", b, id>> /\ content[b] # Nobody /\ ~ Owned(b, id)
              /\ View[b].active[id] = e
        BY <3>2
      <4>2. PICK y \in MapBlocks \X Ids : y = <<b, id>>
        OBVIOUS
      <4>3. y[1] = b /\ y[2] = id
        BY <4>2
      <4> QED BY <1>3, <4>1, <4>2, <4>3
    <3> QED BY <3>1, <3>2
  <2>4. p \in T <=> IsStored(p)
    BY <1>2
  <2> QED BY <2>1, <2>2, <2>3, <2>4
<1>5. \A b, c \in MapBlocks : HasIn(View[b], e) /\ HasIn(View[c], e) => b = c
  BY <1>1 DEF BlocksOK, Has
<1>6. \A b \in MapBlocks :
        /\ \A i \in DOMAIN View[b].stored : View[b].stored[i] = e =>
             e \in Range(View[b].stored) /\ HasIn(View[b], e)
        /\ \A i, j \in DOMAIN View[b].stored :
             (View[b].stored[i] = e /\ View[b].stored[j] = e) => i = j
        /\ \A id \in Ids : View[b].active[id] = e =>
             e \notin Range(View[b].stored) /\ HasIn(View[b], e)
        /\ \A i, j \in Ids : (View[b].active[i] = e /\ View[b].active[j] = e) => i = j
  <2> SUFFICES ASSUME NEW b \in MapBlocks
               PROVE  /\ \A i \in DOMAIN View[b].stored : View[b].stored[i] = e =>
                           e \in Range(View[b].stored) /\ HasIn(View[b], e)
                      /\ \A i, j \in DOMAIN View[b].stored :
                           (View[b].stored[i] = e /\ View[b].stored[j] = e) => i = j
                      /\ \A id \in Ids : View[b].active[id] = e =>
                           e \notin Range(View[b].stored) /\ HasIn(View[b], e)
                      /\ \A i, j \in Ids : (View[b].active[i] = e /\ View[b].active[j] = e) => i = j
    OBVIOUS
  <2>1. BlockOK(View[b], disk[b])
    BY <1>1 DEF BlocksOK
  <2>2. \A i \in DOMAIN View[b].stored : View[b].stored[i] = e =>
          e \in Range(View[b].stored) /\ HasIn(View[b], e)
    BY DEF Range, HasIn
  <2>3. \A i, j \in DOMAIN View[b].stored :
          (View[b].stored[i] = e /\ View[b].stored[j] = e) => i = j
    BY <2>1 DEF BlockOK, IsInjective
  <2>4. \A id \in Ids : View[b].active[id] = e =>
          e \notin Range(View[b].stored) /\ HasIn(View[b], e)
    BY <2>1 DEF BlockOK, HasIn
  <2>5. \A i, j \in Ids : (View[b].active[i] = e /\ View[b].active[j] = e) => i = j
    BY <1>1, <2>1 DEF BlockOK
  <2> QED BY <2>2, <2>3, <2>4, <2>5
<1>7. ASSUME NEW id \in Ids, Live(id), objects[id].entity = e,
             NEW b \in MapBlocks, HasIn(View[b], e)
      PROVE  objects[id].static = b /\ View[b].active[id] = e
  <2>1. LiveOK(id) /\ objects[id].static \in MapBlocks \union {Nowhere}
    BY <1>1, <1>7 DEF ObjectsInv, ActiveObject, Live
  <2>2. objects[id].static # Nowhere
    BY <1>7, <2>1 DEF LiveOK, Has
  <2>3. View[objects[id].static].active[id] = e
    BY <1>7, <2>1, <2>2 DEF LiveOK
  <2> QED BY <1>5, <1>6, <1>7, <2>1, <2>2, <2>3
<1>8. \A p, q : IsLive(p) /\ IsLive(q) => p = q
  BY DEF ObjectsInv, LiveOK
<1>9. \A p, q : IsLive(p) => ~ IsStored(q)
  BY <1>6, <1>7
<1>10. \A p, q : IsLive(p) => ~ IsActive(q)
  <2> SUFFICES ASSUME NEW id \in Ids, Live(id), objects[id].entity = e,
                      NEW b \in MapBlocks, NEW j \in Ids, ~ Owned(b, j), View[b].active[j] = e
               PROVE  FALSE
    OBVIOUS
  <2>1. objects[id].static = b /\ View[b].active[id] = e
    BY <1>6, <1>7
  <2>2. id = j
    BY <1>6, <2>1
  <2> QED BY <2>1, <2>2 DEF Owned
<1>11. \A p, q : IsActive(p) /\ IsActive(q) => p = q
  BY <1>5, <1>6
<1>12. \A p, q : IsActive(p) => ~ IsStored(q)
  BY <1>5, <1>6
<1>13. \A p, q : IsStored(p) /\ IsStored(q) => p = q
  BY <1>5, <1>6
<1> HIDE DEF IsLive, IsActive, IsStored
<1>14. \A p, q \in Whereabouts(e) : p = q
  BY <1>4, <1>8, <1>9, <1>10, <1>11, <1>12, <1>13
<1>15. ASSUME Running, fate[e] = "alive" PROVE \E p : p \in Whereabouts(e)
  <2>1. Somewhere(e)
    BY <1>15 DEF ObjectsInv, Kept
  <2>2. CASE \E id \in Ids : Live(id) /\ objects[id].entity = e
    <3>1. \E p : IsLive(p)
      BY <2>2 DEF IsLive
    <3> QED BY <1>4, <3>1
  <2>3. CASE \E b \in MapBlocks : e \in Range(View[b].stored)
    <3>1. \E p : IsStored(p)
      BY <2>3 DEF IsStored, Range
    <3> QED BY <1>4, <3>1
  <2>4. CASE \E b \in MapBlocks : \E id \in Ids : View[b].active[id] = e
    <3>1. PICK b \in MapBlocks, id \in Ids : View[b].active[id] = e
      BY <2>4
    <3>2. disk[b] \in Seq(Entities)
      BY <1>1
    <3>3. Unloaded(disk[b]).active[id] = Nobody
      BY <3>2, UnloadedType
    <3>4. content[b] # Nobody
      BY <1>1, <3>1, <3>3
    <3>5. CASE Owned(b, id)
      <4>1. Live(id) /\ objects[id].entity = e
        BY <1>1, <3>1, <3>5 DEF Owned, ObjectsInv, SlotsOwned
      <4> QED BY <2>2, <4>1
    <3>6. CASE ~ Owned(b, id)
      <4>1. \E p : IsActive(p)
        BY <3>1, <3>4, <3>6 DEF IsActive
      <4> QED BY <1>4, <4>1
    <3> QED BY <3>5, <3>6
  <2> QED BY <2>1, <2>2, <2>3, <2>4 DEF Somewhere, HasIn
<1> QED BY <1>14, <1>15

LEMMA BackedOf == ObjectsInv => StaticBacked
<1> SUFFICES ASSUME ObjectsInv, NEW id \in Ids, Live(id), objects[id].static # Nowhere
             PROVE  /\ content[objects[id].static] # Nobody
                    /\ content[objects[id].static].active[id] = objects[id].entity
  BY DEF StaticBacked
<1>1. PICK b \in MapBlocks : b = objects[id].static
  BY DEF ObjectsInv, ObjectsTypes, ActiveObject, Live
<1>2. objects[id].entity # Nobody
  BY NobodyIsNobody DEF ObjectsInv, ObjectsTypes, ActiveObject, Live
<1>3. View[b].active[id] = objects[id].entity
  BY <1>1 DEF ObjectsInv, LiveOK
<1>4. /\ disk[b] \in Seq(Entities)
      /\ View[b] = IF content[b] # Nobody THEN content[b] ELSE Unloaded(disk[b])
  BY ViewType DEF ObjectsInv, ObjectsTypes, View, Disks
<1>5. Unloaded(disk[b]).active[id] = Nobody
  BY <1>4, UnloadedType
<1> QED BY <1>1, <1>2, <1>3, <1>4, <1>5

(* However entities move, blocks are activated, unloaded and loaded, and   *)
(* clients look on, for any number of blocks, ids and entities: an entity  *)
(* is nowhere twice, and while the server runs one that was not removed or *)
(* refused is somewhere.                                                   *)
THEOREM EntityOnceCorrect == ObjectsSpec => []EntityOnce
BY ObjectsInvariant, OnceOf, PTL

(* The static data that a live object refers to is in memory, under its id *)
(* and of its entity.                                                      *)
THEOREM StaticBackedCorrect == ObjectsSpec => []StaticBacked
BY ObjectsInvariant, BackedOf, PTL

-----------------------------------------------------------------------------
(* Stopping.  An object that waits to be removed once its clients know is  *)
(* deactivated once more, and its static data is deleted.                  *)
Awaited(e) == \E id \in Present : objects[id].entity = e /\ objects[id].deactivation

(* What no such object stands for is found, and then is in the database.   *)
Savable(e) == fate[e] = "alive" =>
  /\ envPc = "force" =>
       /\ Somewhere(e)
       /\ \A id \in toVisit : objects[id].entity = e => ~ IsGone(objects[id])
  /\ envPc = "stopped" => \E b \in MapBlocks : e \in ToSet(disk[b])

LEMMA StopSavable ==
  ASSUME ObjectsInv, NEW e \in Entities, Stop, ~ Awaited(e)
  PROVE  Savable(e)'
<1> SUFFICES ASSUME fate'[e] = "alive"
             PROVE  /\ Somewhere(e)'
                    /\ \A id \in toVisit' : objects'[id].entity = e => ~ IsGone(objects'[id])
  BY DEF Savable, Stop
<1>1. /\ envPc = "idle" /\ toVisit' = Present
      /\ UNCHANGED <<content, disk, objects, fate>>
  BY DEF Stop
<1>2. Running /\ View' = View /\ fate[e] = "alive"
  BY <1>1 DEF Running, View
<1>3. Somewhere(e)'
  BY <1>1, <1>2 DEF ObjectsInv, Kept, Somewhere, Live
<1>4. ASSUME NEW id \in Present, objects[id].entity = e PROVE ~ IsGone(objects[id])
  <2>1. ~ objects[id].deactivation
    BY <1>4 DEF Awaited
  <2>2. ~ objects[id].removal
    BY <1>2, <1>4 DEF ObjectsInv, Fates
  <2> QED BY <2>1, <2>2 DEF IsGone
<1> QED BY <1>1, <1>3, <1>4

LEMMA ForcedSavable ==
  ASSUME ObjectsInv, NEW e \in Entities, Savable(e), envPc = "force",
         NEW id \in Ids, DeactivateFar(id)
  PROVE  Savable(e)'
<1>1. CalledBack(id) /\ \E changed \in BOOLEAN : Deactivate(id, changed)
  BY DEF DeactivateFar, Skips, MustResave
<1>2. PICK o \in ActiveObject : o = objects[id]
  BY <1>1, CalledBackFacts
<1>3. PICK mark \in BOOLEAN, pending \in BOOLEAN, refused \in BOOLEAN, saved \in BOOLEAN :
        (mark \/ o.static = o.pos) /\ Deactivates(id, o, mark, pending, refused, saved)
  BY <1>1, <1>2, DeactivateCases
<1>4. /\ o.entity \in Entities /\ o.pos \in MapBlocks /\ envPc' = "force"
      /\ id \in toVisit /\ toVisit' \subseteq toVisit \ {id} /\ toVisit \subseteq Ids
      /\ fate \in [Entities -> {"new", "alive", "removed", "refused"}]
      /\ objects \in [Ids -> ActiveObject \union {Nobody}]
      /\ (Live(id) <=> ~ IsGone(o))
  BY <1>1, <1>2, CalledBackFacts DEF ActiveObject, CalledBack, ObjectsInv, ObjectsTypes
<1>5. \A i \in Ids : i # id => objects'[i] = objects[i]
  BY <1>3, <1>4 DEF Deactivates
<1>6. fate' = IF refused THEN [fate EXCEPT ![o.entity] = "refused"] ELSE fate
  BY <1>3 DEF Deactivates
<1> SUFFICES ASSUME fate'[e] = "alive"
             PROVE  /\ Somewhere(e)'
                    /\ \A i \in toVisit' : objects'[i].entity = e => ~ IsGone(objects'[i])
  BY <1>4 DEF Savable
<1>7. fate[e] = "alive" /\ (o.entity = e => ~ refused)
  BY <1>4, <1>6
<1>8. /\ Somewhere(e) /\ (o.entity = e => ~ IsGone(o))
      /\ \A i \in toVisit : objects[i].entity = e => ~ IsGone(objects[i])
  BY <1>2, <1>4, <1>7 DEF Savable
<1>9. \A i \in toVisit' : objects'[i].entity = e => ~ IsGone(objects'[i])
  BY <1>4, <1>5, <1>8
<1>10. View' = ViewOf(content', disk)
  BY <1>1, CalledBackFacts DEF View
<1>11. ASSUME saved
       PROVE  /\ HasIn(View'[o.pos], o.entity)
              /\ \A b \in MapBlocks : e # o.entity => (HasIn(View[b], e) => HasIn(View'[b], e))
  <2>1. PICK stored \in BOOLEAN : stored = ~ pending
    OBVIOUS
  <2>2. Live(id) /\ content' = SaveStatic(DeleteStatic(content, o.static, id, mark), o.pos,
                                         id, o.entity, stored, mark)
    BY <1>3, <1>4, <1>11, <2>1 DEF Deactivates
  <2>3. IsSaved(View', o, id, stored)
    BY <1>2, <1>3, <1>10, <2>2, SaveStaticOK
  <2> QED BY <2>3 DEF IsSaved
<1>12. ASSUME ~ saved
       PROVE  \A b \in MapBlocks : e # o.entity => (HasIn(View[b], e) => HasIn(View'[b], e))
  <2>1. content' = DeleteStatic(content, o.static, id, mark)
    BY <1>3, <1>12 DEF Deactivates
  <2>2. IsDeleted(View', o, id, mark)
    BY <1>2, <1>10, <2>1, DeleteStaticOK
  <2> QED BY <2>2 DEF IsDeleted
<1>13. CASE e = o.entity
  <2>1. saved
    BY <1>3, <1>7, <1>8, <1>13 DEF Deactivates
  <2> QED BY <1>4, <1>9, <1>11, <1>13, <2>1 DEF Somewhere
<1>14. CASE e # o.entity
  <2>1. \A i \in Ids : (Live(i) /\ objects[i].entity = e) => Live(i)' /\ objects'[i].entity = e
    BY <1>2, <1>5, <1>14 DEF Live
  <2>2. \A b \in MapBlocks : HasIn(View[b], e) => HasIn(View'[b], e)
    BY <1>11, <1>12, <1>14
  <2>3. Somewhere(e)'
    BY <1>8, <2>1, <2>2 DEF Somewhere
  <2> QED BY <1>9, <2>3
<1> QED BY <1>13, <1>14

LEMMA StoppedSavable ==
  ASSUME ObjectsInv, NEW e \in Entities, Savable(e), Stopped
  PROVE  Savable(e)'
<1>1. /\ envPc = "force" /\ envPc' = "stopped" /\ fate' = fate /\ toVisit = {}
      /\ disk' = [b \in MapBlocks |->
           IF content[b] # Nobody /\ content[b].modified
           THEN Serialized(content[b]) ELSE disk[b]]
  BY DEF Stopped
<1> SUFFICES ASSUME fate[e] = "alive" PROVE \E b \in MapBlocks : e \in ToSet(disk'[b])
  BY <1>1 DEF Savable
<1>2. \A id \in Ids : ~ Live(id)
  BY <1>1 DEF ObjectsInv, Visits, Present, Live
<1>3. PICK b \in MapBlocks : HasIn(View[b], e)
  BY <1>1, <1>2 DEF Savable, Somewhere
<1>4. /\ View[b] \in StaticObjectList /\ disk[b] \in Seq(Entities) /\ BlockOK(View[b], disk[b])
      /\ View[b] = IF content[b] # Nobody THEN content[b] ELSE Unloaded(disk[b])
  BY ViewType DEF ObjectsInv, ObjectsTypes, View, Lists, Disks, BlocksOK
<1>5. Unloaded(disk[b]).modified = FALSE
  BY DEF Unloaded
<1>6. disk'[b] = Written(View[b], disk[b])
  BY <1>1, <1>4, <1>5 DEF Written
<1>7. disk'[b] \in Seq(Entities) /\ HasIn(Unloaded(disk'[b]), e)
  BY <1>3, <1>4, <1>6, WrittenOK
<1>8. e \in Range(disk'[b])
  BY <1>7, UnloadedType
<1> QED BY <1>8 DEF Range, ToSet

LEMMA NextSavable ==
  ASSUME ObjectsInv, [ObjectsNext]_objectVars, NEW e \in Entities, Savable(e),
         Stop => ~ Awaited(e)
  PROVE  Savable(e)'
<1>1. CASE Stop
  <2>1. envPc' # envPc
    BY <1>1 DEF Stop
  <2> QED BY <1>1, <2>1, StopSavable DEF objectVars
<1>2. CASE envPc = "force" /\ \E id \in Ids : DeactivateFar(id)
  BY <1>2, ForcedSavable
<1>3. CASE Stopped
  BY <1>3, StoppedSavable
<1>4. CASE UNCHANGED objectVars
  <2>1. View' = View
    BY <1>4 DEF objectVars, View
  <2> QED BY <1>4, <2>1 DEF objectVars, Savable, Somewhere, Live
<1>5. CASE /\ ~ Stop /\ ~ Stopped /\ ~ UNCHANGED objectVars
           /\ ~ (envPc = "force" /\ \E id \in Ids : DeactivateFar(id))
  <2>1. envPc' \notin {"force", "stopped"}
    <3>1. Running
      BY <1>5 DEF ObjectsNext, Running, MarkForRemoval, AddKnown, RemoveKnown, DeactivateFar,
           Clear, MoveEntity, Spawn, ActivateBlock, LoadStatic, UnloadStatic,
           UpdateActiveBlocks, RemoveRemovedObjects, EndPass
    <3> QED BY <1>5, <3>1 DEF ObjectsNext, Running, MarkForRemoval, AddKnown, RemoveKnown,
           DeactivateFar, CalledBack, Clear, MoveEntity, Spawn, ActivateBlock, LoadStatic,
           UnloadStatic, UpdateActiveBlocks, RemoveRemovedObjects, EndPass, envVars
  <2> QED BY <2>1 DEF Savable
<1> QED BY <1>1, <1>2, <1>3, <1>4, <1>5

(* deactivateBlocksAndObjects() and the map's save: an entity that is      *)
(* neither removed nor refused is in the database once the server has      *)
(* stopped, for any number of blocks, ids and entities, unless one of its  *)
(* objects waited for its clients when it stopped.                         *)
THEOREM SavedUnlessAwaited ==
  ASSUME NEW E \in SUBSET Entities
  PROVE  ObjectsSpec /\ [][Stop => \A e \in E : ~ Awaited(e)]_objectVars
           => [](\A e \in E : envPc = "stopped" /\ fate[e] = "alive" =>
                   \E b \in MapBlocks : e \in ToSet(disk[b]))
<1> DEFINE Inv == \A e \in E : Savable(e)
           None == \A e \in E : ~ Awaited(e)
<1>1. ObjectsInit => Inv
  BY DEF ObjectsInit, Savable
<1>2. ObjectsInv /\ Inv /\ [ObjectsNext]_objectVars /\ [Stop => None]_objectVars => Inv'
  <2> SUFFICES ASSUME ObjectsInv, [ObjectsNext]_objectVars, [Stop => None]_objectVars,
                      NEW e \in E, Savable(e)
               PROVE  Savable(e)'
    OBVIOUS
  <2>1. Stop => ~ Awaited(e)
    <3>1. Stop => envPc' # envPc
      BY DEF Stop
    <3> QED BY <3>1 DEF objectVars
  <2> QED BY <2>1, NextSavable
<1>3. Inv => \A e \in E : envPc = "stopped" /\ fate[e] = "alive" =>
               \E b \in MapBlocks : e \in ToSet(disk[b])
  BY DEF Savable
<1> QED BY <1>1, <1>2, <1>3, ObjectsInvariant, PTL DEF ObjectsSpec

(* "deactvation = save static data in block, remove active object": the    *)
(* comment on m_pending_deactivation is right when no deactivated object   *)
(* is left for its clients when the server stops.                          *)
THEOREM SavedWhenNoneAwaited ==
  ObjectsSpec /\ [][Stop => \A id \in Present : ~ objects[id].deactivation]_objectVars
    => []EntitiesSaved
<1> DEFINE Inv == \A e \in Entities : Savable(e)
           None == \A id \in Present : ~ objects[id].deactivation
<1>1. ObjectsInit => Inv
  BY DEF ObjectsInit, Savable
<1>2. ObjectsInv /\ Inv /\ [ObjectsNext]_objectVars /\ [Stop => None]_objectVars => Inv'
  <2> SUFFICES ASSUME ObjectsInv, [ObjectsNext]_objectVars, [Stop => None]_objectVars,
                      NEW e \in Entities, Savable(e)
               PROVE  Savable(e)'
    OBVIOUS
  <2>1. Stop => ~ Awaited(e)
    <3>1. Stop => envPc' # envPc
      BY DEF Stop
    <3>2. None => ~ Awaited(e)
      BY DEF Awaited
    <3> QED BY <3>1, <3>2 DEF objectVars
  <2> QED BY <2>1, NextSavable
<1>3. Inv => EntitiesSaved
  BY DEF Savable, EntitiesSaved
<1> QED BY <1>1, <1>2, <1>3, ObjectsInvariant, PTL DEF ObjectsSpec
=============================================================================
