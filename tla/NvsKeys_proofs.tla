-------------------------- MODULE NvsKeys_proofs --------------------------
EXTENDS NvsStorage_proofs

(***************************************************************************)
(* The keys of the items.  nvs_set_* writes the new item before it erases  *)
(* the old one, and a page is moved before it is erased, so that for a     *)
(* while a key is in flash twice, and the power may fail then.  What makes *)
(* a start take one of the two away is that a twin is the last item of the *)
(* page that takes writes, and that the page in which a move was cut off   *)
(* holds only keys of the page that is moved.                              *)
(***************************************************************************)

(* The items that count, and two of them with the same key.                *)
Item(p, h)  == p \in Kept /\ h \in Headed(flash[p])
KeyAt(p, h) == flash[p].data[h].key
Twins(p, h, q, g) == /\ Item(p, h) /\ Item(q, g) /\ KeyAt(p, h) = KeyAt(q, g)
                     /\ ~(p = q /\ h = g)

Whole(P, h)  == \A j \in Entries : InSpan(P, h, j) => P.table[j] = "WRITTEN"
Newest(p, h) == State(p) = "ACTIVE" /\ \A g \in Headed(flash[p]) : g <= h

(* Of two whole items with the same key one is the last item of the page   *)
(* that takes writes.                                                      *)
Recoverable ==
    \A p, h, q, g : Twins(p, h, q, g) /\ Whole(flash[p], h) /\ Whole(flash[q], g) =>
                       Newest(p, h) \/ Newest(q, g)

(* Where page v is being moved, the new page b has keys of v only.         *)
Shadow ==
    \A b, v \in Pages : \A h, p, g :
        /\ State(b) = "ACTIVE" /\ State(v) = "FREEING"
        /\ h \in Headed(flash[b]) /\ Item(p, g) /\ KeyAt(p, g) = KeyAt(b, h)
        => p = v

(* No twins; none aside from the item at entry x of page b; none when the  *)
(* list s of operations is done; none in one page then.                    *)
Single          == \A p, h, q, g : ~Twins(p, h, q, g)
SingleBut(b, x) == \A p, h, q, g : Twins(p, h, q, g) => (p = b /\ h = x) \/ (q = b /\ g = x)
SingleAfter(s)  == \A p, h, q, g : Twins(p, h, q, g) => Hit(s, p, h) \/ Hit(s, q, g)
SinglePages(s)  == \A p, h, g : Twins(p, h, p, g) => Hit(s, p, h) \/ Hit(s, p, g)

(* Where the item is that nvs_set_* replaces, aside from the new one at    *)
(* entry x of page b: on page p, or nowhere.                               *)
OldPage == IF State(findPage) = "UNINITIALIZED" THEN Back ELSE findPage
Finds(p, b, x) ==
    /\ findPage = None => \A q, g : Item(q, g) /\ KeyAt(q, g) = call.key => q = b /\ g = x
    /\ findPage # None => \E g : Item(p, g) /\ KeyAt(p, g) = call.key /\ ~(p = b /\ g = x)

(* Page F has the items of page V, each once.                              *)
Like(F, V) ==
    /\ \A h \in Headed(F) : \E g \in Headed(V) : V.data[g] = F.data[h]
    /\ \A g \in Headed(V) : \E h \in Headed(F) : F.data[h] = V.data[g]
    /\ \A h, i \in Headed(F) : F.data[h].key = F.data[i].key => h = i

(* The list copies the items of V into page q, which is P; if there are    *)
(* any, q is open or is going to be.                                       *)
MovesItems(s, q, P, V) ==
    /\ \E F \in PageType : CopiesTo(s, q, P, F) /\ Like(F, V)
    /\ \/ Headed(V) = {}
       \/ P.state = "ACTIVE" /\ s[1] # Erase(q)
       \/ \E m \in 1 .. Len(s) : s[m] = Header(q)
KeyMoves ==
    todo # <<>> => \A v \in Pages :
        todo[Len(todo)] = Erase(v) /\ State(v) \in Loaded =>
            MovesItems(todo, Back, flash[Back], flash[v])

(* The inductive invariant: twins are what one call or one start leaves,   *)
(* and what is left to do takes one of them away.                          *)
KeyInv ==
    /\ Recoverable /\ Shadow
    /\ phase = "manager" => SinglePages(todo)
    /\ phase \in {"freeing", "stored", "clearing"} => SingleAfter(todo)
    /\ phase \in {"ready", "again", "request", "error"} => Single
    /\ phase \in {"ready", "again"} => KeyMoves
    /\ phase = "request" => Finds(findPage, 0, 0)
    /\ phase = "again" => Finds(OldPage, 0, 0)
    /\ phase = "written" => \E h \in Entries : /\ WritesAt(h)
                                               /\ SingleBut(Back, h) /\ Finds(OldPage, Back, h)

-----------------------------------------------------------------------------
(* Steps after which there are no more items than before.                  *)

LEMMA ItemIs ==
    ASSUME NEW p, NEW h, Item(p, h)
    PROVE  /\ p \in Pages /\ p \in Live /\ State(p) \in Loaded /\ h \in Entries
           /\ flash[p].table[h] = "WRITTEN" /\ IsHeader(flash[p].data[h])
BY DEF Item, Kept, Live, Headed

LEMMA NoTwins == Single => /\ Recoverable
                           /\ \A s : SingleAfter(s) /\ SinglePages(s)
                           /\ \A b, x : SingleBut(b, x)
BY DEF Single, Recoverable, SingleAfter, SinglePages, SingleBut

(* An operation changes page P to Q.                                       *)
Lessened(P, Q) == \A h \in Headed(Q) : /\ h \in Headed(P) /\ Q.data[h] = P.data[h]
                                       /\ Whole(Q, h) => Whole(P, h)
Shrinks ==
    \A p \in Pages : /\ State(p)' \in Loaded => State(p)' = State(p)
                     /\ State(p) = "FREEING" => State(p)' = "FREEING"
                     /\ Lessened(flash[p], flash'[p])

LEMMA ShrinksItems ==
    ASSUME Shrinks, NEW p, NEW h, Item(p, h)'
    PROVE  /\ Item(p, h) /\ KeyAt(p, h)' = KeyAt(p, h)
           /\ Whole(flash[p], h)' => Whole(flash[p], h)
           /\ Newest(p, h) => Newest(p, h)'
<1>1. p \in Kept' /\ h \in Headed(flash'[p])
  BY DEF Item
<1>2. p \in Pages /\ State(p)' \in Loaded
  BY <1>1 DEF Kept, Live
<1>3. State(p)' = State(p) /\ Lessened(flash[p], flash'[p])
  BY <1>2 DEF Shrinks
<1>4. p \in Kept
  <2>1. p \in Live
    BY <1>2, <1>3 DEF Live
  <2>2. ASSUME State(p) = "ACTIVE", NEW q \in Pages PROVE State(q) # "FREEING"
    <3>1. State(q)' # "FREEING"
      BY <1>1, <1>3, <2>2 DEF Kept
    <3> QED BY <3>1 DEF Shrinks
  <2> QED BY <2>1, <2>2 DEF Kept
<1>5. /\ h \in Headed(flash[p]) /\ flash'[p].data[h] = flash[p].data[h]
      /\ Whole(flash'[p], h) => Whole(flash[p], h)
  BY <1>1, <1>3 DEF Lessened
<1>6. Newest(p, h) => Newest(p, h)'
  BY <1>3 DEF Newest, Lessened
<1> QED BY <1>4, <1>5, <1>6 DEF Item, KeyAt

LEMMA ShrinksTwins ==
    ASSUME Shrinks, NEW p, NEW h, NEW q, NEW g, Twins(p, h, q, g)'
    PROVE  Twins(p, h, q, g)
<1>1. Item(p, h)' /\ Item(q, g)' /\ KeyAt(p, h)' = KeyAt(q, g)' /\ ~(p = q /\ h = g)
  BY DEF Twins
<1>2. Item(p, h) /\ KeyAt(p, h)' = KeyAt(p, h)
  BY <1>1, ShrinksItems
<1>3. Item(q, g) /\ KeyAt(q, g)' = KeyAt(q, g)
  BY <1>1, ShrinksItems
<1> QED BY <1>1, <1>2, <1>3 DEF Twins

LEMMA ShrinksKeep ==
    ASSUME Shrinks, Recoverable, Shadow
    PROVE  Recoverable' /\ Shadow'
<1>1. Recoverable'
  <2> SUFFICES ASSUME NEW p, NEW h, NEW q, NEW g, Twins(p, h, q, g)',
                      Whole(flash[p], h)', Whole(flash[q], g)'
               PROVE  Newest(p, h)' \/ Newest(q, g)'
    BY DEF Recoverable
  <2>1. Twins(p, h, q, g) /\ Item(p, h)' /\ Item(q, g)'
    BY ShrinksTwins DEF Twins
  <2>2. Whole(flash[p], h) /\ (Newest(p, h) => Newest(p, h)')
    BY <2>1, ShrinksItems
  <2>3. Whole(flash[q], g) /\ (Newest(q, g) => Newest(q, g)')
    BY <2>1, ShrinksItems
  <2> QED BY <2>1, <2>2, <2>3 DEF Recoverable
<1>2. Shadow'
  <2> SUFFICES ASSUME NEW b \in Pages, NEW v \in Pages, NEW h, NEW p, NEW g,
                      State(b)' = "ACTIVE", State(v)' = "FREEING",
                      h \in Headed(flash'[b]), Item(p, g)', KeyAt(p, g)' = KeyAt(b, h)'
               PROVE  p = v
    BY DEF Shadow
  <2>1. State(b) = "ACTIVE" /\ State(v) = "FREEING"
    BY DEF Shrinks, Loaded
  <2>2. h \in Headed(flash[b]) /\ flash'[b].data[h] = flash[b].data[h]
    BY DEF Shrinks, Lessened
  <2>3. Item(p, g) /\ KeyAt(p, g)' = KeyAt(p, g)
    BY ShrinksItems
  <2>4. KeyAt(b, h)' = KeyAt(b, h)
    BY <2>2 DEF KeyAt
  <2> QED BY <2>1, <2>2, <2>3, <2>4 DEF Shadow
<1> QED BY <1>1, <1>2

(* Where table and entries stay, where there are no items, where entries   *)
(* are erased, and where what is programmed is not a header that the table *)
(* knows of.                                                               *)
LEMMA LessenedIs ==
    ASSUME NEW P, NEW Q
    PROVE  /\ (\A j \in Entries : Q.table[j] = P.table[j] /\ Q.data[j] = P.data[j]) => Lessened(P, Q)
           /\ Headed(Q) = {} => Lessened(P, Q)
           /\ \A D : ErasedIn(P, Q, D) => Lessened(P, Q)
           /\ \A i, c : ProgrammedIn(P, Q, i, c) /\ (~IsHeader(c) \/ P.table[i] # "WRITTEN") =>
                           Lessened(P, Q)
<1>1. ASSUME NEW h \in Entries, Q.data[h] = P.data[h],
             \A j \in Entries : Q.table[j] = "WRITTEN" => P.table[j] = "WRITTEN"
      PROVE  Whole(Q, h) => Whole(P, h)
  <2>1. \A j : InSpan(Q, h, j) <=> InSpan(P, h, j)
    BY <1>1, SameLast DEF InSpan
  <2> QED BY <1>1, <2>1 DEF Whole
<1>2. ASSUME NEW h \in Headed(Q)
      PROVE  h \in Entries /\ Q.table[h] = "WRITTEN" /\ IsHeader(Q.data[h])
  BY <1>2 DEF Headed
<1>3. ASSUME \A j \in Entries : Q.table[j] = P.table[j] /\ Q.data[j] = P.data[j]
      PROVE  Lessened(P, Q)
  <2> SUFFICES ASSUME NEW h \in Headed(Q)
               PROVE  /\ h \in Headed(P) /\ Q.data[h] = P.data[h]
                      /\ Whole(Q, h) => Whole(P, h)
    BY DEF Lessened
  <2>1. h \in Headed(P) /\ Q.data[h] = P.data[h]
    BY <1>2, <1>3 DEF Headed
  <2> QED BY <1>1, <1>2, <1>3, <2>1
<1>4. Headed(Q) = {} => Lessened(P, Q)
  BY DEF Lessened
<1>5. ASSUME NEW D, ErasedIn(P, Q, D)
      PROVE  Lessened(P, Q)
  <2> SUFFICES ASSUME NEW h \in Headed(Q)
               PROVE  /\ h \in Headed(P) /\ Q.data[h] = P.data[h]
                      /\ Whole(Q, h) => Whole(P, h)
    BY DEF Lessened
  <2>1. h \in Headed(P) /\ h \notin D
    BY <1>5, ErasedHeaders
  <2>2. Q.data[h] = P.data[h]
    BY <1>2, <1>5, <2>1 DEF ErasedIn
  <2>3. \A j \in Entries : Q.table[j] = "WRITTEN" => P.table[j] = "WRITTEN"
    BY <1>5 DEF ErasedIn
  <2> QED BY <1>1, <1>2, <2>1, <2>2, <2>3
<1>6. ASSUME NEW i, NEW c, ProgrammedIn(P, Q, i, c), ~IsHeader(c) \/ P.table[i] # "WRITTEN"
      PROVE  Lessened(P, Q)
  <2> SUFFICES ASSUME NEW h \in Headed(Q)
               PROVE  /\ h \in Headed(P) /\ Q.data[h] = P.data[h]
                      /\ Whole(Q, h) => Whole(P, h)
    BY DEF Lessened
  <2>1. h # i
    BY <1>2, <1>6 DEF ProgrammedIn
  <2>2. Q.data[h] = P.data[h]
    BY <1>2, <1>6, <2>1 DEF ProgrammedIn
  <2>3. h \in Headed(P)
    BY <1>2, <1>6, <2>2 DEF Headed, ProgrammedIn
  <2>4. \A j \in Entries : Q.table[j] = "WRITTEN" => P.table[j] = "WRITTEN"
    BY <1>6 DEF ProgrammedIn
  <2> QED BY <1>1, <1>2, <2>2, <2>3, <2>4
<1> QED BY <1>3, <1>4, <1>5, <1>6

(* An item that is the last one of the page that takes writes may be a     *)
(* twin.                                                                   *)
LEMMA RecoverableBut ==
    ASSUME NEW b, NEW x, SingleBut(b, x), Item(b, x) => Newest(b, x)
    PROVE  Recoverable
BY DEF SingleBut, Recoverable, Twins

(* While flash does not change, the items stay.                            *)
LEMMA SameItems ==
    ASSUME UNCHANGED disk
    PROVE  /\ Kept' = Kept /\ flash' = flash
           /\ \A p : State(p)' = State(p)
           /\ \A p, h : Item(p, h)' <=> Item(p, h)
           /\ \A p, h : KeyAt(p, h)' = KeyAt(p, h)
           /\ \A p, h, q, g : Twins(p, h, q, g)' <=> Twins(p, h, q, g)
           /\ Recoverable => Recoverable'
           /\ Shadow => Shadow'
           /\ Single => Single'
           /\ \A b, x : SingleBut(b, x) => SingleBut(b, x)'
           /\ SingleAfter(todo') => SingleAfter(todo)'
           /\ SinglePages(todo') => SinglePages(todo)'
<1>1. flash' = flash
  BY DEF disk
<1>2. Kept' = Kept /\ \A p : State(p)' = State(p)
  BY <1>1 DEF Kept, Live, State
<1>3. \A p, h : KeyAt(p, h)' = KeyAt(p, h)
  BY <1>1 DEF KeyAt
<1>4. \A p, h : Item(p, h)' <=> Item(p, h)
  BY <1>1, <1>2 DEF Item
<1>5. \A p, h, q, g : Twins(p, h, q, g)' <=> Twins(p, h, q, g)
  BY <1>3, <1>4 DEF Twins
<1>6. Recoverable => Recoverable'
  BY <1>1, <1>2, <1>5 DEF Recoverable, Newest
<1>7. Shadow => Shadow'
  BY <1>1, <1>2, <1>3, <1>4 DEF Shadow
<1>8. Single => Single'
  BY <1>5 DEF Single
<1>9. \A b, x : SingleBut(b, x) => SingleBut(b, x)'
  BY <1>5 DEF SingleBut
<1>10. SingleAfter(todo') => SingleAfter(todo)'
  BY <1>5 DEF SingleAfter
<1>11. SinglePages(todo') => SinglePages(todo)'
  BY <1>5 DEF SinglePages
<1> QED BY <1>1, <1>2, <1>3, <1>4, <1>5, <1>6, <1>7, <1>8, <1>9, <1>10, <1>11

-----------------------------------------------------------------------------
(* The functions of the library, which queue writes and do none.           *)

(* Of an erased partition ...                                              *)
LEMMA InitKeys == Init => KeyInv
<1> SUFFICES ASSUME Init PROVE KeyInv
  OBVIOUS
<1>1. \A p \in Pages : State(p) = "UNINITIALIZED"
  BY DEF Init, State, ErasedPage
<1>2. Kept = {}
  BY <1>1 DEF Kept, Live, Loaded
<1>3. Single
  BY <1>2 DEF Single, Twins, Item
<1>4. Recoverable
  BY <1>3, NoTwins
<1>5. Shadow
  BY <1>1 DEF Shadow
<1>6. phase = "load"
  BY DEF Init
<1> QED BY <1>4, <1>5, <1>6 DEF KeyInv

(* ... and after a power loss no more is asked.                            *)
LEMMA RestartKeys ==
    ASSUME Restart, Recoverable', Shadow'
    PROVE  KeyInv'
<1>1. phase' = "load"
  BY DEF Restart
<1> QED BY <1>1 DEF KeyInv

LEMMA PowerLossKeys == KeyInv /\ PowerLoss => KeyInv'
<1> SUFFICES ASSUME KeyInv, PowerLoss PROVE KeyInv'
  OBVIOUS
<1>1. UNCHANGED disk /\ Restart
  BY DEF PowerLoss
<1>2. Recoverable' /\ Shadow'
  BY <1>1, SameItems DEF KeyInv
<1> QED BY <1>1, <1>2, RestartKeys

-----------------------------------------------------------------------------
(* nvs_flash_init.                                                         *)

(* A whole item lies before the first free entry of the page that takes    *)
(* writes, ...                                                             *)
LEMMA WholeBelow ==
    ASSUME NEW P \in PageType, Steady(P), P.state = "ACTIVE", NEW g \in Headed(P), Whole(P, g)
    PROVE  LastOf(P, g) < NextFree(P)
<1>1. /\ EntryCount \in Nat /\ \A i \in Entries : i \in Nat /\ i < EntryCount
      /\ \A i \in Nat : i < EntryCount => i \in Entries
  BY NvsAssumption DEF Entries
<1>2. /\ g \in Entries /\ P.data[g] # Blank /\ P.table[g] = "WRITTEN"
      /\ LastOf(P, g) \in Nat /\ g <= LastOf(P, g)
      /\ \A h \in Headed(P) : h \in Entries /\ LastOf(P, h) \in Nat /\ h <= LastOf(P, h)
  BY LastOfType DEF Headed, IsHeader, Blank
<1>3. LastOf(P, g) < EntryCount
  BY DEF Steady, Shape, Apart
<1>4. PICK from : from = NextFree(P)
  OBVIOUS
<1>5. from \in Nat /\ (from < EntryCount => from \in Entries /\ P.table[from] = "EMPTY")
  BY <1>4, NextFreeIs
<1>6. from < EntryCount => ~(g <= from /\ from <= LastOf(P, g))
  BY <1>5 DEF Whole, InSpan
<1>7. ASSUME from < EntryCount, from < g
      PROVE  FALSE
  <2>1. Exposed(P, from)
    <3>1. from <= g
      BY <1>1, <1>2, <1>5, <1>7
    <3> QED BY <1>2, <1>5, <1>7, <3>1 DEF Exposed
  <2>2. ~BlankAbove(P, from)
    BY <1>2, <1>7 DEF BlankAbove
  <2>3. PICK h \in Headed(P) : InSpan(P, h, from) /\ BlankAbove(P, LastOf(P, h))
    BY <1>5, <1>7, <2>1, <2>2 DEF Steady, Loose
  <2>4. ~(g > LastOf(P, h))
    BY <1>2, <2>3 DEF BlankAbove
  <2>5. h < g
    BY <1>1, <1>2, <1>5, <1>7, <2>3 DEF InSpan
  <2>6. LastOf(P, h) < g
    BY <2>5 DEF Steady, Shape, Apart
  <2> QED BY <1>1, <1>2, <2>4, <2>6
<1>8. g \in Nat
  BY <1>1, <1>2
<1>9. LastOf(P, g) < from
  <2>1. CASE from < EntryCount
    BY <1>2, <1>5, <1>6, <1>7, <1>8, <2>1
  <2>2. CASE ~(from < EntryCount)
    BY <1>1, <1>2, <1>3, <1>5, <2>2
  <2> QED BY <2>1, <2>2
<1> QED BY <1>4, <1>9

(* ... so that it is whole after entries are given up, and was before.     *)
LEMMA WholeGivenUp ==
    ASSUME NEW P \in PageType, Steady(P), NEW half, half = HalfWritten(P),
           NEW page, page = GivenUp(P, half), NEW g \in Headed(P)
    PROVE  IsWhole(page, g) <=> Whole(P, g)
<1>1. /\ EntryCount \in Nat /\ \A i \in Entries : i \in Nat /\ i < EntryCount
      /\ \A i \in Nat : i < EntryCount => i \in Entries
  BY NvsAssumption DEF Entries
<1>2. /\ g \in Entries /\ IsHeader(P.data[g])
      /\ LastOf(P, g) \in Nat /\ g <= LastOf(P, g)
  BY LastOfType DEF Headed
<1>3. LastOf(P, g) < EntryCount
  BY DEF Steady, Shape, Apart
<1>4. /\ page.data = P.data
      /\ \A i \in Entries : i \in half => page.table[i] = "ERASED"
      /\ \A i \in Entries : i \notin half => page.table[i] = P.table[i]
      /\ LastOf(page, g) = LastOf(P, g)
  BY GivenUpIs
<1>5. IsWhole(page, g) <=> \A j \in g .. LastOf(P, g) : page.table[j] = "WRITTEN"
  BY <1>2, <1>4 DEF IsWhole
<1>6. \A j : j \in g .. LastOf(P, g) <=> j \in Entries /\ InSpan(P, g, j)
  <2>1. \A j : j \in g .. LastOf(P, g) => j \in Nat /\ j < EntryCount /\ g <= j /\ j <= LastOf(P, g)
    BY <1>1, <1>2, <1>3
  <2>2. \A j : j \in Entries /\ g <= j /\ j <= LastOf(P, g) => j \in g .. LastOf(P, g)
    BY <1>1, <1>2
  <2> QED BY <1>1, <2>1, <2>2 DEF InSpan
<1>7. IsWhole(page, g) <=> \A j \in Entries : InSpan(P, g, j) => page.table[j] = "WRITTEN"
  BY <1>5, <1>6
<1>8. IsWhole(page, g) => Whole(P, g)
  BY <1>4, <1>7 DEF Whole
<1>9. ASSUME Whole(P, g), NEW j \in Entries, InSpan(P, g, j)
      PROVE  j \notin half
  <2>1. PICK to \in Nat : half = IF P.state = "ACTIVE" THEN NextFree(P) .. to - 1 ELSE {}
    BY HalfIs
  <2>2. CASE P.state = "ACTIVE"
    <3>1. LastOf(P, g) < NextFree(P)
      BY <1>9, <2>2, WholeBelow
    <3>2. PICK from : from = NextFree(P)
      OBVIOUS
    <3>3. from \in Nat
      BY <3>2, NextFreeIs
    <3>4. j < from
      BY <1>1, <1>2, <1>9, <3>1, <3>2, <3>3 DEF InSpan
    <3>5. half = from .. to - 1
      BY <2>1, <2>2, <3>2
    <3> QED BY <1>1, <1>9, <3>3, <3>4, <3>5
  <2>3. CASE P.state # "ACTIVE"
    BY <2>1, <2>3
  <2> QED BY <2>2, <2>3
<1> QED BY <1>4, <1>7, <1>8, <1>9 DEF Whole

(* Of two whole items with the same key Page::load erases the older one,   *)
(* when there is no third.                                                 *)
LEMMA LoadPageReplaces ==
    ASSUME FlashType, NEW p \in Pages, State(p) = "ACTIVE", NEW P, P = flash[p], Steady(P),
           NEW h \in Headed(P), NEW g \in Headed(P), h < g, Whole(P, h), Whole(P, g),
           P.data[h].key = P.data[g].key,
           \A j \in Headed(P) : j < g /\ Whole(P, j) /\ P.data[j].key = P.data[g].key => j = h
    PROVE  Hit(LoadPage(p), p, h)
<1>1. PICK s, half, page :
         s = LoadPage(p) /\ half = HalfWritten(P) /\ page = GivenUp(P, half)
  OBVIOUS
<1>2. P \in PageType /\ State(p) \in Loaded /\ P.state = "ACTIVE"
  BY DEF FlashType, Loaded, State
<1>3. Loads(s, p, P, half, page)
  BY <1>1, <1>2, LoadPageOps
<1>4. /\ page.data = P.data /\ page.state = P.state
      /\ Headed(page) = Headed(P) /\ Visited(page) = Headed(P)
  BY <1>1, <1>2, GivenUpIs
<1>5. \A j \in Headed(P) : IsWhole(page, j) <=> Whole(P, j)
  BY <1>1, <1>2, WholeGivenUp
<1>6. \A j \in Headed(P) : j \in Entries /\ IsHeader(P.data[j])
  BY DEF Headed
<1> DEFINE older == {j \in CopiesOf(page.data[g].key, page) : j < g /\ IsWhole(page, j)}
<1>7. \A j : j \in CopiesOf(page.data[g].key, page) <=>
             j \in Headed(P) /\ P.data[j].key = P.data[g].key
  BY <1>4, <1>6 DEF CopiesOf, ItemsIn
<1>8. older = {h}
  BY <1>5, <1>7
<1>9. Max(older) = h
  <2> HIDE DEF older
  <2>1. h \in Nat /\ older # {} /\ \A s1 \in older : s1 \in Nat /\ s1 <= h
    BY <1>6, <1>8, EntriesAreNat
  <2>2. Max(older) \in older
    BY <2>1, MaxIsGreatest
  <2> QED BY <1>8, <2>2
<1>10. Replaced(page, g) = {h}
  BY <1>2, <1>4, <1>8, <1>9 DEF Replaced
<1>11. Max(Replaced(page, g)) = h
  BY <1>10, ReplacedIs
<1>12. PICK c \in Nat : ErasedAt(s, c, p, P, h)
  BY <1>3, <1>4, <1>5, <1>10, <1>11 DEF Loads
<1>13. h \in Nat /\ LastOf(P, h) \in Nat /\ h <= LastOf(P, h)
  BY <1>2, <1>6, LastOfType, EntriesAreNat
<1>14. PICK e : e = AlterRange(p, h, LastOf(P, h), "ERASED")
  OBVIOUS
<1>15. Alters(e, p, "ERASED", h, LastOf(P, h))
  BY <1>13, <1>14, AlterRangeOps
<1>16. PICK y \in 1 .. Len(e) : h \in e[y].entries
  <2>1. h <= h
    BY <1>13
  <2> QED BY <1>13, <1>15, <2>1 DEF Alters
<1>17. e[y].op = "alter" /\ e[y].page = p
  BY <1>15 DEF Alters
<1>18. c + y \in 1 .. Len(s) /\ s[c + y] = e[y]
  BY <1>12, <1>14 DEF ErasedAt
<1>19. Hit(s, p, h)
  BY <1>16, <1>17, <1>18 DEF Hit
<1> QED BY <1>1, <1>19

(* So when the pages are loaded, none of them has a key twice.             *)
LEMMA LoadPagesKeys == PagesInv /\ DataInv /\ KeyInv /\ LoadPages => KeyInv'
<1> SUFFICES ASSUME PagesInv, DataInv, KeyInv, LoadPages PROVE KeyInv'
  OBVIOUS
<1>1. UNCHANGED disk /\ phase' = "manager"
  BY DEF LoadPages
<1>2. Recoverable' /\ Shadow'
  BY <1>1, SameItems DEF KeyInv
<1>3. PICK F : F = FlattenSeq([p \in Pages |-> LoadPage(p)])
  OBVIOUS
<1>4. todo' = F
  BY <1>3 DEF LoadPages
<1>5. FlashType /\ \A p \in Kept : Steady(flash[p])
  BY DEF PagesInv, DataInv
<1>6. Erasing(F) /\ \A p \in Kept : \A j : Hit(F, p, j) <=> Hit(LoadPage(p), p, j)
  BY <1>3, <1>5, LoadPagesErase
<1>7. ASSUME NEW p, NEW h, Item(p, h), ~Whole(flash[p], h)
      PROVE  Hit(F, p, h)
  <2>1. p \in Kept /\ h \in Headed(flash[p])
    BY <1>7 DEF Item
  <2>2. ErasingPage(F, p, flash[p])
    BY <1>6, <2>1 DEF Erasing
  <2>3. PICK j \in Entries : InSpan(flash[p], h, j) /\ flash[p].table[j] # "WRITTEN"
    BY <1>7 DEF Whole
  <2> QED BY <2>1, <2>2, <2>3 DEF ErasingPage
<1>8. ASSUME NEW p, NEW h, NEW g, Twins(p, h, p, g), Whole(flash[p], h), Whole(flash[p], g), h < g
      PROVE  Hit(F, p, h)
  <2>1. PICK P : P = flash[p]
    OBVIOUS
  <2>2. p \in Kept /\ p \in Pages /\ h \in Headed(P) /\ g \in Headed(P)
    BY <1>8, <2>1, ItemIs DEF Twins, Item
  <2>3. \A j \in Headed(P) : j \in Nat
    BY EntriesAreNat DEF Headed
  <2>4. Newest(p, h) \/ Newest(p, g)
    BY <1>8 DEF KeyInv, Recoverable
  <2>5. ~Newest(p, h)
    BY <1>8, <2>1, <2>2, <2>3 DEF Newest
  <2>6. State(p) = "ACTIVE"
    BY <2>4, <2>5 DEF Newest
  <2>7. ASSUME NEW j \in Headed(P), j < g, Whole(P, j), P.data[j].key = P.data[g].key
        PROVE  j = h
    <3>1. SUFFICES ASSUME j # h PROVE FALSE
      OBVIOUS
    <3>2. Twins(p, h, p, j)
      BY <1>8, <2>1, <2>2, <2>7, <3>1 DEF Twins, Item, KeyAt
    <3>3. Newest(p, h) \/ Newest(p, j)
      BY <1>8, <2>1, <2>7, <3>2 DEF KeyInv, Recoverable
    <3>4. ~Newest(p, j)
      BY <2>1, <2>2, <2>3, <2>7 DEF Newest
    <3> QED BY <2>5, <3>3, <3>4
  <2>8. P.data[h].key = P.data[g].key
    BY <1>8, <2>1 DEF Twins, KeyAt
  <2>9. Steady(P)
    BY <1>5, <2>1, <2>2
  <2>10. Hit(LoadPage(p), p, h)
    BY <1>5, <1>8, <2>1, <2>2, <2>6, <2>7, <2>8, <2>9, LoadPageReplaces
  <2> QED BY <1>6, <2>2, <2>10
<1>9. SinglePages(F)
  <2> SUFFICES ASSUME NEW p, NEW h, NEW g, Twins(p, h, p, g)
               PROVE  Hit(F, p, h) \/ Hit(F, p, g)
    BY DEF SinglePages
  <2>1. Item(p, h) /\ Item(p, g) /\ h # g /\ Twins(p, g, p, h)
    BY DEF Twins
  <2>2. h \in Nat /\ g \in Nat
    BY <2>1, ItemIs, EntriesAreNat
  <2>3. h < g \/ g < h
    BY <2>1, <2>2
  <2> QED BY <1>7, <1>8, <2>1, <2>3
<1>10. SinglePages(todo)'
  BY <1>1, <1>4, <1>9, SameItems
<1> QED BY <1>1, <1>2, <1>10 DEF KeyInv

(* The items found under a key, in a page that is sound; ...               *)
LEMMA CopiesAre ==
    ASSUME FlashType, Settled, NEW p \in Kept
    PROVE  /\ ItemsIn(flash[p]) = Headed(flash[p])
           /\ \A k, h : h \in CopiesOf(k, flash[p]) <=> Item(p, h) /\ KeyAt(p, h) = k
<1>1. p \in Pages /\ flash[p] \in PageType /\ Shape(flash[p])
  BY DEF Kept, Live, FlashType, Settled, Sound
<1>2. Visited(flash[p]) = Headed(flash[p])
  BY <1>1, VisitedHeaders
<1>3. ItemsIn(flash[p]) = Headed(flash[p])
  BY <1>2 DEF ItemsIn, Headed
<1> QED BY <1>3 DEF CopiesOf, Item, KeyAt

(* ... an item that is erased; and the one with the key that is.           *)
LEMMA EraseItemHits ==
    ASSUME FlashType, NEW p \in Pages, NEW h \in Entries
    PROVE  Hit(EraseItem(p, h), p, h)
<1>1. h \in Nat /\ LastOf(flash[p], h) \in Nat /\ h <= LastOf(flash[p], h)
  BY LastOfType, EntriesAreNat DEF FlashType
<1>2. PICK e : e = AlterRange(p, h, LastOf(flash[p], h), "ERASED")
  OBVIOUS
<1>3. Alters(e, p, "ERASED", h, LastOf(flash[p], h))
  BY <1>1, <1>2, AlterRangeOps
<1>4. PICK y \in 1 .. Len(e) : h \in e[y].entries
  <2>1. h <= h
    BY <1>1
  <2> QED BY <1>1, <1>3, <2>1 DEF Alters
<1>5. e[y].op = "alter" /\ e[y].page = p
  BY <1>3 DEF Alters
<1>6. Hit(e, p, h)
  BY <1>4, <1>5 DEF Hit
<1> QED BY <1>2, <1>6 DEF EraseItem

LEMMA EraseKeyHits ==
    ASSUME FlashType, Settled, NEW p, NEW h, Item(p, h), NEW k, KeyAt(p, h) = k,
           \A j : Item(p, j) /\ KeyAt(p, j) = k => h <= j
    PROVE  Hit(EraseKey(p, k), p, h)
<1>1. p \in Kept /\ p \in Pages /\ h \in Entries
  BY ItemIs DEF Item
<1>2. PICK S : S = CopiesOf(k, flash[p])
  OBVIOUS
<1>3. \A j : j \in S <=> Item(p, j) /\ KeyAt(p, j) = k
  BY <1>1, <1>2, CopiesAre
<1>4. S \in SUBSET Nat /\ h \in S
  BY <1>3, ItemIs, EntriesAreNat
<1>5. Min(S) \in S /\ \A m \in S : Min(S) <= m
  BY <1>4, MinIsLeast
<1>6. PICK m : m = Min(S) /\ m \in Nat /\ m <= h /\ h <= m
  BY <1>3, <1>4, <1>5
<1>7. m = h
  BY <1>4, <1>6
<1>8. EraseKey(p, k) = EraseItem(p, h)
  BY <1>2, <1>6, <1>7 DEF EraseKey
<1> QED BY <1>1, <1>8, EraseItemHits

(* Settled pages have twins only where one is the newest item and the      *)
(* other is in an older page.                                              *)
LEMMA SettledTwins ==
    ASSUME FlashType, Headers, Settled, Recoverable, SinglePages(<<>>),
           NEW p, NEW h, NEW q, NEW g, Twins(p, h, q, g)
    PROVE  \/ Newest(p, h) /\ p = Last(order) /\ q # p
           \/ Newest(q, g) /\ q = Last(order) /\ q # p
<1>1. p \in Kept /\ q \in Kept /\ p \in Pages /\ q \in Pages
  BY ItemIs DEF Twins, Item
<1>2. Whole(flash[p], h) /\ Whole(flash[q], g)
  BY <1>1 DEF Twins, Item, Settled, Sound, Complete, Whole
<1>3. Newest(p, h) \/ Newest(q, g)
  BY <1>2 DEF Recoverable
<1>4. p # q
  <2>1. \A j, i : ~Hit(<<>>, j, i)
    BY DEF Hit
  <2> QED BY <2>1 DEF SinglePages
<1> QED BY <1>1, <1>3, <1>4 DEF Newest, Headers

(* PageManager::load erases the older one of them.                         *)
LEMMA OlderCopyHits ==
    ASSUME FlashType, Headers, order # <<>>, Settled, Recoverable, SinglePages(<<>>),
           NEW p, NEW h, NEW q, NEW g, Twins(p, h, q, g), Newest(p, h)
    PROVE  Hit(OlderCopy, q, g)
<1>1. /\ p \in Kept /\ q \in Kept /\ p \in Pages /\ q \in Pages
      /\ Item(p, h) /\ Item(q, g) /\ KeyAt(p, h) = KeyAt(q, g)
  BY ItemIs DEF Twins, Item
<1>2. p = Last(order) /\ State(p) = "ACTIVE"
  BY <1>1 DEF Newest, Headers
<1>3. \A r \in Pages : State(r) # "FREEING"
  BY <1>1, <1>2 DEF Kept
<1>4. \A r, j, s, i : Twins(r, j, s, i) => r # s /\ (r = p \/ s = p)
  BY <1>2, SettledTwins
<1>5. q # p
  BY <1>4
<1>6. Front(order) \in Seq(Pages) /\ Range(Front(order)) = Live \ {p}
  BY <1>2, FrontRange DEF Headers
<1>7. PICK k : k = KeyAt(p, h)
  OBVIOUS
<1>8. Max(ItemsIn(flash[p])) = h
  <2>1. PICK S : S = ItemsIn(flash[p])
    OBVIOUS
  <2>2. S = Headed(flash[p]) /\ h \in S
    BY <1>1, <2>1, CopiesAre DEF Item
  <2>3. \A s1 \in S : s1 \in Nat /\ s1 <= h
    BY <2>2, EntriesAreNat DEF Newest, Headed
  <2>4. h \in Nat /\ S # {}
    BY <2>2, <2>3
  <2>5. Max(S) \in S /\ \A m \in S : m <= Max(S)
    BY <2>3, <2>4, MaxIsGreatest
  <2>6. Max(S) \in Nat /\ Max(S) <= h /\ h <= Max(S)
    BY <2>2, <2>3, <2>5
  <2>7. Max(S) = h
    BY <2>4, <2>6
  <2> QED BY <2>1, <2>7
<1>9. ItemsIn(flash[p]) # {}
  BY <1>1, CopiesAre DEF Item
<1> DEFINE older == {r \in Range(Front(order)) : flash[r].state # "FREEING" /\ CopiesOf(k, flash[r]) # {}}
<1>10. OlderCopy = IF older = {} THEN <<>> ELSE EraseKey(First(order, older), k)
  BY <1>2, <1>7, <1>8, <1>9 DEF OlderCopy, KeyAt
<1>11. \A r \in older : r \in Kept
  BY <1>3, <1>6 DEF Kept, Live
<1>12. older = {q}
  <2>1. q \in older
    <3>1. q \in Range(Front(order))
      BY <1>1, <1>5, <1>6 DEF Kept
    <3>2. g \in CopiesOf(k, flash[q])
      BY <1>1, <1>7, CopiesAre
    <3> QED BY <1>1, <1>3, <3>1, <3>2 DEF State
  <2>2. ASSUME NEW r \in older PROVE r = q
    <3>1. r # p
      BY <1>6
    <3>2. PICK i : i \in CopiesOf(k, flash[r])
      OBVIOUS
    <3>3. Item(r, i) /\ KeyAt(r, i) = k
      BY <1>11, <3>2, CopiesAre
    <3>4. r # q => Twins(r, i, q, g)
      BY <1>1, <1>7, <3>3 DEF Twins
    <3> QED BY <1>4, <1>5, <3>1, <3>4
  <2> HIDE DEF older
  <2> QED BY <2>1, <2>2
<1>13. older \subseteq Range(order) /\ order \in Seq(Pages)
  BY <1>6 DEF Headers
<1> HIDE DEF older
<1>14. First(order, older) = q
  <2>1. older # {}
    BY <1>12
  <2>2. First(order, older) \in older
    BY <1>13, <2>1, FoundIsThere
  <2> QED BY <1>12, <2>2
<1>15. OlderCopy = EraseKey(q, k)
  BY <1>10, <1>12, <1>14
<1>16. \A j : Item(q, j) /\ KeyAt(q, j) = k => g <= j
  <2> TAKE j
  <2> HAVE Item(q, j) /\ KeyAt(q, j) = k
  <2>1. j = g
    BY <1>1, <1>4, <1>7 DEF Twins
  <2>2. g \in Nat
    BY <1>1, ItemIs, EntriesAreNat
  <2> QED BY <2>1, <2>2
<1>17. Hit(EraseKey(q, k), q, g)
  BY <1>1, <1>7, <1>16, EraseKeyHits
<1> QED BY <1>15, <1>17

(* After that no key is in flash twice.                                    *)
LEMMA LoadManagerKeys == PagesInv /\ DataInv /\ KeyInv /\ LoadManager => KeyInv'
<1> SUFFICES ASSUME PagesInv, DataInv, KeyInv, LoadManager PROVE KeyInv'
  OBVIOUS
<1>1. UNCHANGED disk /\ phase = "manager" /\ todo = <<>>
  BY DEF LoadManager
<1>2. Recoverable' /\ Shadow'
  BY <1>1, SameItems DEF KeyInv
<1>3. FlashType /\ Headers
  BY DEF PagesInv
<1>4. Settled
  BY <1>1, ErasingNothing DEF DataInv
<1>5. Recoverable /\ SinglePages(<<>>)
  BY <1>1 DEF KeyInv
<1>6. CASE order = <<>>
  <2>1. PICK free : free = InOrder(Pages \ Range(order))
    OBVIOUS
  <2>2. phase' = "ready" /\ todo' = Activate(Head(free))
    BY <1>6, <2>1 DEF LoadManager
  <2>3. Live = {}
    BY <1>3, <1>6, RangeMembers DEF Headers
  <2>4. Kept = {} /\ \A v \in Pages : State(v) \notin Loaded
    BY <2>3 DEF Kept, Live
  <2>5. Single
    BY <2>4 DEF Single, Twins, Item
  <2>6. Single' /\ \A v \in Pages : State(v)' \notin Loaded
    BY <1>1, <2>4, <2>5, SameItems
  <2>7. KeyMoves'
    BY <2>6 DEF KeyMoves
  <2> QED BY <1>2, <2>2, <2>6, <2>7 DEF KeyInv
<1>7. CASE order # <<>>
  <2>1. phase' = "freeing" /\ todo' = OlderCopy
    BY <1>7 DEF LoadManager
  <2>2. ASSUME NEW p, NEW h, NEW q, NEW g, Twins(p, h, q, g)
        PROVE  Hit(OlderCopy, p, h) \/ Hit(OlderCopy, q, g)
    <3>1. Newest(p, h) \/ Newest(q, g)
      BY <1>3, <1>4, <1>5, <2>2, SettledTwins
    <3>2. Newest(p, h) => Hit(OlderCopy, q, g)
      BY <1>3, <1>4, <1>5, <1>7, <2>2, OlderCopyHits
    <3>3. Twins(q, g, p, h)
      BY <2>2 DEF Twins
    <3>4. Newest(q, g) => Hit(OlderCopy, p, h)
      BY <1>3, <1>4, <1>5, <1>7, <3>3, OlderCopyHits
    <3> QED BY <3>1, <3>2, <3>4
  <2>3. SingleAfter(todo')
    BY <2>1, <2>2 DEF SingleAfter
  <2>4. SingleAfter(todo)'
    BY <1>1, <2>3, SameItems
  <2> QED BY <1>2, <2>1, <2>4 DEF KeyInv
<1> QED BY <1>6, <1>7

-----------------------------------------------------------------------------
(* The moving of a page.                                                   *)

(* The copy of a page has the items of the page, each once.                *)
LEMMA LikeCopy ==
    ASSUME NEW P \in PageType, Sound(P),
           \A h, i \in Headed(P) : P.data[h].key = P.data[i].key => h = i
    PROVE  CopyOf(P) \in PageType /\ Like(CopyOf(P), P)
<1>1. PICK C, F : C = Copied(P) /\ F = CopyOf(P)
  OBVIOUS
<1>2. /\ F \in PageType
      /\ \A j \in C : /\ Below(C, j) \in Entries
                      /\ F.table[Below(C, j)] = "WRITTEN"
                      /\ F.data[Below(C, j)] = P.data[j]
      /\ \A i \in Entries : Taken(C, i) \/ (F.table[i] = "EMPTY" /\ F.data[i] = Blank)
  BY <1>1, CopyOfIs
<1>3. /\ C \in SUBSET Entries
      /\ \A j \in Entries : j \in C <=> \E h \in Headed(P) : InSpan(P, h, j)
      /\ \A j \in C : P.table[j] = "WRITTEN"
  BY <1>1, CopiedIs
<1>4. ASSUME NEW h \in Headed(F)
      PROVE  \E j \in Headed(P) : j \in C /\ Below(C, j) = h /\ F.data[h] = P.data[j]
  <2>1. h \in Entries /\ F.table[h] = "WRITTEN" /\ IsHeader(F.data[h])
    BY DEF Headed
  <2>2. Taken(C, h)
    BY <1>2, <2>1
  <2>3. PICK j \in C : Below(C, j) = h
    BY <2>2 DEF Taken
  <2>4. F.data[h] = P.data[j]
    BY <1>2, <2>3
  <2>5. j \in Headed(P)
    BY <1>3, <2>1, <2>4 DEF Headed
  <2> QED BY <2>3, <2>4, <2>5
<1>5. ASSUME NEW g \in Headed(P)
      PROVE  \E h \in Headed(F) : F.data[h] = P.data[g]
  <2>1. g \in Entries /\ IsHeader(P.data[g]) /\ g <= LastOf(P, g) /\ g \in Nat
    BY LastOfType, EntriesAreNat DEF Headed
  <2>2. g <= g
    BY <2>1
  <2>3. g \in C
    BY <1>3, <2>1, <2>2 DEF InSpan
  <2>4. Below(C, g) \in Headed(F) /\ F.data[Below(C, g)] = P.data[g]
    BY <1>2, <2>1, <2>3 DEF Headed
  <2> QED BY <2>4
<1>6. ASSUME NEW h \in Headed(F), NEW i \in Headed(F), F.data[h].key = F.data[i].key
      PROVE  h = i
  BY <1>4, <1>6
<1>7. Like(F, P)
  BY <1>4, <1>5, <1>6 DEF Like
<1> QED BY <1>1, <1>2, <1>7

(* Nothing is left of the erasures: there are no twins.                    *)
LEMMA SingleNow == SingleAfter(<<>>) => Single
<1>1. \A p, h : ~Hit(<<>>, p, h)
  BY DEF Hit
<1> QED BY <1>1 DEF SingleAfter, Single

(* A page that is kept has each key once.                                  *)
LEMMA SingleInPage ==
    ASSUME Single, NEW p \in Kept
    PROVE  \A h, i \in Headed(flash[p]) : flash[p].data[h].key = flash[p].data[i].key => h = i
BY DEF Single, Twins, Item, KeyAt

(* So what requestNewPage and nvs_flash_init queue for page v moves its    *)
(* items.                                                                  *)
LEMMA RefillsItems ==
    ASSUME FlashType, Settled, Single, NEW v \in Kept, NEW s, NEW q, NEW P, Refills(s, q, P, v),
           NEW w, s[Len(s)] = Erase(w)
    PROVE  MovesItems(s, q, P, flash[w])
<1>1. v \in Pages /\ flash[v] \in PageType /\ Sound(flash[v])
  BY DEF Kept, Live, FlashType, Settled
<1>2. CopyOf(flash[v]) \in PageType /\ Like(CopyOf(flash[v]), flash[v])
  BY <1>1, SingleInPage, LikeCopy
<1>3. w = v
  BY DEF Refills, Erase
<1> QED BY <1>2, <1>3 DEF MovesItems, Refills

LEMMA RefillsKeyMoves ==
    ASSUME FlashType, Settled, Single, UNCHANGED disk,
           NEW v \in Kept, Refills(todo', Back', flash[Back'], v)
    PROVE  KeyMoves'
<1> SUFFICES ASSUME NEW w \in Pages, todo'[Len(todo')] = Erase(w)
             PROVE  MovesItems(todo', Back', flash'[Back'], flash'[w])
  BY DEF KeyMoves
<1>1. flash' = flash
  BY DEF disk
<1> QED BY <1>1, RefillsItems

(* The end of nvs_flash_init.                                              *)
LEMMA FinishFreeingKeys == PagesInv /\ DataInv /\ KeyInv /\ FinishFreeing => KeyInv'
<1> SUFFICES ASSUME PagesInv, DataInv, KeyInv, FinishFreeing PROVE KeyInv'
  OBVIOUS
<1>1. /\ phase' = "ready" /\ Settled /\ UNCHANGED disk
      /\ \/ todo' = <<>>
         \/ \E v \in Kept : Refills(todo', Back', flash[Back'], v)
  BY FinishFreeingTodo
<1>2. Recoverable' /\ Shadow'
  BY <1>1, SameItems DEF KeyInv
<1>3. Single
  <2>1. phase = "freeing" /\ todo = <<>>
    BY DEF FinishFreeing
  <2> QED BY <2>1, SingleNow DEF KeyInv
<1>4. KeyMoves'
  <2>1. todo' = <<>> => KeyMoves'
    BY DEF KeyMoves
  <2> QED BY <1>1, <1>3, <2>1, RefillsKeyMoves DEF PagesInv
<1>5. Single'
  BY <1>1, <1>3, SameItems
<1> QED BY <1>1, <1>2, <1>4, <1>5 DEF KeyInv

(* What nvs_set_* has found is where it was, as long as flash is the same. *)
LEMMA SameFinds ==
    ASSUME UNCHANGED <<disk, call, findPage>>, NEW b, NEW x
    PROVE  /\ \A p : Finds(p, b, x) => Finds(p, b, x)'
           /\ Finds(findPage, b, x) => Finds(OldPage, b, x)'
<1>1. /\ findPage' = findPage /\ call' = call
      /\ \A p, h : Item(p, h)' <=> Item(p, h)
      /\ \A p, h : KeyAt(p, h)' = KeyAt(p, h)
      /\ \A p : State(p)' = State(p)
  BY SameItems
<1>2. \A p : Finds(p, b, x) => Finds(p, b, x)'
  BY <1>1 DEF Finds
<1>3. ASSUME Finds(findPage, b, x)
      PROVE  Finds(OldPage, b, x)'
  <2>1. CASE findPage = None
    BY <1>1, <1>3, <2>1 DEF Finds
  <2>2. CASE findPage # None
    <3>1. PICK g : Item(findPage, g) /\ KeyAt(findPage, g) = call.key /\ ~(findPage = b /\ g = x)
      BY <1>3, <2>2 DEF Finds
    <3>2. State(findPage) # "UNINITIALIZED"
      BY <3>1, ItemIs DEF Loaded
    <3>3. OldPage' = findPage
      BY <1>1, <3>2 DEF OldPage
    <3> QED BY <1>1, <2>2, <3>1, <3>3 DEF Finds
  <2> QED BY <2>1, <2>2
<1> QED BY <1>2, <1>3

(* requestNewPage.                                                         *)
LEMMA RequestNewPageKeys == PagesInv /\ DataInv /\ KeyInv /\ RequestNewPage => KeyInv'
<1> SUFFICES ASSUME PagesInv, DataInv, KeyInv, RequestNewPage PROVE KeyInv'
  OBVIOUS
<1>1. /\ UNCHANGED disk /\ Settled
      /\ \/ phase' = "error" /\ todo' = <<>>
         \/ phase' = "again" /\ (todo' = <<>> \/ (todo' = <<Erase(Back')>> /\ State(Back') = "CORRUPT"))
         \/ phase' = "again" /\ \E v \in Kept : Refills(todo', Back', flash[Back'], v)
  BY RequestNewPageTodo
<1>2. Recoverable' /\ Shadow'
  BY <1>1, SameItems DEF KeyInv
<1>3. phase = "request" /\ UNCHANGED <<call, findPage>>
  BY DEF RequestNewPage
<1>4. Single /\ Single'
  BY <1>1, <1>3, SameItems DEF KeyInv
<1>5. phase' = "again" => KeyMoves'
  <2>1. todo' = <<>> => KeyMoves'
    BY DEF KeyMoves
  <2>2. ASSUME todo' = <<Erase(Back')>>, State(Back') = "CORRUPT"
        PROVE  KeyMoves'
    <3>1. PICK b : b = Back'
      OBVIOUS
    <3>2. todo'[Len(todo')] = Erase(b)
      BY <2>2, <3>1
    <3>3. \A w : todo'[Len(todo')] = Erase(w) => w = b
      BY <3>2 DEF Erase
    <3>4. State(b)' = "CORRUPT"
      BY <1>1, <2>2, <3>1, SameItems
    <3> QED BY <3>3, <3>4 DEF KeyMoves, Loaded
  <2> QED BY <1>1, <1>4, <2>1, <2>2, RefillsKeyMoves DEF PagesInv
<1>6. Finds(OldPage, 0, 0)'
  BY <1>1, <1>3, SameFinds DEF KeyInv
<1> QED BY <1>1, <1>2, <1>4, <1>5, <1>6 DEF KeyInv

-----------------------------------------------------------------------------
(* The calls.                                                              *)

(* When nothing is moved, the pages in use are all kept, and in the list.  *)
LEMMA PlainKept ==
    ASSUME FlashType, RamType, Lists, Plain
    PROVE  /\ Kept = Live /\ Kept \subseteq Range(pageList)
           /\ \A p \in Pages : State(p) # "FREEING"
<1>1. Back \in Pages /\ State(Back) \in {"UNINITIALIZED", "ACTIVE", "FULL"}
  BY BackIsPage DEF Plain
<1>2. \A p \in Pages : p # Back => State(p) \in {"UNINITIALIZED", "CORRUPT", "FULL"}
  BY PlainStates DEF Plain
<1>3. \A p \in Pages : State(p) # "FREEING"
  BY <1>1, <1>2
<1>4. Kept = Live
  BY <1>3 DEF Kept, Live
<1>5. ASSUME NEW p \in Live PROVE p \in Range(pageList)
  <2>1. p \in Pages /\ State(p) \notin {"UNINITIALIZED", "CORRUPT"}
    BY LiveStates DEF Live
  <2>2. p \notin Range(freeList)
    BY <2>1 DEF Plain, Unused
  <2> QED BY <2>1, <2>2 DEF Lists
<1> QED BY <1>3, <1>4, <1>5

(* Storage::findItem finds the item with the key, if there is one.         *)
LEMMA FindPageIs ==
    ASSUME PagesInv, Settled, Lists, Plain, NEW k
    PROVE  /\ FindPage(k) = None => \A q, g : Item(q, g) => KeyAt(q, g) # k
           /\ FindPage(k) # None => \E g : Item(FindPage(k), g) /\ KeyAt(FindPage(k), g) = k
           /\ \A g : Item(FindPage(k), g) => FindPage(k) \in Pages
<1>1. FlashType /\ RamType /\ Headers /\ pageList \in Seq(Pages)
  BY DEF PagesInv, RamType
<1>2. Kept = Live /\ Kept \subseteq Range(pageList)
  BY <1>1, PlainKept
<1> DEFINE found == {p \in Range(pageList) : CopiesOf(k, flash[p]) # {}}
<1>3. None \notin Pages
  BY NoPageAssumption DEF Pages
<1>4. found # {} => First(pageList, found) \in Pages
  <2>1. found \subseteq Range(pageList)
    OBVIOUS
  <2> HIDE DEF found
  <2> QED BY <1>1, <2>1, FoundIsThere
<1>5. FindPage(k) = IF found = {} THEN None ELSE First(pageList, found)
  BY DEF FindPage
<1>6. ASSUME FindPage(k) = None, NEW q, NEW g, Item(q, g), KeyAt(q, g) = k
      PROVE  FALSE
  <2>1. found = {}
    BY <1>3, <1>4, <1>5, <1>6
  <2>2. q \in Kept
    BY <1>6 DEF Item
  <2>3. g \in CopiesOf(k, flash[q])
    BY <1>1, <1>6, <2>2, CopiesAre
  <2> QED BY <1>2, <2>1, <2>2, <2>3
<1>7. ASSUME FindPage(k) # None
      PROVE  \E g : Item(FindPage(k), g) /\ KeyAt(FindPage(k), g) = k
  <2>1. PICK p \in Pages : p = FindPage(k) /\ CopiesOf(k, flash[p]) # {}
    BY <1>1, <1>7, FindPageType
  <2>2. PICK g : g \in CopiesOf(k, flash[p])
    BY <2>1
  <2>3. g \in Visited(flash[p])
    BY <2>2, CopiesType
  <2>4. p \in Kept
    BY <1>1, <1>2, <2>3, WrittenIsLive
  <2>5. Item(p, g) /\ KeyAt(p, g) = k
    BY <1>1, <2>2, <2>4, CopiesAre
  <2> QED BY <2>1, <2>5
<1>8. \A g : Item(FindPage(k), g) => FindPage(k) \in Pages
  BY ItemIs
<1> QED BY <1>6, <1>7, <1>8

(* The item is written where there is none yet.                            *)
LEMMA WriteKeys ==
    ASSUME PagesInv, Settled, Lists, Plain, UNCHANGED <<disk, pageList, freeList>>,
           Recoverable, Shadow, Single, Finds(OldPage, 0, 0)',
           NEW k \in Keys, NEW v \in Values, Fits(Back, v), todo' = WriteItem(Back, k, v),
           phase' = "written", call'.key = k, call'.value = v
    PROVE  KeyInv'
<1>1. UNCHANGED disk
  OBVIOUS
<1>2. Recoverable' /\ Shadow' /\ Single'
  BY <1>1, SameItems
<1>3. PICK h \in Entries : WritesAt(h)' /\ (State(Back) # "UNINITIALIZED" => Unwritten(flash[Back], h))
  BY WriteBegins
<1>4. SingleBut(Back, h)'
  BY <1>2 DEF Single, SingleBut
<1>5. ~Item(Back, h)
  <2> SUFFICES ASSUME Item(Back, h) PROVE FALSE
    OBVIOUS
  <2>1. State(Back) \in Loaded /\ flash[Back].table[h] = "WRITTEN"
    BY ItemIs
  <2>2. Unwritten(flash[Back], h)
    BY <1>3, <2>1 DEF Loaded
  <2>3. h <= h
    BY EntriesAreNat
  <2> QED BY <2>1, <2>2, <2>3 DEF Unwritten
<1>6. Back' = Back
  BY DEF Back
<1>7. ~Item(Back, h)'
  <2>1. \A p, i : Item(p, i)' <=> Item(p, i)
    BY <1>1, SameItems
  <2> QED BY <1>5, <1>6, <2>1 DEF Item
<1>8. Finds(OldPage, Back, h)'
  <2>1. 0 \notin Pages
    BY DEF Pages
  <2>2. \A g : ~Item(0, g)'
    BY <2>1 DEF Item, Kept, Live
  <2> QED BY <1>7, <2>2 DEF Finds
<1> QED BY <1>2, <1>3, <1>4, <1>8 DEF KeyInv

(* nvs_set_*.                                                              *)
LEMMA SetItemKeys == PagesInv /\ DataInv /\ KeyInv /\ SetItem => KeyInv'
<1> SUFFICES ASSUME PagesInv, DataInv, KeyInv, SetItem PROVE KeyInv'
  OBVIOUS
<1>1. phase = "ready" /\ todo = <<>> /\ UNCHANGED <<disk, pageList, freeList>> /\ UNCHANGED disk
  BY DEF SetItem
<1>2. PICK k \in Keys, v \in Values :
          /\ call' = [op |-> "set", key |-> k, value |-> v] /\ findPage' = FindPage(k)
          /\ IF Fits(Back, v)
             THEN todo' = WriteItem(Back, k, v) /\ phase' = "written"
             ELSE phase' = "request"
  <2>1. \A k \in Keys : ValuesOf[k] \subseteq Values
    BY DEF Values
  <2> QED BY <2>1 DEF SetItem
<1>3. Lists /\ Plain /\ Settled
  BY <1>1, IdleIsPlain DEF PagesInv, UpPhases, DataInv
<1>4. Recoverable /\ Shadow /\ Single
  BY <1>1 DEF KeyInv
<1>5. Recoverable' /\ Shadow' /\ Single'
  BY <1>1, <1>4, SameItems
<1>6. call'.key = k /\ call'.value = v
  BY <1>2
<1>7. /\ findPage' = None => \A q, g : Item(q, g) => KeyAt(q, g) # k
      /\ findPage' # None => \E g : Item(findPage', g) /\ KeyAt(findPage', g) = k
  BY <1>2, <1>3, FindPageIs
<1>8. PICK f : f = findPage'
  OBVIOUS
<1>9. /\ f = None => \A q, g : Item(q, g)' => KeyAt(q, g)' # k
      /\ f # None => \E g : Item(f, g)' /\ KeyAt(f, g)' = k /\ f # 0 /\ State(f)' # "UNINITIALIZED"
  <2>1. /\ \A p, h : Item(p, h)' <=> Item(p, h)
        /\ \A p, h : KeyAt(p, h)' = KeyAt(p, h)
        /\ \A p : State(p)' = State(p)
    BY <1>1, SameItems
  <2>2. \A g : Item(f, g) => f # 0 /\ State(f) # "UNINITIALIZED"
    BY ItemIs DEF Pages, Loaded
  <2> QED BY <1>7, <1>8, <2>1, <2>2
<1>10. Finds(findPage, 0, 0)'
  BY <1>6, <1>8, <1>9 DEF Finds
<1>11. Finds(OldPage, 0, 0)'
  <2>1. f # None => OldPage' = f
    BY <1>8, <1>9 DEF OldPage
  <2> QED BY <1>6, <1>8, <1>9, <2>1 DEF Finds
<1>12. CASE Fits(Back, v)
  <2>1. todo' = WriteItem(Back, k, v) /\ phase' = "written"
    BY <1>2, <1>12
  <2> QED BY <1>1, <1>3, <1>4, <1>6, <1>11, <1>12, <2>1, WriteKeys
<1>13. CASE ~Fits(Back, v)
  <2>1. phase' = "request"
    BY <1>2, <1>13
  <2> QED BY <1>5, <1>10, <2>1 DEF KeyInv
<1> QED BY <1>12, <1>13

LEMMA WriteAgainKeys == PagesInv /\ DataInv /\ KeyInv /\ WriteAgain => KeyInv'
<1> SUFFICES ASSUME PagesInv, DataInv, KeyInv, WriteAgain PROVE KeyInv'
  OBVIOUS
<1>1. /\ phase = "again" /\ todo = <<>> /\ UNCHANGED disk
      /\ UNCHANGED <<disk, pageList, freeList, call, findPage, reply>>
  BY DEF WriteAgain
<1>2. PICK k \in Keys, v \in Values : k = call.key /\ v = call.value
  BY <1>1 DEF PagesInv, RamType
<1>3. Lists /\ Plain /\ Settled
  BY <1>1, IdleIsPlain DEF PagesInv, UpPhases, DataInv
<1>4. Recoverable /\ Shadow /\ Single /\ Finds(OldPage, 0, 0)
  BY <1>1 DEF KeyInv
<1>5. Recoverable' /\ Shadow' /\ Single'
  BY <1>1, <1>4, SameItems
<1>6. CASE Fits(Back, call.value)
  <2>1. todo' = WriteItem(Back, call.key, call.value) /\ phase' = "written"
    BY <1>6 DEF WriteAgain
  <2>2. Fits(Back, v) /\ todo' = WriteItem(Back, k, v) /\ call'.key = k /\ call'.value = v
    BY <1>1, <1>2, <1>6, <2>1
  <2>3. OldPage' = OldPage
    BY <1>1, SameItems DEF OldPage, Back
  <2>4. Finds(OldPage, 0, 0)'
    <3>1. PICK p : p = OldPage
      OBVIOUS
    <3>2. Finds(p, 0, 0)'
      BY <1>1, <1>4, <3>1, SameFinds
    <3> QED BY <2>3, <3>1, <3>2 DEF Finds
  <2> QED BY <1>1, <1>3, <1>4, <2>1, <2>2, <2>4, WriteKeys
<1>7. CASE ~Fits(Back, call.value)
  <2>1. phase' = "error"
    BY <1>7 DEF WriteAgain
  <2> QED BY <1>5, <2>1 DEF KeyInv
<1> QED BY <1>6, <1>7

(* When the item is written, it is the last one of the page, and has the   *)
(* key of the call.                                                        *)
LEMMA WrittenItem ==
    ASSUME NEW P \in PageType, NEW q, NEW h, NEW k, NEW v, Writing(<<>>, P, q, h, k, v)
    PROVE  /\ h \in Entries /\ P.data[h].key = k
           /\ \A g \in Headed(P) : g # h => g < h
<1>1. P.data[h] = Part(k, v, 0)
  BY DEF Writing, ToProgram, ToMark, ToFollow
<1>2. P.data[h].key = k
  BY <1>1 DEF Part
<1>3. h \in Entries /\ \A g \in Headed(P) : g # h => LastOf(P, g) < h
  BY DEF Writing, Room
<1>4. ASSUME NEW g \in Headed(P), g # h PROVE g < h
  <2>1. g \in Nat /\ h \in Nat /\ LastOf(P, g) \in Nat /\ g <= LastOf(P, g)
    BY <1>3, LastOfType, EntriesAreNat DEF Headed
  <2> QED BY <1>3, <1>4, <2>1
<1> QED BY <1>2, <1>3, <1>4

(* nvs_set_* erases the item that is replaced: it finds it, wherever it    *)
(* has been moved.                                                         *)
LEMMA EraseOldKeys == PagesInv /\ DataInv /\ KeyInv /\ EraseOld => KeyInv'
<1> SUFFICES ASSUME PagesInv, DataInv, KeyInv, EraseOld PROVE KeyInv'
  OBVIOUS
<1>1. phase = "written" /\ todo = <<>> /\ UNCHANGED disk
  BY DEF EraseOld
<1>2. Recoverable' /\ Shadow'
  BY <1>1, SameItems DEF KeyInv
<1>3. Lists /\ Plain /\ Settled /\ FlashType /\ RamType
  BY <1>1, IdleIsPlain, WrittenSettled DEF PagesInv, UpPhases
<1>4. PICK b, k : b = Back /\ k = call.key
  OBVIOUS
<1>5. PICK h \in Entries : WritesAt(h) /\ SingleBut(b, h) /\ Finds(OldPage, b, h)
  BY <1>1, <1>4 DEF KeyInv
<1>6. b \in Pages /\ flash[b] \in PageType
  BY <1>3, <1>4, BackIsPage DEF FlashType
<1>7. flash[b].data[h].key = k /\ \A g \in Headed(flash[b]) : g # h => g < h
  <2>1. Writing(<<>>, flash[b], b, h, k, call.value)
    BY <1>1, <1>4, <1>5 DEF WritesAt
  <2> QED BY <1>6, <2>1, WrittenItem
<1>8. KeyAt(b, h) = k
  BY <1>7 DEF KeyAt
<1>9. CASE findPage = None
  <2>1. phase' = "stored" /\ todo' = <<>>
    BY <1>9 DEF EraseOld
  <2>2. \A q, g : Item(q, g) /\ KeyAt(q, g) = k => q = b /\ g = h
    BY <1>4, <1>5, <1>9 DEF Finds
  <2>3. Single
    <3> SUFFICES ASSUME NEW p, NEW i, NEW q, NEW g, Twins(p, i, q, g) PROVE FALSE
      BY DEF Single
    <3>1. (p = b /\ i = h) \/ (q = b /\ g = h)
      BY <1>5 DEF SingleBut
    <3> QED BY <1>8, <2>2, <3>1 DEF Twins
  <2>4. SingleAfter(todo')
    BY <2>3, NoTwins
  <2>5. SingleAfter(todo)'
    BY <1>1, <2>4, SameItems
  <2> QED BY <1>2, <2>1, <2>5 DEF KeyInv
<1>10. CASE findPage # None
  <2>1. PICK p, g : p = OldPage /\ Item(p, g) /\ KeyAt(p, g) = k /\ ~(p = b /\ g = h)
    BY <1>4, <1>5, <1>10 DEF Finds
  <2>2. \A q, i : Item(q, i) /\ KeyAt(q, i) = k => (q = p /\ i = g) \/ (q = b /\ i = h)
    <3> SUFFICES ASSUME NEW q, NEW i, Item(q, i), KeyAt(q, i) = k, ~(q = p /\ i = g)
                 PROVE  q = b /\ i = h
      OBVIOUS
    <3>1. Twins(p, g, q, i)
      BY <2>1 DEF Twins
    <3> QED BY <1>5, <2>1, <3>1 DEF SingleBut
  <2>3. p = IF flash[findPage].state = "UNINITIALIZED" THEN FindPage(k) ELSE findPage
    <3>1. CASE State(findPage) # "UNINITIALIZED"
      BY <2>1, <3>1 DEF OldPage, State
    <3>2. CASE State(findPage) = "UNINITIALIZED"
      <4>1. p = b
        BY <1>4, <2>1, <3>2 DEF OldPage
      <4>2. FindPage(k) # None
        BY <1>3, <2>1, FindPageIs
      <4>3. PICK i : Item(FindPage(k), i) /\ KeyAt(FindPage(k), i) = k
        BY <1>3, <4>2, FindPageIs
      <4>4. FindPage(k) = b
        BY <2>2, <4>1, <4>3
      <4> QED BY <3>2, <4>1, <4>4 DEF State
    <3> QED BY <3>1, <3>2
  <2>4. p \in Pages /\ p \in Kept /\ p # None
    <3>1. None \notin Pages
      BY NoPageAssumption DEF Pages
    <3> QED BY <2>1, <3>1, ItemIs DEF Item
  <2>5. CopiesOf(k, flash[p]) # {}
    BY <1>3, <2>1, <2>4, CopiesAre
  <2>6. phase' = "stored" /\ todo' = EraseKey(p, k)
    BY <1>4, <1>10, <2>3, <2>4, <2>5 DEF EraseOld
  <2>7. \A j : Item(p, j) /\ KeyAt(p, j) = k => g <= j
    <3> SUFFICES ASSUME NEW j, Item(p, j), KeyAt(p, j) = k PROVE g <= j
      OBVIOUS
    <3>1. g \in Nat /\ j \in Nat
      BY <2>1, ItemIs, EntriesAreNat
    <3>2. j = g \/ (p = b /\ j = h)
      BY <2>2
    <3>3. ASSUME p = b, j = h PROVE g < j
      BY <1>7, <2>1, <3>3 DEF Item
    <3> QED BY <3>1, <3>2, <3>3
  <2>8. Hit(EraseKey(p, k), p, g)
    BY <1>3, <2>1, <2>7, EraseKeyHits
  <2>9. SingleAfter(todo')
    <3> SUFFICES ASSUME NEW q, NEW i, NEW r, NEW j, Twins(q, i, r, j)
                 PROVE  Hit(todo', q, i) \/ Hit(todo', r, j)
      BY DEF SingleAfter
    <3>1. (q = b /\ i = h) \/ (r = b /\ j = h)
      BY <1>5 DEF SingleBut
    <3>2. Item(q, i) /\ Item(r, j) /\ KeyAt(q, i) = k /\ KeyAt(r, j) = k /\ ~(q = r /\ i = j)
      BY <1>8, <3>1 DEF Twins
    <3>3. (q = p /\ i = g) \/ (r = p /\ j = g)
      BY <2>2, <3>2
    <3> QED BY <2>6, <2>8, <3>3
  <2>10. SingleAfter(todo)'
    BY <1>1, <2>9, SameItems
  <2> QED BY <1>2, <2>6, <2>10 DEF KeyInv
<1> QED BY <1>9, <1>10

(* nvs_erase_all, and the return of a call.                                *)
LEMMA EraseAllKeys == PagesInv /\ DataInv /\ KeyInv /\ EraseAll => KeyInv'
<1> SUFFICES ASSUME PagesInv, DataInv, KeyInv, EraseAll PROVE KeyInv'
  OBVIOUS
<1>1. phase = "ready" /\ phase' = "clearing" /\ UNCHANGED disk
  BY DEF EraseAll
<1>2. Recoverable' /\ Shadow' /\ SingleAfter(todo)'
  BY <1>1, SameItems, NoTwins DEF KeyInv
<1> QED BY <1>1, <1>2 DEF KeyInv

LEMMA EraseNextKeys == PagesInv /\ DataInv /\ KeyInv /\ EraseNext => KeyInv'
<1> SUFFICES ASSUME PagesInv, DataInv, KeyInv, EraseNext PROVE KeyInv'
  OBVIOUS
<1>1. phase = "clearing" /\ todo = <<>> /\ phase' \in {"stored", "clearing"} /\ UNCHANGED disk
  BY DEF EraseNext
<1>2. Single
  BY <1>1, SingleNow DEF KeyInv
<1>3. Recoverable' /\ Shadow' /\ SingleAfter(todo)'
  BY <1>1, <1>2, SameItems, NoTwins DEF KeyInv
<1> QED BY <1>1, <1>3 DEF KeyInv

LEMMA ReturnKeys == PagesInv /\ DataInv /\ KeyInv /\ Return => KeyInv'
<1> SUFFICES ASSUME PagesInv, DataInv, KeyInv, Return PROVE KeyInv'
  OBVIOUS
<1>1. /\ phase \in {"stored", "error"} /\ todo = <<>> /\ todo' = <<>> /\ phase' = "ready"
      /\ UNCHANGED disk
  BY DEF Return
<1>2. Single
  BY <1>1, SingleNow DEF KeyInv
<1>3. Recoverable' /\ Shadow' /\ Single'
  BY <1>1, <1>2, SameItems DEF KeyInv
<1>4. KeyMoves'
  BY <1>1 DEF KeyMoves
<1> QED BY <1>1, <1>3, <1>4 DEF KeyInv

-----------------------------------------------------------------------------
(* The operations of flash.                                                *)

(* Where the states of the pages stay.                                     *)
LEMMA StaysShrinks ==
    ASSUME NEW r, \A q : q \in Pages /\ q # r => flash'[q] = flash[q],
           flash'[r].state = flash[r].state, Lessened(flash[r], flash'[r])
    PROVE  Shrinks /\ Kept' = Kept /\ \A q \in Pages : State(q)' = State(q)
<1>1. ASSUME NEW q \in Pages PROVE flash'[q].state = flash[q].state /\ Lessened(flash[q], flash'[q])
  <2>1. CASE q = r
    BY <2>1
  <2>2. CASE q # r
    <3>1. flash'[q] = flash[q]
      BY <2>2
    <3> QED BY <3>1, LessenedIs
  <2> QED BY <2>1, <2>2
<1>2. \A q \in Pages : State(q)' = State(q)
  BY <1>1 DEF State
<1> QED BY <1>1, <1>2, KeptStates DEF Shrinks

(* A step of nvs_flash_init, or of what erases items.                      *)
LEMMA EraseKeys ==
    ASSUME PagesInv, DataInv, KeyInv, DoFlash,
           phase \in {"manager", "freeing", "stored", "clearing"}
    PROVE  KeyInv'
<1>1. todo # <<>> /\ todo' = Tail(todo) /\ Perform(Head(todo)) /\ phase' = phase
  BY DEF DoFlash, ram
<1>2. FlashType /\ Headers /\ todo \in Seq(Data(Live)) /\ todo \in Seq(Ops)
  BY DEF PagesInv, Phases, RamType, UpPhases, Plain
<1>3. PICK o : o = Head(todo)
  OBVIOUS
<1>4. o \in Data(Live) /\ todo[1] = o
  BY <1>1, <1>2, <1>3, HeadTailProperties
<1>5. Live \subseteq Pages /\ o \in Data(Pages)
  BY <1>4, DataMonotone DEF Live
<1>6. \A x \in 1 .. Len(todo) : todo[x].op = "alter" /\ todo[x].state = "ERASED"
  BY DEF DataInv, Erasing
<1>7. 1 \in 1 .. Len(todo) /\ o.op = "alter" /\ o.state = "ERASED"
  <2>1. 1 \in 1 .. Len(todo)
    BY <1>1, <1>2, EmptySeq
  <2> QED BY <1>4, <1>6, <2>1
<1>8. /\ o.page \in Pages /\ ErasedIn(flash[o.page], flash'[o.page], o.entries)
      /\ \A p \in Pages : p # o.page => flash'[p] = flash[p]
  BY <1>1, <1>2, <1>3, <1>5, <1>7, DoWrites DEF Changed
<1>9. PICK r, P, Q : r = o.page /\ P = flash[r] /\ Q = flash'[r]
  OBVIOUS
<1>10. Lessened(P, Q) /\ Q.state = P.state
  BY <1>8, <1>9, LessenedIs DEF ErasedIn
<1>11. Shrinks
  BY <1>8, <1>9, <1>10, StaysShrinks
<1>12. Recoverable' /\ Shadow'
  BY <1>11, ShrinksKeep DEF KeyInv
<1>13. ASSUME NEW p, NEW h, Item(p, h)', Hit(todo, p, h) PROVE Hit(todo', p, h)
  <2>1. p \in Kept' /\ h \in Headed(flash'[p])
    BY <1>13 DEF Item
  <2>2. ~(r = p /\ h \in o.entries)
    <3>1. Headed(Q) = Headed(P) \ o.entries
      BY <1>8, <1>9, ErasedHeaders
    <3> QED BY <1>9, <2>1, <3>1
  <2> QED BY <1>1, <1>2, <1>4, <1>9, <1>13, <2>2, HitTail
<1>14. ASSUME NEW p, NEW h, NEW q, NEW g, Twins(p, h, q, g)'
       PROVE  /\ Twins(p, h, q, g)
              /\ Hit(todo, p, h) => Hit(todo', p, h)
              /\ Hit(todo, q, g) => Hit(todo', q, g)
  <2>1. Item(p, h)' /\ Item(q, g)'
    BY <1>14 DEF Twins
  <2> QED BY <1>11, <1>13, <1>14, <2>1, ShrinksTwins
<1>15. SinglePages(todo) => SinglePages(todo)'
  BY <1>14 DEF SinglePages
<1>16. SingleAfter(todo) => SingleAfter(todo)'
  BY <1>14 DEF SingleAfter
<1> QED BY <1>1, <1>12, <1>15, <1>16 DEF KeyInv

(* The items stay where the current page is marked as full.                *)
LEMMA CloseKeys ==
    ASSUME PagesInv, DataInv, KeyInv, DoFlash, phase = "request"
    PROVE  KeyInv'
<1>1. /\ todo # <<>> /\ todo' = Tail(todo) /\ Perform(Head(todo)) /\ phase' = phase
      /\ call' = call /\ findPage' = findPage
  BY DEF DoFlash, ram
<1>2. FlashType /\ RamType /\ Lists /\ Closing
  BY <1>1 DEF PagesInv, Phases, UpPhases
<1>3. PICK b : b = Back
  OBVIOUS
<1>4. b \in Pages /\ State(b) = "ACTIVE" /\ \A p \in Pages : p # b => State(p) \in {"UNINITIALIZED", "CORRUPT", "FULL"}
  BY <1>2, <1>3, BackIsPage, PlainStates DEF Closing
<1>5. Head(todo) = PageState(b, "FULL")
  BY <1>1, <1>2, <1>3 DEF Closing
<1>6. flash' = [flash EXCEPT ![b] = [@ EXCEPT !.state = "FULL"]]
  BY <1>1, <1>5, PerformIs
<1>7. PICK P, Q : P = flash[b] /\ Q = flash'[b]
  OBVIOUS
<1>8. P \in PageType /\ Q = [P EXCEPT !.state = "FULL"] /\ \A q : q \in Pages /\ q # b => flash'[q] = flash[q]
  BY <1>2, <1>4, <1>6, <1>7 DEF FlashType
<1>9. Q.state = "FULL" /\ Q.table = P.table /\ Q.data = P.data
  BY <1>8 DEF PageType
<1>10. \A q \in Pages : State(q) # "FREEING" /\ State(q)' # "FREEING"
  <2>1. \A q \in Pages : State(q) # "FREEING"
    BY <1>4
  <2>2. \A q \in Pages : flash'[q].state # "FREEING"
    BY <1>7, <1>8, <1>9, <2>1 DEF State
  <2> QED BY <2>1, <2>2 DEF State
<1>11. Live' = Live /\ Kept' = Kept
  <2>1. b \in Live /\ State(b)' = "FULL"
    BY <1>4, <1>7, <1>9 DEF Live, Loaded, State
  <2>2. \A q : q \in Pages /\ q # b => State(q)' = State(q)
    BY <1>8 DEF State
  <2>3. Live' = Live
    BY <1>4, <2>1, <2>2 DEF Live, Loaded
  <2> QED BY <1>10, <2>3 DEF Kept
<1>12. \A p \in Pages : flash'[p].data = flash[p].data /\ Headed(flash'[p]) = Headed(flash[p])
  <2>1. Headed(Q) = Headed(P)
    BY <1>9 DEF Headed
  <2> QED BY <1>7, <1>8, <1>9, <2>1
<1>13. \A p, h : Item(p, h)' <=> Item(p, h)
  BY <1>11, <1>12 DEF Item, Kept, Live
<1>14. \A p \in Pages : \A h : KeyAt(p, h)' = KeyAt(p, h)
  BY <1>12 DEF KeyAt
<1>15. \A p, h : Item(p, h) => p \in Pages
  BY ItemIs
<1>16. Single'
  BY <1>13, <1>14, <1>15 DEF KeyInv, Single, Twins
<1>17. Recoverable'
  BY <1>16, NoTwins DEF Single, Recoverable
<1>18. Shadow'
  BY <1>10 DEF Shadow
<1>19. Finds(findPage, 0, 0)'
  BY <1>1, <1>13, <1>14, <1>15 DEF KeyInv, Finds
<1> QED BY <1>1, <1>16, <1>17, <1>18, <1>19 DEF KeyInv

-----------------------------------------------------------------------------
(* The operations of a move.                                               *)

(* Where the pages that are kept keep their items.                         *)
ItemsStay ==
    /\ Kept' = Kept
    /\ \A p \in Kept : flash'[p].data = flash[p].data /\ Headed(flash'[p]) = Headed(flash[p])

LEMMA StayIs ==
    ASSUME ItemsStay
    PROVE  /\ \A p, h : Item(p, h)' <=> Item(p, h)
           /\ \A p, h : Item(p, h) => KeyAt(p, h)' = KeyAt(p, h)
           /\ Single => Single'
<1>1. \A p, h : Item(p, h)' <=> Item(p, h)
  BY DEF Item, ItemsStay
<1>2. \A p, h : Item(p, h) => KeyAt(p, h)' = KeyAt(p, h)
  BY DEF Item, KeyAt, ItemsStay
<1>3. Single => Single'
  BY <1>1, <1>2 DEF Single, Twins
<1> QED BY <1>1, <1>2, <1>3

(* A step on a page that does not count.                                   *)
LEMMA OutsideStays ==
    ASSUME NEW r, r \notin Kept, r \notin Kept', \A q : q \in Pages /\ q # r => flash'[q] = flash[q],
           State(r) # "FREEING", State(r)' # "FREEING"
    PROVE  ItemsStay
<1>1. ASSUME NEW p \in Kept' PROVE p \in Kept
  BY <1>1, KeptBefore
<1>2. ASSUME NEW p \in Kept PROVE p \in Kept' /\ flash'[p] = flash[p]
  <2>1. p \in Pages /\ p # r /\ p \in Live
    BY <1>2 DEF Kept, Live
  <2>2. flash'[p] = flash[p]
    BY <2>1
  <2>3. State(p) = "ACTIVE" => \A q \in Pages : State(q)' # "FREEING"
    <3>1. State(p) = "ACTIVE" => \A q \in Pages : State(q) # "FREEING"
      BY <1>2 DEF Kept
    <3>2. ASSUME NEW q \in Pages, State(q) # "FREEING" PROVE State(q)' # "FREEING"
      <4>1. CASE q = r
        BY <4>1
      <4>2. CASE q # r
        BY <3>2, <4>2 DEF State
      <4> QED BY <4>1, <4>2
    <3> QED BY <3>1, <3>2
  <2>4. State(p)' = State(p) /\ p \in Live'
    BY <2>1, <2>2 DEF State, Live
  <2> QED BY <2>2, <2>3, <2>4 DEF Kept
<1>3. Kept' = Kept
  BY <1>1, <1>2
<1> QED BY <1>2, <1>3 DEF ItemsStay

(* The page that is searched stays the same while the items do, unless a   *)
(* page other than the current one turns out to be empty.                  *)
LEMMA FindsStays ==
    ASSUME ItemsStay, UNCHANGED <<call, findPage, pageList>>, findPage \in Pages \cup {None},
           Finds(OldPage, 0, 0),
           \A p \in Pages : /\ p \in Kept => (State(p)' = "UNINITIALIZED" <=> State(p) = "UNINITIALIZED")
                            /\ State(p) = "UNINITIALIZED" /\ State(p)' # "UNINITIALIZED" =>
                                  p = Back /\ Back \notin Kept
    PROVE  Finds(OldPage, 0, 0)'
<1>1. Back' = Back /\ findPage' = findPage /\ call' = call
  BY DEF Back
<1>2. CASE findPage = None
  <2>1. \A q, g : Item(q, g)' /\ KeyAt(q, g)' = call'.key => q = 0 /\ g = 0
    BY <1>1, <1>2, StayIs DEF Finds
  <2> QED BY <1>1, <1>2, <2>1 DEF Finds
<1>3. CASE findPage # None
  <2>1. PICK g : Item(OldPage, g) /\ KeyAt(OldPage, g) = call.key /\ ~(OldPage = 0 /\ g = 0)
    BY <1>3 DEF Finds
  <2>2. OldPage \in Kept
    BY <2>1 DEF Item
  <2>3. OldPage' = OldPage
    <3>1. findPage \in Pages
      BY <1>3
    <3>2. CASE State(findPage) = "UNINITIALIZED"
      <4>1. OldPage = Back
        BY <3>2 DEF OldPage
      <4>2. State(findPage)' = "UNINITIALIZED"
        BY <2>2, <3>1, <3>2, <4>1
      <4> QED BY <1>1, <4>1, <4>2 DEF OldPage
    <3>3. CASE State(findPage) # "UNINITIALIZED"
      <4>1. OldPage = findPage
        BY <3>3 DEF OldPage
      <4>2. State(findPage)' # "UNINITIALIZED"
        BY <2>2, <3>1, <3>3, <4>1
      <4> QED BY <1>1, <4>1, <4>2 DEF OldPage
    <3> QED BY <3>2, <3>3
  <2>4. PICK p : p = OldPage
    OBVIOUS
  <2>5. Item(p, g)' /\ KeyAt(p, g)' = call'.key /\ ~(p = 0 /\ g = 0)
    BY <1>1, <2>1, <2>4, StayIs
  <2>6. (\E i : Item(OldPage, i) /\ KeyAt(OldPage, i) = call.key /\ ~(OldPage = 0 /\ i = 0))'
    BY <2>3, <2>4, <2>5
  <2> QED BY <1>1, <1>3, <2>6 DEF Finds
<1> QED BY <1>2, <1>3

(* What a move has brought to a page is from the page it makes.            *)
LEMMA RemainingHeaders ==
    ASSUME NEW s, NEW P, NEW F, Remaining(s, 0, P, F), Len(s) \in Nat
    PROVE  /\ \A h \in Headed(P) : h \in Headed(F) /\ F.data[h] = P.data[h]
           /\ (\A x \in 1 .. Len(s) : s[x].op = "erase") =>
                 Headed(F) = Headed(P) /\ \A h \in Headed(P) : F.data[h] = P.data[h]
<1>1. \A x \in 1 .. Len(s) : x > 0
  OBVIOUS
<1>2. ASSUME NEW h \in Headed(P) PROVE h \in Headed(F) /\ F.data[h] = P.data[h]
  <2>1. h \in Entries /\ P.table[h] = "WRITTEN" /\ IsHeader(P.data[h]) /\ P.data[h] # Blank
    BY <1>2 DEF Headed, IsHeader, Blank
  <2>2. F.data[h] = P.data[h]
    BY <1>1, <2>1 DEF Remaining
  <2>3. F.table[h] = "WRITTEN"
    BY <1>1, <2>1 DEF Remaining
  <2> QED BY <2>1, <2>2, <2>3 DEF Headed
<1>3. ASSUME \A x \in 1 .. Len(s) : s[x].op = "erase", NEW h \in Headed(F)
      PROVE  h \in Headed(P)
  <2>1. h \in Entries /\ F.table[h] = "WRITTEN" /\ IsHeader(F.data[h])
    BY <1>3 DEF Headed
  <2>2. F.data[h] = P.data[h]
    BY <1>3, <2>1 DEF Remaining
  <2>3. F.table[h] = P.table[h]
    BY <1>3, <2>1 DEF Remaining
  <2> QED BY <2>1, <2>2, <2>3 DEF Headed
<1> QED BY <1>2, <1>3

(* The list of a move ends with the erase of the page v.                   *)
LEMMA CopyingEnds ==
    ASSUME NEW s, NEW v \in Pages, NEW q \in Pages, v # q, Copying(s, v, q)
    PROVE  /\ s \in Seq(Ops) /\ s # <<>> /\ s[Len(s)] = Erase(v) /\ s[1] # Erase(q)
           /\ Head(s) \in Data({q}) => Copying(Tail(s), v, q)
<1>1. s \in Seq(Ops) /\ s # <<>> /\ s[Len(s)] = Erase(v)
  BY DEF Copying
<1>2. Head(s) = s[1]
  BY <1>1
<1>3. s = <<Erase(v)>> \/ (Head(s) \in Data({q}) /\ Copying(Tail(s), v, q))
  BY CopyingStep
<1>4. Erase(v) # Erase(q)
  <2>1. Erase(v).page = v /\ Erase(q).page = q
    BY DEF Erase
  <2> QED BY <2>1
<1>5. \A w : Erase(w) \notin Data({q})
  BY DEF Erase, Data
<1>6. s = <<Erase(v)>> => Head(s) = Erase(v)
  OBVIOUS
<1> QED BY <1>1, <1>2, <1>3, <1>4, <1>5, <1>6

(* The page v is freed: its items are in the current page then, and all    *)
(* others where they were.                                                 *)
MovedTo(v, q) == IF q = v THEN Back ELSE q
Moved(v) ==
    /\ \A p, h : Item(p, h)' =>
          \E q, g : /\ Item(q, g) /\ KeyAt(q, g) = KeyAt(p, h)'
                    /\ p = MovedTo(v, q) /\ (q = v \/ h = g)
    /\ \A q, g : Item(q, g) =>
          \E p, h : p = MovedTo(v, q) /\ Item(p, h)' /\ KeyAt(p, h)' = KeyAt(q, g)

LEMMA FreedKeys ==
    ASSUME Headers, KeyMoves, Single, NEW v, Frees(v), Back \in Pages,
           State(v)' \notin Loaded, \A q : q \in Pages /\ q # v => flash'[q] = flash[q]
    PROVE  Moved(v) /\ Single' /\ Recoverable' /\ Shadow'
<1>1. /\ v \in Pages /\ v # Back /\ State(v) = "FREEING" /\ todo = <<Erase(v)>>
      /\ \A p \in Pages : State(p) = "ACTIVE" => p = Back
  BY DEF Frees
<1>2. PICK P, V : P = flash[Back] /\ V = flash[v]
  OBVIOUS
<1>3. /\ todo # <<>> /\ todo[Len(todo)] = Erase(v) /\ todo[1] = Erase(v) /\ Len(todo) \in Nat
      /\ \A m \in 1 .. Len(todo) : todo[m] = Erase(v)
  BY <1>1
<1>4. /\ \A q : Erase(v) # Header(q)
      /\ Erase(v) # Erase(Back) /\ Erase(v).op = "erase"
  <2>1. /\ Erase(v).page = v /\ Erase(Back).page = Back /\ Erase(v).op = "erase"
        /\ \A q : Header(q).op = "header"
    BY DEF Erase, Header
  <2>2. Erase(v) # Erase(Back)
    BY <1>1, <2>1
  <2>3. \A q : Erase(v) # Header(q)
    BY <2>1
  <2> QED BY <2>1, <2>2, <2>3
<1>5. MovesItems(todo, Back, P, V)
  BY <1>1, <1>2, <1>3 DEF KeyMoves, Loaded
<1>6. Headed(V) = {} \/ P.state = "ACTIVE"
  BY <1>3, <1>4, <1>5 DEF MovesItems
<1>7. P.state = "ACTIVE" => Like(P, V)
  <2> SUFFICES ASSUME P.state = "ACTIVE" PROVE Like(P, V)
    OBVIOUS
  <2>1. PICK F \in PageType : CopiesTo(todo, Back, P, F) /\ Like(F, V)
    BY <1>5 DEF MovesItems
  <2>2. Remaining(todo, 0, P, F)
    BY <1>3, <1>4, <2>1 DEF CopiesTo
  <2>3. \A x \in 1 .. Len(todo) : todo[x].op = "erase"
    BY <1>3, <1>4
  <2>4. Headed(F) = Headed(P) /\ \A h \in Headed(P) : F.data[h] = P.data[h]
    BY <1>3, <2>2, <2>3, RemainingHeaders
  <2> QED BY <2>1, <2>4 DEF Like
<1>8. \A p \in Pages : State(p)' # "FREEING"
  <2> SUFFICES ASSUME NEW p \in Pages, State(p)' = "FREEING" PROVE FALSE
    OBVIOUS
  <2>1. p # v
    BY DEF Loaded
  <2>2. State(p) = "FREEING"
    BY <2>1 DEF State
  <2> QED BY <1>1, <2>1, <2>2 DEF Headers
<1>9. \A p, h : Item(p, h)' <=> p \in Pages /\ p # v /\ State(p) \in Loaded /\ h \in Headed(flash[p])
  <2>1. \A p : p \in Kept' <=> p \in Pages /\ State(p)' \in Loaded
    BY <1>8 DEF Kept, Live
  <2>2. \A p \in Pages : p # v => flash'[p] = flash[p] /\ State(p)' = State(p)
    BY DEF State
  <2> QED BY <2>1, <2>2 DEF Item
<1>10. \A h : Item(v, h) <=> h \in Headed(V)
  <2>1. v \in Kept
    BY <1>1 DEF Kept, Live, Loaded
  <2> QED BY <1>2, <2>1 DEF Item
<1>11. \A p \in Pages : p # v => \A h : KeyAt(p, h)' = KeyAt(p, h)
  BY DEF KeyAt
<1>12. ASSUME NEW p, NEW h, Item(p, h)'
       PROVE  \E q, g : /\ Item(q, g) /\ KeyAt(q, g) = KeyAt(p, h)'
                        /\ p = MovedTo(v, q) /\ (q = v \/ h = g)
  <2>1. p \in Pages /\ p # v /\ State(p) \in Loaded /\ h \in Headed(flash[p]) /\ KeyAt(p, h)' = KeyAt(p, h)
    BY <1>9, <1>11, <1>12
  <2>2. CASE State(p) = "ACTIVE"
    <3>1. p = Back /\ P.state = "ACTIVE"
      BY <1>1, <1>2, <2>1, <2>2 DEF State
    <3>2. PICK g \in Headed(V) : V.data[g] = P.data[h]
      BY <1>2, <1>7, <2>1, <3>1 DEF Like
    <3>3. Item(v, g) /\ KeyAt(v, g) = KeyAt(p, h)'
      BY <1>2, <1>10, <2>1, <3>1, <3>2 DEF KeyAt
    <3> QED BY <3>1, <3>3 DEF MovedTo
  <2>3. CASE State(p) # "ACTIVE"
    <3>1. Item(p, h)
      BY <2>1, <2>3 DEF Item, Kept, Live
    <3> QED BY <2>1, <3>1 DEF MovedTo
  <2> QED BY <2>2, <2>3
<1>13. ASSUME NEW q, NEW g, Item(q, g)
       PROVE  \E p, h : p = MovedTo(v, q) /\ Item(p, h)' /\ KeyAt(p, h)' = KeyAt(q, g)
  <2>1. CASE q = v
    <3>1. g \in Headed(V)
      BY <1>10, <1>13, <2>1
    <3>2. P.state = "ACTIVE"
      BY <1>6, <3>1
    <3>3. PICK h \in Headed(P) : P.data[h] = V.data[g]
      BY <1>7, <3>1, <3>2 DEF Like
    <3>4. PICK b : b = Back
      OBVIOUS
    <3>5. Item(b, h)'
      BY <1>1, <1>2, <1>9, <3>2, <3>3, <3>4 DEF State, Loaded
    <3>6. KeyAt(b, h)' = KeyAt(q, g)
      <4>1. KeyAt(b, h)' = KeyAt(b, h)
        BY <1>1, <1>11, <3>4
      <4> QED BY <1>2, <2>1, <3>3, <3>4, <4>1 DEF KeyAt
    <3> QED BY <2>1, <3>4, <3>5, <3>6 DEF MovedTo
  <2>2. CASE q # v
    <3>1. q \in Pages /\ State(q) \in Loaded /\ g \in Headed(flash[q])
      BY <1>13, ItemIs DEF Item
    <3>2. Item(q, g)' /\ KeyAt(q, g)' = KeyAt(q, g)
      BY <1>9, <1>11, <2>2, <3>1
    <3> QED BY <2>2, <3>2 DEF MovedTo
  <2> QED BY <2>1, <2>2
<1>14. Moved(v)
  BY <1>12, <1>13 DEF Moved
<1>15. Single'
  <2> SUFFICES ASSUME NEW p, NEW h, NEW r, NEW i, Item(p, h)', Item(r, i)',
                      KeyAt(p, h)' = KeyAt(r, i)'
               PROVE  p = r /\ h = i
    BY DEF Single, Twins
  <2>1. PICK q, g : /\ Item(q, g) /\ KeyAt(q, g) = KeyAt(p, h)'
                    /\ p = MovedTo(v, q) /\ (q = v \/ h = g)
    BY <1>12
  <2>2. PICK q2, g2 : /\ Item(q2, g2) /\ KeyAt(q2, g2) = KeyAt(r, i)'
                      /\ r = MovedTo(v, q2) /\ (q2 = v \/ i = g2)
    BY <1>12
  <2>3. q = q2 /\ g = g2
    BY <2>1, <2>2 DEF Single, Twins
  <2>4. p = r /\ (q # v => h = i)
    BY <2>1, <2>2, <2>3
  <2>5. CASE q = v
    <3>1. p = Back /\ r = Back
      BY <2>1, <2>4, <2>5 DEF MovedTo
    <3>2. h \in Headed(P) /\ i \in Headed(P)
      BY <1>2, <1>9, <3>1
    <3>3. g \in Headed(V)
      BY <1>10, <2>1, <2>5
    <3>4. Like(P, V)
      BY <1>6, <1>7, <3>3
    <3>5. P.data[h].key = P.data[i].key
      <4>1. KeyAt(p, h)' = KeyAt(p, h) /\ KeyAt(r, i)' = KeyAt(r, i)
        BY <1>1, <1>9, <1>11
      <4> QED BY <1>2, <3>1, <4>1 DEF KeyAt
    <3> QED BY <2>4, <3>2, <3>4, <3>5 DEF Like
  <2>6. CASE q # v
    BY <2>4, <2>6
  <2> QED BY <2>5, <2>6
<1>16. Recoverable'
  BY <1>15 DEF Single, Recoverable
<1>17. Shadow'
  BY <1>8 DEF Shadow
<1> QED BY <1>14, <1>15, <1>16, <1>17

(* A move goes on as one when its next operation is done.                  *)
LEMMA MovesItemsOn ==
    ASSUME NEW S, NEW s \in Seq(S), s # <<>>, NEW q, NEW P, NEW Q, NEW V, NEW W,
           MovesItems(s, q, P, V),
           \A F \in PageType : CopiesTo(s, q, P, F) => CopiesTo(Tail(s), q, Q, F),
           Headed(W) = Headed(V), W.data = V.data,
           \/ Q.state = "ACTIVE" /\ Tail(s)[1] # Erase(q)
           \/ s[1].op # "header" /\ ~(P.state = "ACTIVE" /\ s[1] # Erase(q))
    PROVE  MovesItems(Tail(s), q, Q, W)
<1>1. PICK F \in PageType : CopiesTo(s, q, P, F) /\ Like(F, V)
  BY DEF MovesItems
<1>2. CopiesTo(Tail(s), q, Q, F) /\ Like(F, W)
  BY <1>1 DEF Like
<1>3. \/ Headed(V) = {}
      \/ P.state = "ACTIVE" /\ s[1] # Erase(q)
      \/ \E m \in 1 .. Len(s) : s[m] = Header(q)
  BY DEF MovesItems
<1>4. ASSUME NEW m \in 1 .. Len(s), s[m] = Header(q), s[1].op # "header"
      PROVE  \E n \in 1 .. Len(Tail(s)) : Tail(s)[n] = Header(q)
  <2>1. m # 1
    BY <1>4 DEF Header
  <2>2. /\ Len(Tail(s)) = Len(s) - 1 /\ Len(s) \in Nat
        /\ \A x \in 1 .. Len(Tail(s)) : Tail(s)[x] = s[x + 1]
    OBVIOUS
  <2>3. m - 1 \in 1 .. Len(Tail(s)) /\ (m - 1) + 1 = m
    BY <2>1, <2>2
  <2>4. Tail(s)[m - 1] = Header(q)
    BY <1>4, <2>2, <2>3
  <2> QED BY <2>3, <2>4
<1> QED BY <1>1, <1>2, <1>3, <1>4 DEF MovesItems

(* The list without its first operation ends the same way.                 *)
LEMMA TailEnds ==
    ASSUME NEW S, NEW s \in Seq(S), s # <<>>, Tail(s) # <<>>
    PROVE  Tail(s)[Len(Tail(s))] = s[Len(s)]
<1>1. PICK t : t = Tail(s)
  OBVIOUS
<1>2. /\ t \in Seq(S) /\ Len(t) = Len(s) - 1 /\ Len(s) \in Nat /\ Len(s) >= 1 /\ Len(t) \in Nat
      /\ \A x \in 1 .. Len(t) : t[x] = s[x + 1]
  BY <1>1
<1>3. Len(t) # 0
  BY <1>1, <1>2, EmptySeq
<1>4. Len(t) \in 1 .. Len(t) /\ Len(t) + 1 = Len(s)
  BY <1>2, <1>3
<1>5. t[Len(t)] = s[Len(s)]
  BY <1>2, <1>4
<1> QED BY <1>1, <1>5

(* A step of a move: no key is in flash twice afterwards.                  *)
LEMMA MoveKeys ==
    ASSUME PagesInv, PagesInv', DataInv, KeyInv, DoFlash, phase \in {"ready", "again"}
    PROVE  KeyInv'
<1>1. /\ todo # <<>> /\ todo' = Tail(todo) /\ Perform(Head(todo)) /\ phase' = phase
      /\ UNCHANGED <<call, findPage, pageList>> /\ Back' = Back
  BY DEF DoFlash, ram, Back
<1>2. FlashType /\ todo \in Seq(Ops) /\ Lists /\ RamType /\ Headers /\ Headers'
      /\ findPage \in Pages \cup {None}
  BY DEF PagesInv, Phases, RamType, UpPhases
<1>3. Back \in Pages /\ todo[1] = Head(todo)
  BY <1>1, <1>2, BackIsPage
<1>4. /\ Single /\ KeyMoves /\ Shadow /\ Recoverable
      /\ phase = "again" => Finds(OldPage, 0, 0)
      /\ Moves(todo, Back, flash[Back])
  BY DEF KeyInv, DataInv
<1>5. todo[Len(todo)].op = "erase"
  BY <1>1, <1>4 DEF Moves
<1>6. PICK v \in Pages : Marks(v) \/ Wipes(v) \/ Opens(v) \/ Fills(v) \/ Frees(v)
  BY <1>1, <1>5, MoveHead
<1>7. ASSUME Single', Shadow', KeyMoves', phase = "again" => Finds(OldPage, 0, 0)'
      PROVE  KeyInv'
  <2>1. Recoverable'
    BY <1>7 DEF Single, Recoverable
  <2> QED BY <1>1, <1>7, <2>1 DEF KeyInv
<1>8. PICK b, P, Q : b = Back /\ P = flash[b] /\ Q = flash'[b]
  OBVIOUS
\* What is left of the move, when the page w that it ends with is the same.
<1>9. ASSUME \A F \in PageType : CopiesTo(todo, b, P, F) => CopiesTo(Tail(todo), b, Q, F),
             \A w \in Pages : State(w)' \in Loaded /\ todo[Len(todo)] = Erase(w) =>
                State(w) \in Loaded /\ Headed(flash'[w]) = Headed(flash[w]) /\ flash'[w].data = flash[w].data,
             \/ Q.state = "ACTIVE" /\ Tail(todo)[1] # Erase(b)
             \/ todo[1].op # "header" /\ ~(P.state = "ACTIVE" /\ todo[1] # Erase(b))
      PROVE  KeyMoves'
  <2> SUFFICES ASSUME todo' # <<>>, NEW w \in Pages, todo'[Len(todo')] = Erase(w), State(w)' \in Loaded
               PROVE  MovesItems(todo', Back', flash'[Back'], flash'[w])
    BY DEF KeyMoves
  <2>1. todo[Len(todo)] = Erase(w)
    BY <1>1, <1>2, TailEnds
  <2>2. State(w) \in Loaded /\ Headed(flash'[w]) = Headed(flash[w]) /\ flash'[w].data = flash[w].data
    BY <1>9, <2>1
  <2>3. MovesItems(todo, b, P, flash[w])
    BY <1>1, <1>4, <1>8, <2>1, <2>2 DEF KeyMoves
  <2>4. PICK V, W : V = flash[w] /\ W = flash'[w]
    OBVIOUS
  <2>5. MovesItems(Tail(todo), b, Q, W)
    BY <1>1, <1>2, <1>9, <2>2, <2>3, <2>4, MovesItemsOn
  <2> QED BY <1>1, <1>8, <2>4, <2>5
<1>10. ASSUME Q.state # "ACTIVE"
       PROVE  \A F \in PageType : CopiesTo(todo, b, P, F) => CopiesTo(Tail(todo), b, Q, F)
  BY <1>1, <1>2, <1>5, <1>10, CopiesTail
<1>11. /\ \A p, s : PageState(p, s).op = "state"
       /\ \A p : Erase(p).op = "erase" /\ Erase(p).page = p /\ Header(p).op = "header"
       /\ \A p, w : Erase(p) = Erase(w) => p = w
  <2>1. /\ \A p, s : PageState(p, s).op = "state"
        /\ \A p : Erase(p).op = "erase" /\ Erase(p).page = p /\ Header(p).op = "header"
    BY DEF PageState, Erase, Header
  <2>2. ASSUME NEW p, NEW w, Erase(p) = Erase(w) PROVE p = w
    <3>1. Erase(p).page = p /\ Erase(w).page = w
      BY <2>1
    <3> QED BY <2>2, <3>1
  <2> QED BY <2>1, <2>2
\* The victim is marked.
<1>12. CASE Marks(v)
  <2>1. flash' = [flash EXCEPT ![v] = [@ EXCEPT !.state = "FREEING"]]
    BY <1>1, <1>12, PerformIs DEF Marks
  <2>2. PICK R : R = flash[v]
    OBVIOUS
  <2>3. R \in PageType /\ R.state = "FULL"
    BY <1>2, <1>12, <2>2 DEF FlashType, Marks, State
  <2>4. flash'[v] = [R EXCEPT !.state = "FREEING"] /\ \A q \in Pages : q # v => flash'[q] = flash[q]
    BY <1>2, <2>1, <2>2 DEF FlashType
  <2>5. PICK T : T = flash'[v]
    OBVIOUS
  <2>6. T.state = "FREEING" /\ T.table = R.table /\ T.data = R.data
    BY <2>3, <2>4, <2>5 DEF PageType
  <2>7. State(v)' = "FREEING" /\ State(v) = "FULL" /\ \A q \in Pages : q # v => State(q)' = State(q)
    BY <2>2, <2>3, <2>4, <2>5, <2>6 DEF State
  <2>8. \A p \in Pages : State(p) # "ACTIVE" /\ State(p)' # "ACTIVE"
    BY <1>12, <2>7 DEF Marks
  <2>9. \A p \in Pages : flash'[p].data = flash[p].data /\ Headed(flash'[p]) = Headed(flash[p])
    <3>1. Headed(T) = Headed(R)
      BY <2>6 DEF Headed
    <3> QED BY <2>2, <2>4, <2>5, <2>6, <3>1
  <2>10. Kept' = Kept /\ Kept \subseteq Pages
    <3>1. Kept = Live /\ Kept' = Live' /\ Live \subseteq Pages
      BY <2>8 DEF Kept, Live
    <3>2. Live' = Live
      BY <2>7 DEF Live, Loaded
    <3> QED BY <3>1, <3>2
  <2>11. ItemsStay
    BY <2>9, <2>10 DEF ItemsStay
  <2>12. Single'
    BY <1>4, <2>11, StayIs
  <2>13. Shadow'
    BY <2>8 DEF Shadow
  <2>14. Q.state # "ACTIVE" /\ P.state # "ACTIVE"
    BY <1>3, <1>8, <2>8 DEF State
  <2>15. todo[1].op # "header"
    BY <1>3, <1>11, <1>12 DEF Marks
  <2>16. \A w \in Pages : State(w)' \in Loaded => State(w) \in Loaded
    BY <2>7 DEF Loaded
  <2>17. KeyMoves'
    BY <1>9, <1>10, <2>9, <2>14, <2>15, <2>16
  <2>18. \A p \in Pages : State(p)' = "UNINITIALIZED" <=> State(p) = "UNINITIALIZED"
    BY <2>7
  <2>19. phase = "again" => Finds(OldPage, 0, 0)'
    BY <1>1, <1>2, <1>4, <2>11, <2>18, FindsStays
  <2> QED BY <1>7, <2>12, <2>13, <2>17, <2>19
\* A page that holds nothing is erased.
<1>13. CASE Wipes(v)
  <2>1. flash' = [flash EXCEPT ![v] = ErasedPage]
    BY <1>1, <1>13, PerformIs DEF Wipes
  <2>2. flash'[v] = ErasedPage /\ \A q : q \in Pages /\ q # v => flash'[q] = flash[q]
    BY <1>2, <2>1 DEF FlashType
  <2>3. State(v)' = "UNINITIALIZED"
    BY <2>2, ErasedType DEF State
  <2>4. v \notin Kept' /\ v \notin Kept /\ State(v) # "FREEING"
    BY <1>13, <2>3 DEF Wipes, Kept, Live, Loaded
  <2>5. ItemsStay
    BY <2>2, <2>3, <2>4, OutsideStays
  <2>6. Single'
    BY <1>4, <2>5, StayIs
  <2>7. \A p \in Pages : p # v => State(p)' = State(p) /\ flash'[p] = flash[p]
    BY <2>2 DEF State
  <2>8. Shrinks
    <3>1. Headed(flash'[v]) = {}
      BY <2>2 DEF Headed, ErasedPage, EmptyTable
    <3>2. Lessened(flash[v], flash'[v])
      BY <3>1, LessenedIs
    <3>3. \A p \in Pages : Lessened(flash[p], flash'[p])
      <4>1. ASSUME NEW p \in Pages, p # v PROVE Lessened(flash[p], flash'[p])
        BY <2>7, <4>1, LessenedIs
      <4> QED BY <3>2, <4>1
    <3> QED BY <2>3, <2>4, <2>7, <3>3 DEF Shrinks, Loaded
  <2>9. Shadow'
    BY <1>4, <2>8, ShrinksKeep
  <2>10. Q.state # "ACTIVE" /\ (b = v \/ P.state # "ACTIVE")
    BY <1>3, <1>8, <1>13, <2>2, <2>3 DEF Wipes, State
  <2>11. todo[1].op # "header" /\ todo[1] = Erase(v)
    BY <1>3, <1>11, <1>13 DEF Wipes
  <2>12. \A w \in Pages : State(w)' \in Loaded => w # v
    BY <2>3 DEF Loaded
  <2>13. KeyMoves'
    BY <1>9, <1>10, <2>7, <2>10, <2>11, <2>12
  <2>14. phase = "again" => Finds(OldPage, 0, 0)'
    BY <1>1, <1>2, <1>4, <2>3, <2>4, <2>5, <2>7, FindsStays
  <2> QED BY <1>7, <2>6, <2>9, <2>13, <2>14
\* The current page is opened, ...
<1>14. CASE Opens(v)
  <2>1. Head(todo) = Header(b) /\ State(v) = "FREEING" /\ State(b) = "UNINITIALIZED" /\ v # b
        /\ Copying(Tail(todo), v, b)
    BY <1>8, <1>14 DEF Opens
  <2>2. flash' = [flash EXCEPT ![b] = [@ EXCEPT !.state = "ACTIVE"]]
    BY <1>1, <2>1, PerformIs
  <2>3. flash[b] = ErasedPage
    BY <1>2, <1>3, <1>8, <2>1 DEF Headers
  <2>4. flash'[b] = Opened /\ \A q : q \in Pages /\ q # b => flash'[q] = flash[q]
    BY <1>2, <1>3, <1>8, <2>2, <2>3 DEF FlashType, Opened
  <2>5. State(b)' = "ACTIVE" /\ \A p \in Pages : p # b => State(p)' = State(p) /\ flash'[p] = flash[p]
    BY <2>4, OpenedIs DEF State
  <2>6. b \notin Kept /\ b \notin Kept'
    BY <1>6, <2>1, <2>5 DEF Kept, Live, Loaded
  <2>7. ItemsStay
    BY <2>1, <2>4, <2>5, <2>6, OutsideStays
  <2>8. Single'
    BY <1>4, <2>7, StayIs
  <2>9. Shadow'
    <3>1. Headed(flash'[b]) = {}
      BY <2>4, OpenedIs DEF Headed
    <3>2. ASSUME NEW a \in Pages, State(a)' = "ACTIVE" PROVE a = b
      BY <1>2, <1>3, <1>8, <2>5, <3>2 DEF Headers
    <3> QED BY <3>1, <3>2 DEF Shadow
  <2>10. todo[Len(todo)] = Erase(v) /\ Tail(todo)[1] # Erase(b)
    <3>1. PICK t : t = Tail(todo)
      OBVIOUS
    <3>2. t \in Seq(Ops) /\ t # <<>> /\ t[Len(t)] = Erase(v) /\ t[1] # Erase(b)
      BY <1>3, <1>6, <1>8, <2>1, <3>1, CopyingEnds
    <3>3. t[Len(t)] = todo[Len(todo)]
      BY <1>1, <1>2, <3>1, <3>2, TailEnds
    <3> QED BY <3>1, <3>2, <3>3
  <2>11. \A w \in Pages : todo[Len(todo)] = Erase(w) => w = v
    BY <1>11, <2>10
  <2>12. \A F \in PageType : CopiesTo(todo, b, P, F) => CopiesTo(Tail(todo), b, Q, F)
    BY <1>1, <1>2, <1>3, <1>5, <1>8, <2>1, <2>4, CopiesOpened
  <2>13. State(v) \in Loaded /\ Q.state = "ACTIVE" /\ flash'[v] = flash[v]
    BY <1>8, <2>1, <2>5 DEF State, Loaded
  <2>14. KeyMoves'
    BY <1>9, <2>10, <2>11, <2>12, <2>13
  <2>15. phase = "again" => Finds(OldPage, 0, 0)'
    BY <1>1, <1>2, <1>4, <1>8, <2>5, <2>6, <2>7, FindsStays
  <2> QED BY <1>7, <2>8, <2>9, <2>14, <2>15
\* ... it gets an item of the victim, ...
<1>15. CASE Fills(v)
  <2>1. PICK o : o = Head(todo)
    OBVIOUS
  <2>2. /\ o \in Data(Pages) /\ o \in Data({b}) /\ o.page = b /\ o.op \in {"program", "alter"}
        /\ State(v) = "FREEING" /\ State(b) = "ACTIVE" /\ v # b /\ Copying(todo, v, b)
    BY <1>3, <1>8, <1>15, <2>1 DEF Fills, Data
  <2>3. Changed(o, P, Q) /\ \A q : q \in Pages /\ q # b => flash'[q] = flash[q]
    BY <1>1, <1>2, <1>8, <2>1, <2>2, DoWrites
  <2>4. Q.state = P.state
    BY <2>2, <2>3 DEF Changed, ProgrammedIn, WrittenIn, ErasedIn, Data
  <2>5. State(b)' = "ACTIVE" /\ \A p \in Pages : p # b => State(p)' = State(p) /\ flash'[p] = flash[p]
    BY <1>8, <2>2, <2>3, <2>4 DEF State
  <2>6. b \notin Kept /\ b \notin Kept'
    BY <1>6, <2>2, <2>5 DEF Kept, Live, Loaded
  <2>7. ItemsStay
    BY <2>2, <2>3, <2>5, <2>6, OutsideStays
  <2>8. Single'
    BY <1>4, <2>7, StayIs
  <2>9. todo[Len(todo)] = Erase(v) /\ todo[1] # Erase(b) /\ Copying(Tail(todo), v, b)
    BY <1>3, <1>6, <1>8, <2>1, <2>2, CopyingEnds
  <2>10. Tail(todo) # <<>> /\ Tail(todo)[1] # Erase(b) /\ Tail(todo) \in Seq(Ops)
    <3>1. PICK t : t = Tail(todo)
      OBVIOUS
    <3>2. Copying(t, v, b) /\ v \in Pages /\ b \in Pages /\ v # b
      BY <1>3, <1>6, <1>8, <2>2, <2>9, <3>1
    <3>3. t \in Seq(Ops) /\ t # <<>> /\ t[1] # Erase(b)
      BY <3>2, CopyingEnds
    <3> QED BY <3>1, <3>3
  <2>11. \A F \in PageType : CopiesTo(todo, b, P, F) => CopiesTo(Tail(todo), b, Q, F)
    <3>1. P.state = "ACTIVE" /\ todo[1] = o
      BY <1>3, <1>8, <2>1, <2>2 DEF State
    <3> QED BY <1>1, <1>2, <1>5, <2>2, <2>3, <3>1, CopiesWrite
  <2>12. \A w \in Pages : todo[Len(todo)] = Erase(w) => w = v
    BY <1>11, <2>9
  <2>13. State(v) \in Loaded /\ Q.state = "ACTIVE" /\ P.state = "ACTIVE" /\ flash'[v] = flash[v] /\ v \in Kept
    BY <1>6, <1>8, <2>2, <2>5 DEF State, Loaded, Kept, Live
  <2>14. KeyMoves'
    BY <1>9, <2>10, <2>11, <2>12, <2>13
  <2>15. phase = "again" => Finds(OldPage, 0, 0)'
    BY <1>1, <1>2, <1>4, <1>8, <2>5, <2>6, <2>7, FindsStays
  <2>16. ASSUME NEW h \in Headed(Q)
         PROVE  \E g : Item(v, g) /\ KeyAt(v, g) = KeyAt(b, h)'
    <3>1. PICK F \in PageType : CopiesTo(todo, b, P, F) /\ Like(F, flash[v])
      BY <1>1, <1>4, <1>8, <2>9, <2>13 DEF KeyMoves, MovesItems
    <3>2. Remaining(Tail(todo), 0, Q, F)
      BY <2>10, <2>11, <2>13, <3>1 DEF CopiesTo
    <3>3. h \in Headed(F) /\ F.data[h] = Q.data[h]
      BY <2>10, <2>16, <3>2, RemainingHeaders, LenProperties
    <3>4. PICK g \in Headed(flash[v]) : flash[v].data[g] = F.data[h]
      BY <3>1, <3>3 DEF Like
    <3> QED BY <1>8, <2>13, <3>3, <3>4 DEF Item, KeyAt
  <2>17. Shadow'
    <3> SUFFICES ASSUME NEW a \in Pages, NEW w \in Pages, NEW h, NEW p, NEW g,
                        State(a)' = "ACTIVE", State(w)' = "FREEING",
                        h \in Headed(flash'[a]), Item(p, g)', KeyAt(p, g)' = KeyAt(a, h)'
                 PROVE  p = w
      BY DEF Shadow
    <3>1. a = b
      BY <1>2, <1>3, <1>8, <2>5 DEF Headers
    <3>2. w = v
      <4>1. State(v)' = "FREEING"
        BY <2>2, <2>5
      <4> QED BY <1>2, <4>1 DEF Headers
    <3>3. PICK i : Item(v, i) /\ KeyAt(v, i) = KeyAt(b, h)'
      BY <1>8, <2>16, <3>1
    <3>4. Item(p, g) /\ KeyAt(p, g) = KeyAt(v, i)
      BY <2>7, <3>1, <3>3, StayIs
    <3> QED BY <1>4, <3>2, <3>3, <3>4 DEF Single, Twins
  <2> QED BY <1>7, <2>8, <2>14, <2>15, <2>17
\* ... and the victim is erased.
<1>16. CASE Frees(v)
  <2>1. todo = <<Erase(v)>> /\ v # b /\ State(v) = "FREEING"
    BY <1>8, <1>16 DEF Frees
  <2>2. Head(todo) = Erase(v) /\ todo' = <<>>
    BY <1>1, <2>1
  <2>3. flash' = [flash EXCEPT ![v] = ErasedPage]
    BY <1>1, <2>2, PerformIs
  <2>4. flash'[v] = ErasedPage /\ \A q : q \in Pages /\ q # v => flash'[q] = flash[q]
    BY <1>2, <2>3 DEF FlashType
  <2>5. State(v)' = "UNINITIALIZED" /\ \A p \in Pages : p # v => State(p)' = State(p)
    BY <2>4, ErasedType DEF State
  <2>6. State(v)' \notin Loaded
    BY <2>5 DEF Loaded
  <2>7. Moved(v) /\ Single' /\ Shadow'
    BY <1>2, <1>3, <1>4, <1>16, <2>4, <2>6, FreedKeys
  <2>8. KeyMoves'
    BY <2>2 DEF KeyMoves
  <2>9. ASSUME Finds(OldPage, 0, 0) PROVE Finds(OldPage, 0, 0)'
    <3>1. CASE findPage = None
      <4>1. \A q, g : Item(q, g) => KeyAt(q, g) # call.key
        <5>1. \A q, g : Item(q, g) /\ KeyAt(q, g) = call.key => q = 0
          BY <2>9, <3>1 DEF Finds
        <5>2. \A q, g : Item(q, g) => q # 0
          BY ItemIs DEF Pages
        <5> QED BY <5>1, <5>2
      <4>2. \A p, h : Item(p, h)' => KeyAt(p, h)' # call'.key
        BY <1>1, <2>7, <4>1 DEF Moved
      <4> QED BY <1>1, <3>1, <4>2 DEF Finds
    <3>2. CASE findPage # None
      <4>1. PICK g : Item(OldPage, g) /\ KeyAt(OldPage, g) = call.key
        BY <2>9, <3>2 DEF Finds
      <4>2. findPage \in Pages
        BY <1>2, <3>2
      <4>3. OldPage' = MovedTo(v, OldPage)
        <5>1. CASE State(findPage) = "UNINITIALIZED"
          <6>1. findPage # v /\ OldPage = Back
            BY <2>1, <5>1 DEF OldPage
          <6>2. OldPage' = Back
            BY <1>1, <2>5, <4>2, <5>1, <6>1 DEF OldPage
          <6> QED BY <1>8, <2>1, <6>1, <6>2 DEF MovedTo
        <5>2. CASE State(findPage) # "UNINITIALIZED"
          <6>1. OldPage = findPage
            BY <5>2 DEF OldPage
          <6>2. CASE findPage = v
            BY <1>1, <2>5, <6>1, <6>2 DEF OldPage, MovedTo
          <6>3. CASE findPage # v
            BY <1>1, <2>5, <4>2, <5>2, <6>1, <6>3 DEF OldPage, MovedTo
          <6> QED BY <6>2, <6>3
        <5> QED BY <5>1, <5>2
      <4>4. PICK p, h : p = MovedTo(v, OldPage) /\ Item(p, h)' /\ KeyAt(p, h)' = call.key
        BY <2>7, <4>1 DEF Moved
      <4>5. p # 0
        <5>1. p \in Pages
          BY <4>4 DEF Item, Kept, Live
        <5> QED BY <5>1 DEF Pages
      <4>6. (\E i : Item(OldPage, i) /\ KeyAt(OldPage, i) = call.key /\ ~(OldPage = 0 /\ i = 0))'
        BY <1>1, <4>3, <4>4, <4>5
      <4> QED BY <1>1, <3>2, <4>6 DEF Finds
    <3> QED BY <3>1, <3>2
  <2> QED BY <1>4, <1>7, <2>7, <2>8, <2>9
<1> QED BY <1>6, <1>12, <1>13, <1>14, <1>15, <1>16

-----------------------------------------------------------------------------
(* The operations that write an item.                                      *)

(* They leave the headers of all others as they are.                       *)
LEMMA WritingItems ==
    ASSUME NEW s, Len(s) \in Nat, 1 <= Len(s), NEW P, NEW Q, NEW q, NEW h \in Nat, NEW k, NEW v,
           Writing(s, P, q, h, k, v), Changed(s[1], P, Q)
    PROVE  /\ Q.state = P.state
           /\ \A g : g # h => /\ g \in Headed(Q) <=> g \in Headed(P)
                              /\ g \in Headed(P) => Q.data[g] = P.data[g]
<1>1. CASE ToProgram(s, P, q, h, k, v)
  <2>1. s[1] = Program(q, h, Part(k, v, 0))
    BY <1>1 DEF ToProgram
  <2>2. ProgrammedIn(P, Q, h, Part(k, v, 0))
    BY <2>1 DEF Changed, Program
  <2> QED BY <2>2 DEF ProgrammedIn, Headed
<1>2. CASE ToMark(s, P, q, h, k, v)
  <2>1. s[1] = Alter(q, {h}, "WRITTEN")
    BY <1>2 DEF ToMark
  <2>2. WrittenIn(P, Q, {h})
    BY <2>1 DEF Changed, Alter
  <2> QED BY <2>2 DEF WrittenIn, Headed
<1>3. CASE ToFollow(s, P, q, h, k, v)
  <2>1. Rest(s, P, q, h, k, v)
    BY <1>3 DEF ToFollow
  <2>2. 1 \in 1 .. Len(s)
    OBVIOUS
  <2>3. PartProgrammed(s, 1, P, h, k, v) \/ PartsMarked(s, 1, h, v)
    BY <2>1, <2>2 DEF Rest
  <2>4. CASE PartProgrammed(s, 1, P, h, k, v)
    <3>1. PICK e, c : e = s[1].entry /\ c = s[1].content
      OBVIOUS
    <3>2. /\ e \in Entries /\ h < e /\ P.data[e] = Blank /\ c = Part(k, v, e - h)
          /\ s[1].op = "program"
      BY <2>4, <3>1 DEF PartProgrammed
    <3>3. e - h # 0
      <4>1. e \in Nat
        BY <3>2, EntriesAreNat
      <4> QED BY <3>2, <4>1
    <3>4. ~IsHeader(c) /\ ~IsHeader(P.data[e])
      BY <3>2, <3>3, PartIs DEF IsHeader, Blank
    <3>5. ProgrammedIn(P, Q, e, c)
      BY <3>1, <3>2 DEF Changed
    <3> QED BY <3>4, <3>5 DEF ProgrammedIn, Headed
  <2>5. CASE PartsMarked(s, 1, h, v)
    <3>1. PICK D : D = s[1].entries
      OBVIOUS
    <3>2. WrittenIn(P, Q, D)
      BY <2>5, <3>1 DEF Changed, PartsMarked
    <3>3. \A j \in Entries : j \in D => ~IsHeader(P.data[j])
      BY <2>1, <2>5, <3>1 DEF PartsMarked, Rest
    <3> QED BY <3>2, <3>3 DEF WrittenIn, Headed
  <2> QED BY <2>3, <2>4, <2>5
<1> QED BY <1>1, <1>2, <1>3 DEF Writing

(* The item that is written is the last one of its page.                   *)
LEMMA RoomIsLast ==
    ASSUME NEW P \in PageType, NEW h, NEW v, Room(P, h, v)
    PROVE  \A g \in Headed(P) : g <= h
<1>1. h \in Nat
  BY EntriesAreNat DEF Room
<1>2. ASSUME NEW g \in Headed(P), g # h PROVE g <= h
  <2>1. g \in Nat /\ LastOf(P, g) \in Nat /\ g <= LastOf(P, g)
    BY LastOfType, EntriesAreNat DEF Headed
  <2>2. LastOf(P, g) < h
    BY <1>2 DEF Room
  <2> QED BY <1>1, <2>1, <2>2
<1>3. h <= h
  BY <1>1
<1> QED BY <1>2, <1>3

(* A step of the writing of an item: aside from it there are no twins.     *)
LEMMA ItemKeys ==
    ASSUME PagesInv, PagesInv', DataInv, KeyInv, DoFlash, phase = "written"
    PROVE  KeyInv'
<1>1. /\ todo # <<>> /\ todo' = Tail(todo) /\ Perform(Head(todo)) /\ phase' = phase
      /\ call' = call /\ Back' = Back /\ findPage' = findPage
  BY DEF DoFlash, ram, Back
<1>2. /\ FlashType /\ Headers /\ RamType /\ Lists /\ (Plain \/ Opening) /\ FlashType'
      /\ findPage \in Pages \cup {None}
  BY DEF PagesInv, Phases, UpPhases, RamType
<1>3. PICK b, k, v : b = Back /\ k = call.key /\ v = call.value
  OBVIOUS
<1>4. b \in Pages /\ k \in Keys /\ v \in Values
  BY <1>2, <1>3, BackIsPage DEF RamType
<1>5. PICK h \in Entries : WritesAt(h) /\ SingleBut(b, h) /\ Finds(OldPage, b, h)
  BY <1>3 DEF KeyInv
<1>6. /\ State(b) \in {"UNINITIALIZED", "ACTIVE", "FULL"}
      /\ \A p \in Pages : p # b => State(p) \in {"UNINITIALIZED", "CORRUPT", "FULL"}
  BY <1>2, <1>3, PlainStates DEF Plain, Opening
<1>7. h \in Nat
  BY EntriesAreNat
\* What an operation has to do.
<1>8. ASSUME \A q : q \in Pages /\ q # b => flash'[q] = flash[q],
             Writing(todo', flash'[b], b, h, k, v), NEW T, todo' \in Seq(Data(T)),
             \A g : g # h => /\ g \in Headed(flash'[b]) <=> State(b) \in Loaded /\ g \in Headed(flash[b])
                             /\ g \in Headed(flash'[b]) => flash'[b].data[g] = flash[b].data[g]
      PROVE  KeyInv'
  <2>1. ~(todo' # <<>> /\ Head(todo') = Header(b))
    <3>1. todo' # <<>> => Head(todo') \in Data(T)
      BY <1>8, HeadTailProperties
    <3>2. Header(b) \notin Data(T)
      BY DEF Header, Data
    <3> QED BY <3>1, <3>2
  <2>2. WritesAt(h)'
    <3>1. ~(todo # <<>> /\ Head(todo) = Header(Back))'
      BY <1>1, <1>3, <2>1
    <3> QED BY <1>1, <1>3, <1>8, <3>1 DEF WritesAt
  <2>3. State(b)' = "ACTIVE" /\ Room(flash'[b], h, v)
    BY <1>8 DEF Writing, State
  <2>4. \A p \in Pages : p # b => State(p)' = State(p) /\ flash'[p] = flash[p]
    BY <1>8 DEF State
  <2>5. \A p \in Pages : State(p) # "FREEING" /\ State(p)' # "FREEING"
    BY <1>6, <2>3, <2>4
  <2>6. /\ \A p : p \in Kept <=> p \in Pages /\ State(p) \in Loaded
        /\ \A p : p \in Kept' <=> p \in Pages /\ State(p)' \in Loaded
    BY <2>5 DEF Kept, Live
  <2>7. ASSUME NEW p, NEW g, ~(p = b /\ g = h)
        PROVE  (Item(p, g)' <=> Item(p, g)) /\ (Item(p, g) => KeyAt(p, g)' = KeyAt(p, g))
    <3>1. CASE p = b
      <4>1. b \in Kept' /\ (b \in Kept <=> State(b) \in Loaded)
        BY <1>4, <2>3, <2>6 DEF Loaded
      <4>2. Item(b, g)' <=> Item(b, g)
        BY <1>8, <2>7, <3>1, <4>1 DEF Item
      <4>3. Item(b, g) => KeyAt(b, g)' = KeyAt(b, g)
        BY <1>8, <2>7, <3>1, <4>1 DEF Item, KeyAt
      <4> QED BY <3>1, <4>2, <4>3
    <3>2. CASE p # b
      <4>1. p \in Kept' <=> p \in Kept
        BY <2>4, <2>6, <3>2
      <4>2. p \in Kept => flash'[p] = flash[p]
        BY <2>4, <2>6, <3>2
      <4> QED BY <4>1, <4>2 DEF Item, KeyAt
    <3> QED BY <3>1, <3>2
  <2>8. SingleBut(b, h)'
    <3> SUFFICES ASSUME NEW p, NEW i, NEW q, NEW g, Twins(p, i, q, g)',
                        ~(p = b /\ i = h), ~(q = b /\ g = h)
                 PROVE  FALSE
      BY DEF SingleBut
    <3>1. Item(p, i)' /\ Item(q, g)' /\ KeyAt(p, i)' = KeyAt(q, g)' /\ ~(p = q /\ i = g)
      BY DEF Twins
    <3>2. Item(p, i) /\ Item(q, g) /\ KeyAt(p, i) = KeyAt(q, g)
      BY <2>7, <3>1
    <3> QED BY <1>5, <3>1, <3>2 DEF SingleBut, Twins
  <2>9. Finds(OldPage, b, h)'
    <3>1. CASE findPage = None
      <4>1. \A q, g : Item(q, g)' /\ KeyAt(q, g)' = call'.key => q = b /\ g = h
        BY <1>1, <1>5, <2>7, <3>1 DEF Finds
      <4> QED BY <1>1, <3>1, <4>1 DEF Finds
    <3>2. CASE findPage # None
      <4>1. PICK p, g : p = OldPage /\ Item(p, g) /\ KeyAt(p, g) = call.key /\ ~(p = b /\ g = h)
        BY <1>5, <3>2 DEF Finds
      <4>2. findPage \in Pages
        BY <1>2, <3>2
      <4>3. State(p) # "UNINITIALIZED" /\ State(b)' # "UNINITIALIZED"
        BY <2>3, <4>1, ItemIs DEF Loaded
      <4>4. OldPage' = p
        <5>1. CASE State(findPage) = "UNINITIALIZED"
          <6>1. p = b
            BY <1>3, <4>1, <5>1 DEF OldPage
          <6>2. State(findPage)' = "UNINITIALIZED"
            BY <1>1, <2>4, <4>2, <4>3, <5>1, <6>1
          <6> QED BY <1>1, <1>3, <6>1, <6>2 DEF OldPage
        <5>2. CASE State(findPage) # "UNINITIALIZED"
          <6>1. p = findPage
            BY <4>1, <5>2 DEF OldPage
          <6>2. State(findPage)' # "UNINITIALIZED"
            BY <1>1, <2>4, <4>2, <4>3, <5>2, <6>1
          <6> QED BY <1>1, <6>1, <6>2 DEF OldPage
        <5> QED BY <5>1, <5>2
      <4>5. Item(p, g)' /\ KeyAt(p, g)' = call'.key
        BY <1>1, <2>7, <4>1
      <4>6. (\E i : Item(OldPage, i) /\ KeyAt(OldPage, i) = call.key /\ ~(OldPage = b /\ i = h))'
        BY <4>1, <4>4, <4>5
      <4> QED BY <1>1, <3>2, <4>6 DEF Finds
    <3> QED BY <3>1, <3>2
  <2>10. Newest(b, h)'
    <3>1. flash'[b] \in PageType
      BY <1>2, <1>4 DEF FlashType
    <3>2. \A g \in Headed(flash'[b]) : g <= h
      BY <2>3, <3>1, RoomIsLast
    <3> QED BY <2>3, <3>2 DEF Newest
  <2>11. Recoverable'
    BY <2>8, <2>10 DEF SingleBut, Recoverable
  <2>12. Shadow'
    BY <2>5 DEF Shadow
  <2>13. (\E i \in Entries : WritesAt(i) /\ SingleBut(Back, i) /\ Finds(OldPage, Back, i))'
    BY <1>1, <1>3, <2>2, <2>8, <2>9
  <2> QED BY <1>1, <2>11, <2>12, <2>13 DEF KeyInv
<1>9. CASE Opening
  <2>1. State(b) = "UNINITIALIZED" /\ Head(todo) = Header(b) /\ Tail(todo) \in Seq(Data({b}))
    BY <1>3, <1>9 DEF Opening
  <2>2. Writing(Tail(todo), Opened, b, h, k, v)
    BY <1>1, <1>3, <1>5, <2>1 DEF WritesAt
  <2>3. flash' = [flash EXCEPT ![b] = [@ EXCEPT !.state = "ACTIVE"]]
    BY <1>1, <2>1, PerformIs
  <2>4. flash[b] = ErasedPage
    BY <1>2, <1>4, <2>1 DEF Headers
  <2>5. flash'[b] = Opened /\ \A q : q \in Pages /\ q # b => flash'[q] = flash[q]
    BY <1>2, <1>4, <2>3, <2>4 DEF FlashType, Opened
  <2>6. Headed(flash'[b]) = {} /\ State(b) \notin Loaded
    BY <2>1, <2>5, OpenedIs DEF Headed, Loaded
  <2> QED BY <1>1, <1>8, <2>1, <2>2, <2>5, <2>6
<1>10. CASE Plain
  <2>1. todo \in Seq(Data(Live))
    BY <1>10 DEF Plain
  <2>2. PICK o : o = Head(todo)
    OBVIOUS
  <2>3. o \in Data(Live) /\ Tail(todo) \in Seq(Data(Live)) /\ todo[1] = o
    BY <1>1, <2>1, <2>2, HeadTailProperties
  <2>4. o # Header(b)
    BY <2>3 DEF Header, Data
  <2>5. PICK P, Q : P = flash[b] /\ Q = flash'[b]
    OBVIOUS
  <2>6. P \in PageType /\ Writing(todo, P, b, h, k, v)
    BY <1>1, <1>2, <1>3, <1>4, <1>5, <2>2, <2>4, <2>5 DEF FlashType, WritesAt
  <2>7. WritesNext(o, P, b)
    BY <1>1, <1>4, <2>1, <2>3, <2>6, WritingHead
  <2>8. o.page = b
    BY <2>7 DEF WritesNext
  <2>9. Live \subseteq Pages
    BY DEF Live
  <2>10. o \in Data(Pages)
    BY <2>3, <2>9, DataMonotone
  <2>11. Changed(o, P, Q) /\ \A q : q \in Pages /\ q # b => flash'[q] = flash[q]
    BY <1>1, <1>2, <2>2, <2>5, <2>8, <2>10, DoWrites
  <2>12. /\ todo[1].op = "program" => ProgrammedIn(P, Q, todo[1].entry, todo[1].content)
         /\ todo[1].op = "alter" /\ todo[1].state = "WRITTEN" => WrittenIn(P, Q, todo[1].entries)
    BY <2>3, <2>11 DEF Changed
  <2>13. Writing(Tail(todo), Q, b, h, k, v)
    BY <1>1, <1>4, <2>1, <2>6, <2>12, WritingStep
  <2>14. Len(todo) \in Nat /\ 1 <= Len(todo)
    BY <1>1, <2>1, EmptySeq
  <2>15. /\ P.state = "ACTIVE"
         /\ \A g : g # h => /\ g \in Headed(Q) <=> g \in Headed(P)
                            /\ g \in Headed(P) => Q.data[g] = P.data[g]
    <3>1. P.state = "ACTIVE" /\ Changed(todo[1], P, Q)
      BY <2>3, <2>6, <2>11 DEF Writing
    <3> QED BY <1>7, <2>6, <2>14, <3>1, WritingItems
  <2>16. State(b) \in Loaded
    BY <2>5, <2>15 DEF State, Loaded
  <2>17. PICK T : T = Live
    OBVIOUS
  <2>18. todo' \in Seq(Data(T)) /\ Writing(todo', flash'[b], b, h, k, v)
    BY <1>1, <2>3, <2>5, <2>13, <2>17
  <2>19. \A g : g # h => /\ g \in Headed(flash'[b]) <=> State(b) \in Loaded /\ g \in Headed(flash[b])
                         /\ g \in Headed(flash'[b]) => flash'[b].data[g] = flash[b].data[g]
    BY <2>5, <2>15, <2>16
  <2> QED BY <1>8, <2>11, <2>18, <2>19
<1> QED BY <1>2, <1>9, <1>10

(* One operation of flash.                                                 *)
LEMMA DoFlashKeys == PagesInv /\ PagesInv' /\ DataInv /\ KeyInv /\ DoFlash => KeyInv'
<1> SUFFICES ASSUME PagesInv, PagesInv', DataInv, KeyInv, DoFlash PROVE KeyInv'
  OBVIOUS
<1>1. todo # <<>>
  BY DEF DoFlash
<1>2. phase # "load" /\ phase # "error"
  BY <1>1 DEF PagesInv, Phases, DataInv
<1>3. \/ phase \in {"manager", "freeing", "stored", "clearing"}
      \/ phase = "request" \/ phase = "written" \/ phase \in {"ready", "again"}
  BY <1>2 DEF PagesInv, RamType, UpPhases
<1> QED BY <1>3, EraseKeys, CloseKeys, ItemKeys, MoveKeys

(* One that is cut off: what is left of it is not an item.                 *)
LEMMA TornFlashKeys == PagesInv /\ DataInv /\ KeyInv /\ TornFlash => KeyInv'
<1> SUFFICES ASSUME PagesInv, DataInv, KeyInv, TornFlash PROVE KeyInv'
  OBVIOUS
<1>1. todo # <<>> /\ Tear(Head(todo)) /\ Restart
  BY DEF TornFlash
<1>2. FlashType /\ Headers /\ Recoverable /\ Shadow
  BY DEF PagesInv, KeyInv
<1>3. PICK o, r : o = Head(todo) /\ r = o.page
  OBVIOUS
<1>4. o \in Ops /\ r \in Pages
  <2>1. o \in Ops
    BY <1>1, <1>3, HeadCases
  <2> QED BY <1>3, <2>1 DEF Ops, Data
<1>5. SUFFICES Recoverable' /\ Shadow'
  BY <1>1, RestartKeys
\* An entry is programmed in part.
<1>6. CASE o.op = "program"
  <2>1. flash' = [flash EXCEPT ![r].data[o.entry] = Spoiled(o.content)]
    BY <1>1, <1>3, <1>6 DEF Tear, FlashBecomes
  <2>2. PICK i, c, P, Q : i = o.entry /\ c = Spoiled(o.content) /\ P = flash[r] /\ Q = flash'[r]
    OBVIOUS
  <2>3. ProgrammedIn(P, Q, i, c) /\ \A q : q \in Pages /\ q # r => flash'[q] = flash[q]
    BY <1>2, <1>4, <2>1, <2>2, TornWrites
  <2>4. ~IsHeader(c)
    BY <2>2, PartIs
  <2>5. Lessened(P, Q) /\ Q.state = P.state
    BY <2>3, <2>4, LessenedIs DEF ProgrammedIn
  <2>6. Shrinks
    BY <2>2, <2>3, <2>5, StaysShrinks
  <2> QED BY <1>2, <2>6, ShrinksKeep
\* A header is written, or a page erased, in part.
<1>7. CASE o.op \in {"header", "erase"}
  <2>1. flash' = [flash EXCEPT ![r] = Corrupted]
    BY <1>1, <1>3, <1>7 DEF Tear, FlashBecomes
  <2>2. flash'[r] = Corrupted /\ \A q : q \in Pages /\ q # r => flash'[q] = flash[q]
    BY <1>2, <1>4, <2>1 DEF FlashType
  <2>3. State(r)' = "CORRUPT" /\ State(r)' \notin Loaded
    BY <2>2, ErasedType DEF State, Loaded
  <2>4. CASE State(r) # "FREEING"
    <3>1. Headed(flash'[r]) = {}
      BY <2>2 DEF Headed, Corrupted, ErasedPage, EmptyTable
    <3>2. Lessened(flash[r], flash'[r])
      BY <3>1, LessenedIs
    <3>3. ASSUME NEW p \in Pages, p # r PROVE State(p)' = State(p) /\ Lessened(flash[p], flash'[p])
      <4>1. flash'[p] = flash[p]
        BY <2>2, <3>3
      <4> QED BY <4>1, LessenedIs DEF State
    <3>4. Shrinks
      BY <2>3, <2>4, <3>2, <3>3 DEF Shrinks
    <3> QED BY <1>2, <3>4, ShrinksKeep
  <2>5. CASE State(r) = "FREEING"
    <3>1. phase \in {"ready", "again"} /\ Frees(r)
      BY <1>1, <1>3, <1>7, <2>5, FreeingErased
    <3>2. KeyMoves /\ Single
      BY <3>1 DEF KeyInv
    <3>3. Back \in Pages
      <4>1. RamType /\ Lists
        BY <3>1 DEF PagesInv, Phases, UpPhases
      <4> QED BY <4>1, BackIsPage
    <3> QED BY <1>2, <2>2, <2>3, <3>1, <3>2, <3>3, FreedKeys
  <2> QED BY <2>4, <2>5
<1> QED BY <1>1, <1>3, <1>6, <1>7 DEF Tear

-----------------------------------------------------------------------------
(* What follows for every state of the library.                            *)

(* The keys of the items of flash, at every moment: a key that is there    *)
(* twice is there because of one call, or of one that was cut off, and     *)
(* what is queued, or the next start, takes one of the two away.           *)
THEOREM KeyInvariant == Spec => []KeyInv
<1>1. ASSUME KeyInv, UNCHANGED vars PROVE KeyInv'
  <2>1. UNCHANGED <<flash, order, stored, todo, pageList, freeList, phase, call, findPage, reply>>
    BY <1>1 DEF vars, disk, ram
  <2>2. Back' = Back /\ OldPage' = OldPage /\ \A h : WritesAt(h)' <=> WritesAt(h)
    BY <2>1 DEF Back, OldPage, State, WritesAt
  <2>3. UNCHANGED disk /\ todo' = todo
    BY <2>1 DEF disk
  <2>4. /\ \A p, h : Item(p, h)' <=> Item(p, h)
        /\ \A p, h : KeyAt(p, h)' = KeyAt(p, h)
        /\ Recoverable => Recoverable'
        /\ Shadow => Shadow'
        /\ Single => Single'
        /\ \A b, x : SingleBut(b, x) => SingleBut(b, x)'
        /\ SingleAfter(todo') => SingleAfter(todo)'
        /\ SinglePages(todo') => SinglePages(todo)'
    BY <2>3, SameItems
  <2>5. \A p, b, x : Finds(p, b, x) => Finds(p, b, x)'
    BY <2>1, <2>4 DEF Finds
  <2>6. KeyMoves => KeyMoves'
    BY <2>1, <2>2 DEF KeyMoves, State
  <2>7. phase = "request" => Finds(findPage, 0, 0)'
    BY <1>1, <2>1, <2>5 DEF KeyInv
  <2>8. phase = "again" => Finds(OldPage, 0, 0)'
    BY <1>1, <2>2, <2>5 DEF KeyInv
  <2>9. phase = "written" => (\E h \in Entries : WritesAt(h) /\ SingleBut(Back, h) /\ Finds(OldPage, Back, h))'
    BY <1>1, <2>2, <2>4, <2>5 DEF KeyInv
  <2> QED BY <1>1, <2>1, <2>4, <2>6, <2>7, <2>8, <2>9 DEF KeyInv
<1>2. ASSUME PagesInv, PagesInv', DataInv, KeyInv, Next PROVE KeyInv'
  BY <1>2, LoadPagesKeys, LoadManagerKeys, FinishFreeingKeys, SetItemKeys, RequestNewPageKeys,
     WriteAgainKeys, EraseOldKeys, EraseAllKeys, EraseNextKeys, ReturnKeys, DoFlashKeys,
     PowerLossKeys, TornFlashKeys DEF Next
<1>3. PagesInv /\ PagesInv' /\ DataInv /\ KeyInv /\ [Next]_vars => KeyInv'
  BY <1>1, <1>2
<1> QED BY <1>3, InitKeys, PagesInvariant, DataInvariant, PTL DEF Spec

(* Between two calls no key is in flash twice, in one page or in two: an   *)
(* application that reads a value, and takes the first that it finds,      *)
(* finds the one that was written last, whatever number of pages, entries  *)
(* and keys there is, and wherever the power failed before.                *)
THEOREM OneOfEachKey == Spec => []KeysUnique
<1>1. ASSUME PagesInv, DataInv, KeyInv PROVE KeysUnique
  <2> SUFFICES ASSUME phase = "ready", todo = <<>>, NEW k \in Keys
               PROVE  Cardinality(UNION {{p} \X CopiesOf(k, flash[p]) : p \in Range(pageList)}) <= 1
    BY DEF KeysUnique, Ready
  <2> DEFINE U == UNION {{p} \X CopiesOf(k, flash[p]) : p \in Range(pageList)}
  <2>1. FlashType /\ RamType /\ Headers /\ Lists /\ Plain /\ Settled /\ Single
    BY <1>1, IdleIsPlain DEF PagesInv, UpPhases, DataInv, KeyInv
  <2>2. \A p \in Range(pageList) : p \in Pages
    BY <2>1, RangeMembers DEF RamType
  <2>3. ASSUME NEW p \in Range(pageList), NEW h \in CopiesOf(k, flash[p])
        PROVE  Item(p, h) /\ KeyAt(p, h) = k
    <3>1. Visited(flash[p]) # {}
      BY <2>3, CopiesType
    <3>2. p \in Live
      BY <2>1, <2>2, <3>1, WrittenIsLive
    <3>3. p \in Kept
      BY <2>1, <3>2, PlainKept
    <3> QED BY <2>1, <3>3, CopiesAre
  <2>4. ASSUME NEW x \in U, NEW y \in U PROVE x = y
    <3>1. PICK p \in Range(pageList) : x \in {p} \X CopiesOf(k, flash[p])
      OBVIOUS
    <3>2. PICK q \in Range(pageList) : y \in {q} \X CopiesOf(k, flash[q])
      OBVIOUS
    <3>3. PICK h \in CopiesOf(k, flash[p]) : x = <<p, h>>
      BY <3>1
    <3>4. PICK g \in CopiesOf(k, flash[q]) : y = <<q, g>>
      BY <3>2
    <3>5. Item(p, h) /\ KeyAt(p, h) = k
      BY <2>3
    <3>6. Item(q, g) /\ KeyAt(q, g) = k
      BY <2>3
    <3>7. p = q /\ h = g
      BY <2>1, <3>5, <3>6 DEF Single, Twins
    <3> QED BY <3>3, <3>4, <3>7
  <2> HIDE DEF U
  <2>5. CASE U = {}
    BY <2>5, FS_EmptySet DEF U
  <2>6. CASE U # {}
    <3>1. PICK x : x \in U
      BY <2>6
    <3>2. U = {x}
      BY <2>4, <3>1
    <3>3. Cardinality(U) = 1
      BY <3>2, FS_Singleton
    <3> QED BY <3>3 DEF U
  <2> QED BY <2>5, <2>6
<1> QED BY <1>1, PagesInvariant, DataInvariant, KeyInvariant, PTL
=============================================================================
