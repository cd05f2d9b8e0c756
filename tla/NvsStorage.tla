----------------------------- MODULE NvsStorage -----------------------------
(***************************************************************************)
(* The NVS library of the SDK, through which the relay mask and the        *)
(* credentials of the router are kept: nvs_flash_init, nvs_set_* and       *)
(* nvs_erase_all (Storage, PageManager and Page) as the writes and erases  *)
(* of flash they come down to.  The power may fail between any two, and    *)
(* within one; nvs_flash_init then finds what is left.                     *)
(*                                                                         *)
(* The library works under one lock and looks at nothing but the flash, so *)
(* each of its functions is an action that queues the flash operations it  *)
(* will do (todo), and DoFlash does them one by one.  What RAM holds of a  *)
(* page (entry table, counts, hash list) is a function of the flash; the   *)
(* two lists of pages are variables.                                       *)
(***************************************************************************)
EXTENDS Integers, SequencesExt

CONSTANTS
    PageCount,     \* sectors of the partition
    EntryCount,    \* entries of a page (ENTRY_COUNT)
    PerWord,       \* entry states that share a word of the entry table
    Keys,
    NamespaceOf,   \* the namespace of each key
    ValuesOf,      \* the values the application writes under each key
    DataEntries,   \* for each value: its full entries of data, written in one go,
    TailEntries,   \* ... and 1 when the rest of it needs an entry more, or 0
    BlankValues,   \* the values whose entries of data begin with the word 0xffffffff
    None

Values  == UNION {ValuesOf[k] : k \in Keys}
Span(v) == 1 + DataEntries[v] + TailEntries[v]

ASSUME NvsAssumption ==
    /\ PageCount \in Nat /\ PageCount >= 2
    /\ EntryCount \in Nat /\ PerWord \in Nat \ {0}
    /\ DataEntries \in [Values -> Nat] /\ TailEntries \in [Values -> {0, 1}]
    /\ \A v \in Values : Span(v) <= EntryCount   \* BLOB_MAX_SIZE is less than that
    /\ None \notin Values
ASSUME NoPageAssumption == None \notin 1 .. PageCount

VARIABLES
    flash,     \* the pages: state, entry table, entries
    order,     \* the pages with a valid header, by the sequence number in it
    pageList,  \* RAM: mPageList
    freeList,  \* RAM: mFreePageList
    phase,     \* RAM: what runs when todo is done
    todo,      \* RAM: the flash operations left to do
    call,      \* RAM: the call of the application
    findPage,  \* RAM: the page with the value nvs_set_* replaces, or None
    reply,     \* what the last call returned
    stored     \* history: of each key the value that flash holds (Durable)

ram  == <<pageList, freeList, phase, call, findPage, reply>>
disk == <<flash, order, stored>>
vars == <<disk, todo, ram>>

Pages      == 1 .. PageCount
Entries    == 0 .. EntryCount - 1
Namespaces == {NamespaceOf[k] : k \in Keys}

-----------------------------------------------------------------------------
(* Contents of an entry: as erased; cut short; cut short or discarded with *)
(* its first word still 0xffffffff; or part number `part' of an item, the  *)
(* header of the item being part 0.                                        *)
Blank  == [tag |-> "blank"]
Junk   == [tag |-> "junk"]
Hidden == [tag |-> "hidden"]
Part(k, v, n) == [tag |-> "part", key |-> k, value |-> v, part |-> n]

(* The test of mLoadEntryTable for an entry nobody began to write.         *)
LooksBlank(c) == \/ c.tag \in {"blank", "hidden"}
                 \/ c.tag = "part" /\ c.part > 0 /\ c.value \in BlankValues

(* A write that was cut off, and an entry that was discarded.              *)
Spoiled(c) == IF c = Blank THEN Blank ELSE IF LooksBlank(c) THEN Hidden ELSE Junk

EmptyTable == [i \in Entries |-> "EMPTY"]
ErasedPage == [state |-> "UNINITIALIZED", table |-> EmptyTable,
               data |-> [i \in Entries |-> Blank]]

-----------------------------------------------------------------------------
(* The operations of flash.                                                *)
Program(p, i, c)   == [op |-> "program", page |-> p, entry |-> i, content |-> c]
Alter(p, s, state) == [op |-> "alter", page |-> p, entries |-> s, state |-> state]
Header(p)          == [op |-> "header", page |-> p]
PageState(p, state) == [op |-> "state", page |-> p, state |-> state]
Erase(p)           == [op |-> "erase", page |-> p]

NewPage(o) ==
    LET page == flash[o.page] IN
    IF o.op = "program" THEN [page EXCEPT !.data[o.entry] = o.content]
    ELSE IF o.op = "alter" THEN
         [page EXCEPT !.table = [i \in Entries |-> IF i \in o.entries THEN o.state ELSE @[i]],
                      !.data  = [i \in Entries |-> IF i \in o.entries /\ o.state = "ERASED"
                                                   THEN Spoiled(@[i]) ELSE @[i]]]
    ELSE IF o.op = "header" THEN [page EXCEPT !.state = "ACTIVE"]
    ELSE IF o.op = "state"  THEN [page EXCEPT !.state = o.state]
    ELSE ErasedPage

(* The lists of pages: one taken out, the first of a kind, and pages in    *)
(* the order of their sectors.                                             *)
\* Mutant: a page stays in the list it was in.
StillWith(s, p) == s

Without(s, p) == RemoveFirst(s, p)
First(s, T)   == s[SelectInSeq(s, LAMBDA p : p \in T)]
InOrder(T)    == FlattenSeq([p \in Pages |-> IF p \in T THEN <<p>> ELSE <<>>])

-----------------------------------------------------------------------------
(* Reading a page, given what flash holds of it.                           *)

(* mNextFreeEntry.                                                         *)
NextFree(page) == Min({i \in Entries : page.table[i] = "EMPTY"} \cup {EntryCount})

IsHeader(c)     == c.tag = "part" /\ c.part = 0
SpanAt(page, i) == IF IsHeader(page.data[i]) THEN Span(page.data[i].value) ELSE 1
LastOf(page, i) == i + SpanAt(page, i) - 1
IsWhole(page, i) == /\ IsHeader(page.data[i])
                    /\ \A j \in i .. LastOf(page, i) : page.table[j] = "WRITTEN"

(* Where a scan stops: at the WRITTEN entries, leaving out the span of     *)
(* each item whose header it has read.                                     *)
Visited(page) ==
    CHOOSE V \in SUBSET Entries :
        \A i \in Entries :
            i \in V <=> /\ page.table[i] = "WRITTEN"
                       /\ \A j \in V : j < i => LastOf(page, j) < i

ItemsIn(page)     == {i \in Visited(page) : IsHeader(page.data[i])}
CopiesOf(k, page) == {i \in ItemsIn(page) : page.data[i].key = k}

(* Page::findItem and Storage::findItem: the first match.                  *)
FindPage(k) ==
    LET found == {p \in Range(pageList) : CopiesOf(k, flash[p]) # {}}
    IN  IF found = {} THEN None ELSE First(pageList, found)

-----------------------------------------------------------------------------
(* What flash f holds, pages with a header in order o, whatever runs: of   *)
(* each key the last intact item, those aside that are being copied from a *)
(* page not yet erased.                                                    *)
Counting(f, o) ==
    IF /\ o # <<>> /\ f[Last(o)].state = "ACTIVE"
       /\ \E p \in Range(o) : f[p].state = "FREEING"
    THEN Front(o) ELSE o

IntactAt(page, k) ==
    {i \in Entries :
        /\ IsHeader(page.data[i]) /\ page.data[i].key = k
        /\ \A n \in 0 .. Span(page.data[i].value) - 1 :
              /\ page.table[i + n] = "WRITTEN"
              /\ page.data[i + n] = [page.data[i] EXCEPT !.part = n]}

Durable(f, o) ==
    LET pages     == Counting(f, o)
        copies(k) == {n \in DOMAIN pages : IntactAt(f[pages[n]], k) # {}}
        last(k)   == f[pages[Max(copies(k))]]
    IN  [k \in Keys |-> IF copies(k) = {} THEN None
                        ELSE last(k).data[Max(IntactAt(last(k), k))].value]

FlashBecomes(f, o) == flash' = f /\ order' = o /\ stored' = Durable(f, o)

-----------------------------------------------------------------------------
(* The operations of flash, whole or cut off.                              *)
Perform(o) ==
    FlashBecomes([flash EXCEPT ![o.page] = NewPage(o)],
                 IF o.op = "header" THEN Append(order, o.page)
                 ELSE IF o.op = "erase" THEN Without(order, o.page) ELSE order)

(* A word is written or not; a header without its CRC, and a page erased   *)
(* in part, are found to be corrupt.                                       *)
Corrupted == [ErasedPage EXCEPT !.state = "CORRUPT"]

Tear(o) ==
    \/ /\ o.op = "program"
       /\ FlashBecomes([flash EXCEPT ![o.page].data[o.entry] = Spoiled(o.content)], order)
    \/ /\ o.op \in {"header", "erase"}
       /\ FlashBecomes([flash EXCEPT ![o.page] = Corrupted], Without(order, o.page))

DoFlash ==
    /\ todo # <<>>
    /\ Perform(Head(todo))
    /\ todo' = Tail(todo)
    /\ UNCHANGED ram

-----------------------------------------------------------------------------
(* Pieces of the functions that write.                                     *)

(* alterEntryRangeState: word by word, from the last to the first.         *)
AlterRange(p, first, last, state) ==
    [n \in 1 .. (last \div PerWord) - (first \div PerWord) + 1 |->
        Alter(p, {i \in first .. last : i \div PerWord = (last \div PerWord) - n + 1}, state)]

(* writeEntry.                                                             *)
WriteEntry(p, i, c) == <<Program(p, i, c), Alter(p, {i}, "WRITTEN")>>

(* eraseEntryAndSpan, for an item, and eraseItem, for the first with key k. *)
EraseItem(p, i) == AlterRange(p, i, LastOf(flash[p], i), "ERASED")
EraseKey(p, k)  == EraseItem(p, Min(CopiesOf(k, flash[p])))

(* initialize, for a page that is not.                                     *)
Initialize(p) == IF flash[p].state = "UNINITIALIZED" THEN <<Header(p)>> ELSE <<>>

(* Page::writeItem: header, data, tail.                                    *)
Fits(p, v) == flash[p].state # "FULL" /\ NextFree(flash[p]) + Span(v) <= EntryCount

WriteItem(p, k, v) ==
    LET i == NextFree(flash[p])
        d == DataEntries[v]
    IN  Initialize(p)
        \o WriteEntry(p, i, Part(k, v, 0))
        \o (IF d = 0 THEN <<>>
            ELSE [n \in 1 .. d |-> Program(p, i + n, Part(k, v, n))]
                 \o AlterRange(p, i + 1, i + d, "WRITTEN"))
        \o (IF TailEntries[v] = 0 THEN <<>> ELSE WriteEntry(p, i + d + 1, Part(k, v, d + 1)))

(* copyItems: the items of page p to the new page q, entry by entry, each  *)
(* behind those before it.                                                 *)
CopyItems(p, q) ==
    LET copied   == {j \in Entries : \E i \in Visited(flash[p]) : j \in i .. LastOf(flash[p], i)}
        place(j) == Cardinality({k \in copied : k < j})
        copy(j)  == IF j \in copied THEN WriteEntry(q, place(j), flash[p].data[j]) ELSE <<>>
    IN  (IF copied = {} THEN <<>> ELSE <<Header(q)>>)
        \o FlattenSeq([n \in 1 .. EntryCount |-> copy(n - 1)])

(* activatePage: a corrupt page is erased first.                           *)
Activate(p) == IF flash[p].state = "CORRUPT" THEN <<Erase(p)>> ELSE <<>>

-----------------------------------------------------------------------------
(* nvs_flash_init.  Page::load, for each sector: in the ACTIVE page the    *)
(* entries behind the last one that the table knows of may have been       *)
(* written in part, and are given up.                                      *)
\* Mutant: a page that takes no writes is not looked at.
LoadedActive == {"ACTIVE"}

Loaded == {"ACTIVE", "FULL", "FREEING"}

\* Mutant: only the entry table is looked at.
TrustTable(page) == {}

HalfWritten(page) ==
    LET from == NextFree(page)
        to   == Min({i \in from .. EntryCount - 1 : LooksBlank(page.data[i])} \cup {EntryCount})
    IN  IF page.state = "ACTIVE" THEN from .. to - 1 ELSE {}

(* Then the items that are not whole are erased, and in the ACTIVE page    *)
(* those that a later one replaces.                                        *)
\* Mutant: it is the later one that is erased.
Replacing(page, i) ==
    IF \E j \in CopiesOf(page.data[i].key, page) : j < i /\ IsWhole(page, j) THEN {i} ELSE {}

Replaced(page, i) ==
    LET older == {j \in CopiesOf(page.data[i].key, page) : j < i /\ IsWhole(page, j)}
    IN  IF page.state = "ACTIVE" /\ older # {} THEN {Max(older)} ELSE {}

LoadPage(p) ==
    LET half == HalfWritten(flash[p])
        page == [flash[p] EXCEPT !.table = [i \in Entries |-> IF i \in half THEN "ERASED" ELSE @[i]]]
        check(i) == IF i \notin Visited(page) THEN <<>>
                    ELSE IF ~IsWhole(page, i) THEN EraseItem(p, i)
                    ELSE IF Replaced(page, i) = {} THEN <<>>
                    ELSE EraseItem(p, Max(Replaced(page, i)))
    IN  IF flash[p].state \notin Loaded THEN <<>>
        ELSE [n \in 1 .. Cardinality(half) |-> Alter(p, {Min(half) + n - 1}, "ERASED")]
             \o FlattenSeq([n \in 1 .. EntryCount |-> check(n - 1)])

LoadPages ==
    /\ phase = "load"
    /\ todo' = FlattenSeq([p \in Pages |-> LoadPage(p)])
    /\ phase' = "manager"
    /\ UNCHANGED <<disk, pageList, freeList, call, findPage, reply>>

(* PageManager::load: the lists of pages, and of the last item of the last *)
(* page the older copy, in case it was not erased any more.                *)
\* Mutant: a copy in an older page stays.
NoOlderCopy == <<>>

OlderCopy ==
    LET page  == flash[Last(order)]
        k     == page.data[Max(ItemsIn(page))].key
        older == {q \in Range(Front(order)) :
                      flash[q].state # "FREEING" /\ CopiesOf(k, flash[q]) # {}}
    IN  IF ItemsIn(page) = {} \/ older = {} THEN <<>>
        ELSE EraseKey(First(order, older), k)

LoadManager ==
    /\ phase = "manager" /\ todo = <<>>
    /\ LET free == InOrder(Pages \ Range(order))
       IN  IF order = <<>>
           THEN /\ pageList' = <<Head(free)>> /\ freeList' = Tail(free)
                /\ todo' = Activate(Head(free))
                /\ phase' = "ready"
           ELSE /\ pageList' = order /\ freeList' = free
                /\ todo' = OlderCopy
                /\ phase' = "freeing"
    /\ UNCHANGED <<disk, call, findPage, reply>>

(* Then a page that was being freed is freed again, from the start.        *)
FinishFreeing ==
    /\ phase = "freeing" /\ todo = <<>>
    /\ LET freeing == {p \in Range(pageList) : flash[p].state = "FREEING"}
           p       == First(pageList, freeing)
           target  == Last(pageList)
           redo    == flash[target].state = "ACTIVE"
           kept    == IF redo THEN Front(pageList) ELSE pageList
           free    == IF redo THEN Append(freeList, target) ELSE freeList
           q       == Head(free)
       IN  IF freeing = {}
           THEN /\ phase' = IF free = <<>> THEN "failed" ELSE "ready"
                /\ UNCHANGED <<pageList, freeList, todo>>
           ELSE IF free = <<>> THEN phase' = "failed" /\ UNCHANGED <<pageList, freeList, todo>>
           ELSE /\ pageList' = Without(Append(kept, q), p)
                /\ freeList' = Append(Tail(free), p)
                /\ todo' = (IF redo THEN <<Erase(target)>> ELSE <<>>)
                           \o (IF q = target THEN <<>> ELSE Activate(q))
                           \o CopyItems(p, q) \o <<Erase(p)>>
                /\ phase' = "ready"
    /\ UNCHANGED <<disk, call, findPage, reply>>

-----------------------------------------------------------------------------
(* nvs_set_*: Storage::writeItem.                                          *)

Back == Last(pageList)

\* Mutant: the current page is left as it is.
LeaveActive(p) == <<>>

MarkFull(p) == IF flash[p].state = "FULL" THEN <<>> ELSE <<PageState(p, "FULL")>>

(* The item goes to the current page, or that page is marked as full.      *)
SetItem ==
    /\ phase = "ready" /\ todo = <<>>
    /\ \E k \in Keys : \E v \in ValuesOf[k] :
          /\ call' = [op |-> "set", key |-> k, value |-> v]
          /\ findPage' = FindPage(k)
          /\ IF Fits(Back, v)
             THEN todo' = WriteItem(Back, k, v) /\ phase' = "written"
             ELSE todo' = MarkFull(Back) /\ phase' = "request"
    /\ reply' = "none"
    /\ UNCHANGED <<disk, pageList, freeList>>

(* requestNewPage: a free page becomes the current one; if it was the last *)
(* free one, the page that gains most is moved there and erased.           *)
Used(p) == Cardinality({i \in Entries : flash[p].table[i] = "WRITTEN"})
Victim == First(pageList, {p \in Range(pageList) : \A q \in Range(pageList) : Used(p) <= Used(q)})

\* Mutant: the last free page is taken.
TakeLast == freeList # <<>>

(* Two free pages: nothing has to be erased.                               *)
TwoFree == Len(freeList) >= 2

RequestNewPage ==
    /\ phase = "request" /\ todo = <<>>
    /\ LET q == Head(freeList)
       IN  IF freeList = <<>> \/ (Len(freeList) = 1 /\ Used(Victim) = EntryCount)
           THEN phase' = "error" /\ UNCHANGED <<pageList, freeList, todo>>
           ELSE IF TwoFree
           THEN /\ pageList' = Append(pageList, q) /\ freeList' = Tail(freeList)
                /\ todo' = Activate(q)
                /\ phase' = "again"
           ELSE /\ pageList' = Without(Append(pageList, q), Victim)
                /\ freeList' = <<Victim>>
                /\ todo' = Activate(q) \o <<PageState(Victim, "FREEING")>>
                           \o CopyItems(Victim, q) \o <<Erase(Victim)>>
                /\ phase' = "again"
    /\ UNCHANGED <<disk, call, findPage, reply>>

WriteAgain ==
    /\ phase = "again" /\ todo = <<>>
    /\ IF Fits(Back, call.value)
       THEN todo' = WriteItem(Back, call.key, call.value) /\ phase' = "written"
       ELSE todo' = <<>> /\ phase' = "error"
    /\ UNCHANGED <<disk, pageList, freeList, call, findPage, reply>>

(* The old item is erased; where it was moved, it is searched for again.   *)
EraseOld ==
    /\ phase = "written" /\ todo = <<>>
    /\ LET k == call.key
           p == IF flash[findPage].state = "UNINITIALIZED" THEN FindPage(k) ELSE findPage
       IN  IF findPage = None THEN phase' = "stored" /\ todo' = <<>>
           ELSE IF p = None \/ CopiesOf(k, flash[p]) = {} THEN phase' = "error" /\ todo' = <<>>
           ELSE phase' = "stored" /\ todo' = EraseKey(p, k)
    /\ UNCHANGED <<disk, pageList, freeList, call, findPage, reply>>

-----------------------------------------------------------------------------
(* nvs_erase_all: Storage::eraseNamespace, one item after the other.       *)

EraseAll ==
    /\ phase = "ready" /\ todo = <<>>
    /\ \E ns \in Namespaces : call' = [op |-> "clear", namespace |-> ns]
    /\ phase' = "clearing"
    /\ reply' = "none"
    /\ UNCHANGED <<disk, pageList, freeList, todo, findPage>>

ItemsOf(ns, p) == {i \in ItemsIn(flash[p]) : NamespaceOf[flash[p].data[i].key] = ns}

EraseNext ==
    /\ phase = "clearing" /\ todo = <<>>
    /\ LET pages == {p \in Range(pageList) : ItemsOf(call.namespace, p) # {}}
           p     == First(pageList, pages)
       IN  IF pages = {} THEN phase' = "stored" /\ todo' = <<>>
           ELSE /\ todo' = EraseItem(p, Min(ItemsOf(call.namespace, p)))
                /\ phase' = "clearing"
    /\ UNCHANGED <<disk, pageList, freeList, call, findPage, reply>>

Return ==
    /\ phase \in {"stored", "error"} /\ todo = <<>>
    /\ reply' = IF phase = "stored" THEN "ok" ELSE "error"
    /\ call' = [op |-> "none"] /\ findPage' = None
    /\ phase' = "ready"
    /\ UNCHANGED <<disk, pageList, freeList, todo>>

-----------------------------------------------------------------------------
(* The power fails, and nvs_flash_init runs when it is back.               *)

Restart ==
    /\ pageList' = <<>> /\ freeList' = <<>> /\ todo' = <<>>
    /\ phase' = "load"
    /\ call' = [op |-> "none"] /\ findPage' = None /\ reply' = "none"

PowerLoss == UNCHANGED disk /\ Restart
TornFlash == todo # <<>> /\ Tear(Head(todo)) /\ Restart

Init ==
    /\ flash = [p \in Pages |-> ErasedPage]
    /\ order = <<>> /\ stored = [k \in Keys |-> None]
    /\ pageList = <<>> /\ freeList = <<>>
    /\ phase = "load" /\ todo = <<>>
    /\ call = [op |-> "none"] /\ findPage = None /\ reply = "none"

Next ==
    \/ LoadPages \/ LoadManager \/ FinishFreeing
    \/ SetItem \/ RequestNewPage \/ WriteAgain \/ EraseOld
    \/ EraseAll \/ EraseNext \/ Return
    \/ DoFlash \/ PowerLoss \/ TornFlash

Spec == Init /\ [][Next]_vars

-----------------------------------------------------------------------------
Ready == phase = "ready" /\ todo = <<>>

Contents == {Blank, Junk, Hidden}
            \cup {Part(k, v, n) : k \in Keys, v \in Values, n \in Entries}

(* Between two calls each page is in one of the two lists, once.           *)
TypeOK ==
    /\ flash \in [Pages -> [state : {"UNINITIALIZED", "ACTIVE", "FULL", "FREEING", "CORRUPT"},
                            table : [Entries -> {"EMPTY", "WRITTEN", "ERASED"}],
                            data  : [Entries -> Contents]]]
    /\ Range(order) = {p \in Pages : flash[p].state \in {"ACTIVE", "FULL", "FREEING"}}
    /\ Ready => /\ Range(pageList) \cup Range(freeList) = Pages
                /\ Len(pageList) + Len(freeList) = PageCount
    /\ stored \in [Keys -> Values \cup {None}]
    /\ findPage \in Pages \cup {None} /\ reply \in {"none", "ok", "error"}

(* The call has taken effect when its item is written.                     *)
AbstractCall ==
    IF call.op = "set" /\ (phase = "stored" \/ (phase = "written" /\ todo = <<>>))
    THEN [call EXCEPT !.op = "done"] ELSE call

Durability == INSTANCE DurableMap WITH map <- stored, call <- AbstractCall

(* Each nvs_set_* is atomic and, once it has returned ESP_OK, durable; one *)
(* that returns an error has changed nothing; and whatever else goes on in *)
(* flash when the power fails, no other key is touched (README.rst: "This  *)
(* should not result in loss of data, expect for the new key-value pair if *)
(* it was being written at the moment of power off").                      *)
ImplementsDurableMap == Durability!MapSpec

(* nvs_flash_init finds a free page after every power loss: it never       *)
(* returns ESP_ERR_NVS_NO_FREE_PAGES, on which system_flash_init would     *)
(* erase the whole partition (app_main.c:28).                              *)
InitSucceeds == phase # "failed"

(* Between two calls every entry marked as written is part of a whole item *)
(* (otherwise moving a page would drop entries: the assertion on           *)
(* usedEntries in requestNewPage).                                         *)
ItemsWhole ==
    Ready => \A p \in Range(pageList) : \A i \in Visited(flash[p]) : IsWhole(flash[p], i)

(* Between two calls no key is in flash twice, so that reading, which      *)
(* takes the first it finds, finds the last value (Storage::debugCheck).   *)
KeysUnique ==
    Ready => \A k \in Keys :
        Cardinality(UNION {{p} \X CopiesOf(k, flash[p]) : p \in Range(pageList)}) <= 1

(* At no time are two pages open for writing, and between two calls no     *)
(* page is still being freed (README.rst, "Pages and entries").            *)
PageStates ==
    /\ \A p, q \in Pages : flash[p].state = "ACTIVE" /\ flash[q].state = "ACTIVE" => p = q
    /\ Ready => \A p \in Pages : flash[p].state # "FREEING"

(* Flash can only be written where it is erased: no entry, and no header,  *)
(* is written over what a power loss has left behind there.                *)
WritesErasedFlash ==
    todo # <<>> =>
        LET o == Head(todo) IN
        /\ o.op = "program" => flash[o.page].data[o.entry] = Blank
        /\ o.op = "header" => flash[o.page] = ErasedPage
=============================================================================
