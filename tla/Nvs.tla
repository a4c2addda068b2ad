-------------------------------- MODULE Nvs --------------------------------
(***************************************************************************)
(* Non-volatile storage (subsys/fs/nvs/nvs.c): a log in flash sectors that *)
(* are used in turn.  In a sector data grows from the start and its        *)
(* allocation entries (ate) from the end; the last cell is for the ate     *)
(* that closes the sector.  A cell has the size of an ate and of a write   *)
(* block.  Power may fail at every write and between the pages of an       *)
(* erase.                                                                  *)
(*                                                                         *)
(* Data is taken never to have the check sum of an ate, and the flash      *)
(* driver never to report an error.                                        *)
(***************************************************************************)
EXTENDS Integers, Sequences, FiniteSets

CONSTANTS
  Ids, Values,
  LenOf,             \* LenOf[v]: the cells the value v takes
  CachePos,          \* CachePos[i]: the place of i in the lookup cache
  sector_count, K,   \* the sectors, and the cells in each
  PageCells,         \* the cells the flash erases at once
  MaxFailures,       \* bound on the losses of power
  TornOps,           \* the writes that a loss of power may leave half done
  ERASED, GARBAGE,   \* an erased cell; one whose write was interrupted
  MISSING, NONE

ASSUME NvsAssumption ==
  /\ sector_count \in Nat /\ sector_count >= 2 /\ K \in Nat /\ K >= 5
  /\ \A v \in Values : LenOf[v] \in 1..(K - 4)
  /\ K % PageCells = 0
  /\ TornOps \subseteq {"data", "ate", "close"}

Sectors == 0..(sector_count - 1)
After(s) == (s + 1) % sector_count
Preceding(s) == (s + sector_count - 1) % sector_count

VARIABLES
  flash,     \* flash[s][o]: the cell at offset o of sector s
  sector, ate_wra, data_wra,   \* where the next ate and data are written
  cache,     \* fs->lookup_cache: an address, or NONE
  pc,        \* where the operation is that holds nvs_lock
  todo,      \* its flash operations that are due next
  gc_addr, gc_count,
  req,       \* the arguments of nvs_write(), NONE if none is under way
  held,      \* history: the value of each identifier by the writes that took effect
  failures   \* the losses of power so far

ramVars == <<sector, ate_wra, data_wra, cache, gc_addr, gc_count>>
vars == <<flash, ramVars, pc, todo, req, held, failures>>

Init ==
  /\ flash = [s \in Sectors |-> [o \in 0..(K - 1) |-> ERASED]]
  /\ sector = 0 /\ ate_wra = 0 /\ data_wra = 0
  /\ cache = [i \in {CachePos[j] : j \in Ids} |-> NONE]
  /\ pc = "off" /\ todo = <<>>
  /\ gc_addr = 0 /\ gc_count = 0
  /\ req = NONE /\ held = [i \in Ids |-> MISSING] /\ failures = 0

(***************************************************************************)
(* Allocation entries and the walk from the newest to the oldest           *)
(***************************************************************************)
Ate(i, off, len) == [id |-> i, offset |-> off, len |-> len]
Special == NONE    \* the identifier 0xFFFF

IsAte(c) == c \notin Values \cup {ERASED, GARBAGE}
nvs_ate_valid(c) == IsAte(c) /\ c.offset < K - 1
CellAt(f, a) == IF a[2] \in 0..(K - 1) THEN f[a[1]][a[2]] ELSE GARBAGE
Marker(c) == nvs_ate_valid(c) /\ c.id = Special /\ c.len = 0

\* nvs_recover_last_ate() for the sector f: the lowest valid ate, found from
\* the end downward and above the data of those found before.
nvs_recover_last_ate(f) ==
  LET scan[k \in 0..(K - 2)] ==
        IF k = 0 THEN [at |-> K - 2, end |-> 0]
        ELSE LET p == scan[k - 1]
                 o == K - 1 - k
             IN  IF o > p.end /\ nvs_ate_valid(f[o])
                 THEN [at |-> o, end |-> f[o].offset + f[o].len] ELSE p
  IN  scan[K - 2].at

\* Where the ates of a closed sector f begin.
LastAte(f) ==
  IF Marker(f[K - 1]) THEN f[K - 1].offset ELSE nvs_recover_last_ate(f)

\* nvs_prev_ate(): the address after a in flash f, back to wra at the end.
nvs_prev_ate(f, wra, a) ==
  LET s == Preceding(a[1]) IN
  IF a[2] + 1 # K - 1 THEN <<a[1], a[2] + 1>>
  ELSE IF f[s][K - 1] = ERASED THEN wra
  ELSE <<s, LastAte(f[s])>>

\* The addresses visited from a until the walk is back at wra; MaxWalk is
\* more than there are.
MaxWalk == sector_count * K
Walk(f, wra, a) ==
  LET step[n \in 0..MaxWalk] ==
        IF n = 0 THEN [path |-> <<a>>, at |-> a, over |-> FALSE]
        ELSE LET p == step[n - 1]
                 b == nvs_prev_ate(f, wra, p.at)
             IN  IF p.over \/ b = wra THEN [p EXCEPT !.over = TRUE]
                 ELSE [path |-> Append(p.path, b), at |-> b, over |-> FALSE]
  IN  step[MaxWalk].path

\* The newest valid ate of i on the walk from a, or NONE.
Newest(f, wra, a, i) ==
  LET path == Walk(f, wra, a)
      hits == {n \in DOMAIN path :
                 LET c == CellAt(f, path[n]) IN nvs_ate_valid(c) /\ c.id = i}
  IN  IF hits = {} THEN NONE ELSE path[CHOOSE n \in hits : \A m \in hits : n <= m]

\* The value of the ate at a.
ValueAt(f, a) ==
  IF a = NONE THEN MISSING
  ELSE LET c == f[a[1]][a[2]] IN IF c.len = 0 THEN MISSING ELSE f[a[1]][c.offset]

\* The lookup in nvs_write() and nvs_read(), from the cache.
Lookup(i) ==
  LET a == cache[CachePos[i]] IN
  IF a = NONE THEN NONE ELSE Newest(flash, <<sector, ate_wra>>, a, i)

(***************************************************************************)
(* Flash operations                                                        *)
(***************************************************************************)
Data(v) == [op |-> "data", cell |-> v]
Entry(e) == [op |-> "ate", cell |-> e]
Erase(s) == [op |-> "erase", sector |-> s, page |-> 0]
GcDone(off) == Entry(Ate(Special, off, 0))

\* nvs_flash_data_wrt(), cell by cell, and nvs_flash_ate_wrt().
EntryOps(i, v, n) == [k \in 1..n |-> Data(v)] \o <<Entry(Ate(i, data_wra, n))>>

\* Faulty variant: the cache is left as it is.
CachedNot(e) == cache

Cached(e) ==
  IF e.id = Special THEN cache ELSE [cache EXCEPT ![CachePos[e.id]] = <<sector, ate_wra>>]

\* nvs_lookup_cache_invalidate()
Invalidated(s) ==
  [p \in DOMAIN cache |-> IF cache[p] # NONE /\ cache[p][1] = s THEN NONE ELSE cache[p]]

\* The sector s with the page that starts at p erased.
PageErased(s, p) ==
  [o \in 0..(K - 1) |-> IF o \in p..(p + PageCells - 1) THEN ERASED ELSE flash[s][o]]

\* The sector bits of the address of an ate: below offset 0 of a sector they
\* are those of the one before; below sector 0 the address wraps and is in no
\* sector, -1.
SectorOf(s, o) == IF o < 0 THEN s - 1 ELSE s
AteSector == SectorOf(sector, ate_wra)

\* ate_wra >= data_wra + n, for addresses that wrap.
HasRoom(n) == AteSector = -1 \/ ate_wra >= data_wra + n

FlashStep ==
  LET t == Head(todo) IN
  /\ todo # <<>>
  /\ \/ /\ t.op = "data"
        /\ flash' = [flash EXCEPT ![sector][data_wra] = t.cell]
        /\ data_wra' = data_wra + 1
        /\ todo' = Tail(todo)
        /\ UNCHANGED <<sector, ate_wra, cache, held>>
     \/ /\ t.op = "ate"
        /\ flash' = [flash EXCEPT ![sector][ate_wra] = t.cell]
        /\ cache' = Cached(t.cell)
        /\ held' = IF pc = "written" /\ AteSector # -1
                   THEN [held EXCEPT ![req.id] = req.val] ELSE held
        /\ ate_wra' = ate_wra - 1
        /\ todo' = Tail(todo)
        /\ UNCHANGED <<sector, data_wra>>
     \/ /\ t.op = "close"      \* nvs_sector_close()
        /\ flash' = [flash EXCEPT ![AteSector][K - 1] = Ate(Special, ate_wra + 1, 0)]
        /\ sector' = After(AteSector) /\ ate_wra' = K - 2 /\ data_wra' = 0
        /\ todo' = Tail(todo)
        /\ UNCHANGED <<cache, held>>
     \/ /\ t.op = "erase"      \* nvs_flash_erase_sector()
        /\ flash' = [flash EXCEPT ![t.sector] = PageErased(t.sector, t.page)]
        /\ cache' = Invalidated(t.sector)
        /\ todo' = IF t.page + PageCells = K THEN Tail(todo)
                   ELSE <<[t EXCEPT !.page = @ + PageCells]>> \o Tail(todo)
        /\ UNCHANGED <<sector, ate_wra, data_wra, held>>
  /\ UNCHANGED <<pc, gc_addr, gc_count, req, failures>>

\* The operation goes on at next, the flash operations ops done.
Proceed(next, ops) == pc' = next /\ todo' = ops
At(p) == pc = p /\ todo = <<>>

(***************************************************************************)
(* nvs_gc(), for the sector after the one that has been started            *)
(***************************************************************************)
GcStart ==
  LET f == flash[After(sector)] IN
  /\ At("gc_start")
  /\ IF f[K - 1] = ERASED THEN Proceed("gc_end", <<>>) /\ UNCHANGED gc_addr
     ELSE Proceed("gc", <<>>) /\ gc_addr' = LastAte(f)
  /\ UNCHANGED <<flash, sector, ate_wra, data_wra, cache, gc_count, req, held, failures>>

\* The walk for the identifier of the ate c at gc_addr ends there, and it is
\* not a deletion.
CopyNeeded(c) ==
  LET wra   == <<sector, ate_wra>>
      start == cache[CachePos[c.id]]
      found == Newest(flash, wra, IF start = NONE THEN wra ELSE start, c.id)
  IN  c.len > 0 /\ found = <<After(sector), gc_addr>>

GcStep ==
  LET c == flash[After(sector)][gc_addr] IN
  /\ At("gc")
  /\ Proceed(IF gc_addr = K - 2 THEN "gc_end" ELSE "gc",
             IF nvs_ate_valid(c) /\ c.id # Special /\ CopyNeeded(c)
             THEN EntryOps(c.id, flash[After(sector)][c.offset], c.len) ELSE <<>>)
  /\ gc_addr' = IF gc_addr = K - 2 THEN 0 ELSE gc_addr + 1
  /\ UNCHANGED <<flash, sector, ate_wra, data_wra, cache, gc_count, req, held, failures>>

\* Faulty variant: the old sector is erased before the copies are marked
\* complete.
GcEndOpsSwapped == <<Erase(After(sector)), GcDone(data_wra)>>

GcEndOps ==
  (IF HasRoom(1) THEN <<GcDone(data_wra)>> ELSE <<>>) \o <<Erase(After(sector))>>

GcEnd ==
  /\ At("gc_end")
  /\ Proceed(IF req = NONE THEN "mounted" ELSE "write", GcEndOps)
  /\ gc_count' = IF req = NONE THEN 0 ELSE gc_count + 1
  /\ UNCHANGED <<flash, sector, ate_wra, data_wra, cache, gc_addr, req, held, failures>>

(***************************************************************************)
(* nvs_write() and nvs_delete()                                            *)
(***************************************************************************)
\* Called with a value that differs from the one stored; else it returns
\* at once.
Write(i, v) ==
  /\ At("ready")
  /\ v # ValueAt(flash, Lookup(i))
  /\ req' = [id |-> i, val |-> v]
  /\ Proceed("write", <<>>)
  /\ UNCHANGED <<flash, ramVars, held, failures>>

RequiredSpace(v) == IF v = MISSING THEN 0 ELSE LenOf[v] + 1

WriteLoop ==
  /\ At("write")
  /\ \/ /\ gc_count = sector_count             \* -ENOSPC
        /\ Proceed("ready", <<>>)
        /\ req' = NONE /\ gc_count' = 0
     \/ /\ gc_count < sector_count
        /\ HasRoom(RequiredSpace(req.val))
        /\ Proceed("written", EntryOps(req.id, req.val, IF req.val = MISSING THEN 0 ELSE LenOf[req.val]))
        /\ UNCHANGED <<req, gc_count>>
     \/ /\ gc_count < sector_count
        /\ ~HasRoom(RequiredSpace(req.val))
        /\ Proceed("gc_start", <<[op |-> "close"]>>)
        /\ UNCHANGED <<req, gc_count>>
  /\ UNCHANGED <<flash, sector, ate_wra, data_wra, cache, gc_addr, held, failures>>

WriteReturn ==
  /\ At("written")
  /\ Proceed("ready", <<>>)
  /\ req' = NONE /\ gc_count' = 0
  /\ UNCHANGED <<flash, sector, ate_wra, data_wra, cache, gc_addr, held, failures>>

(***************************************************************************)
(* nvs_mount() and nvs_startup()                                           *)
(***************************************************************************)
Closed(f, s) == f[s][K - 1] # ERASED

\* The open sector that follows a closed one; if none is closed, the last
\* sector if it has an ate, else the first.
WriteSector(f) ==
  LET ends == {s \in Sectors : Closed(f, s) /\ ~Closed(f, After(s))} IN
  IF ends # {} THEN After(CHOOSE s \in ends : \A t \in ends : s <= t)
  ELSE IF f[sector_count - 1][K - 2] = ERASED THEN 0 ELSE sector_count - 1

\* From the last valid ate of the sector f down to the first erased cell:
\* the write addresses, and whether it is no file system (-ESPIPE).
WriteAddresses(f) ==
  LET top == nvs_recover_last_ate(f)
      scan[k \in 0..K] ==
        IF k = 0 THEN [ate |-> top, data |-> 0, bad |-> FALSE, over |-> FALSE]
        ELSE LET p == scan[k - 1] IN
             IF p.over \/ p.ate < p.data \/ f[p.ate] = ERASED THEN [p EXCEPT !.over = TRUE]
             ELSE LET c == f[p.ate]
                      d == IF nvs_ate_valid(c) THEN c.offset + c.len ELSE p.data
                  IN  [ate |-> p.ate - 1, data |-> d, over |-> FALSE,
                       bad |-> p.bad \/ (nvs_ate_valid(c) /\ p.ate = d /\ c.len > 0)]
  IN  scan[K]

\* Faulty variant: the data of an interrupted write is not skipped.
SkipDataNot(f, w) == w.data

\* The data of a write that did not get its ate is skipped.
SkipData(f, w) ==
  CHOOSE d \in w.data..K :
    /\ \A o \in d..(w.ate - 1) : f[o] = ERASED
    /\ d = w.data \/ (d <= w.ate /\ f[d - 1] # ERASED)

Empty(f) == \A o \in 0..(K - 1) : f[o] = ERASED

\* The ates above w in the sector f hold the mark of a complete collection.
GcFinished(f, w) == \E o \in (w + 1)..(K - 2) : Marker(f[o])

\* It fails if the search for the last ate leaves the flash (q = -1), if an
\* ate meets its data, or if no sector is open.
Mount ==
  LET s == WriteSector(flash)
      f == flash[s]
      w == WriteAddresses(f)
      q == SectorOf(s, w.ate)
      unusable   == w.bad \/ q = -1 \/ \A t \in Sectors : Closed(flash, t)
      collecting == ~unusable /\ ~Empty(flash[After(q)])
  IN
  /\ At("off")
  /\ cache' = [p \in DOMAIN cache |-> NONE]
  /\ ate_wra' = w.ate
  /\ CASE unusable ->
            Proceed("failed", <<>>) /\ sector' = s /\ data_wra' = w.data
       [] collecting /\ GcFinished(f, w.ate) ->
            Proceed("mounted", <<Erase(After(q))>>) /\ sector' = s /\ data_wra' = w.data
       [] collecting /\ ~GcFinished(f, w.ate) ->
            Proceed("restart", <<Erase(q)>>) /\ sector' = q /\ data_wra' = w.data
       [] OTHER ->
            LET d     == SkipData(f, w)
                clear == s = 0 /\ w.ate = K - 2 /\ d # 0
            IN  /\ Proceed("mounted", IF clear THEN <<Erase(s)>> ELSE <<>>)
                /\ sector' = s /\ data_wra' = IF clear THEN 0 ELSE d
  /\ UNCHANGED <<flash, gc_addr, gc_count, req, held, failures>>

\* The write sector has been erased: collect again.
RestartGc ==
  /\ At("restart")
  /\ ate_wra' = K - 2 /\ data_wra' = 0
  /\ cache' = [p \in DOMAIN cache |-> <<sector, K - 2>>]
  /\ Proceed("gc_start", <<>>)
  /\ UNCHANGED <<flash, sector, gc_addr, gc_count, req, held, failures>>

\* nvs_lookup_cache_rebuild(): the newest ate of any identifier at p.
Rebuilt(p) ==
  LET wra  == <<sector, ate_wra>>
      path == Walk(flash, wra, wra)
      hits == {n \in DOMAIN path :
                 LET c == CellAt(flash, path[n])
                 IN  nvs_ate_valid(c) /\ c.id # Special /\ CachePos[c.id] = p}
  IN  IF hits = {} THEN NONE ELSE path[CHOOSE n \in hits : \A m \in hits : n <= m]

Mounted ==
  /\ At("mounted")
  /\ cache' = [p \in DOMAIN cache |-> Rebuilt(p)]
  /\ Proceed("ready", IF ate_wra = K - 2 THEN <<GcDone(data_wra)>> ELSE <<>>)
  /\ UNCHANGED <<flash, sector, ate_wra, data_wra, gc_addr, gc_count, req, held, failures>>

(***************************************************************************)
(* Loss of power: what was being written is done, undone or garbage        *)
(***************************************************************************)
Torn ==
  LET t == Head(todo) IN
  CASE t.op = "data"  -> [flash EXCEPT ![sector][data_wra] = GARBAGE]
    [] t.op = "ate"   -> [flash EXCEPT ![sector][ate_wra] = GARBAGE]
    [] t.op = "close" -> [flash EXCEPT ![sector][K - 1] = GARBAGE]

PowerFails ==
  /\ pc # "off" /\ failures < MaxFailures
  /\ failures' = failures + 1
  /\ \/ UNCHANGED flash
     \/ todo # <<>> /\ Head(todo).op \in TornOps /\ flash' = Torn
  /\ sector' = 0 /\ ate_wra' = 0 /\ data_wra' = 0 /\ gc_addr' = 0 /\ gc_count' = 0
  /\ cache' = [p \in DOMAIN cache |-> NONE]
  /\ Proceed("off", <<>>)
  /\ req' = NONE
  /\ UNCHANGED held

Next ==
  \/ FlashStep
  \/ GcStart \/ GcStep \/ GcEnd
  \/ \E i \in Ids, v \in Values \cup {MISSING} : Write(i, v)
  \/ WriteLoop \/ WriteReturn
  \/ Mount \/ RestartGc \/ Mounted
  \/ PowerFails

Spec == Init /\ [][Next]_vars

(***************************************************************************)
(* Properties                                                              *)
(***************************************************************************)
\* The flash a mount would leave: of a collection that was complete the old
\* sector is erased, of one that was not the copies.
Mountable ==
  LET s == WriteSector(flash)
      o == WriteAddresses(flash[s]).ate
      q == SectorOf(s, o)
      blank(t) == [flash EXCEPT ![t] = [c \in 0..(K - 1) |-> ERASED]]
  IN  IF Empty(flash[After(q)]) THEN flash
      ELSE blank(IF GcFinished(flash[s], o) THEN After(q) ELSE q)

\* What the flash holds, whether or not it is mounted.
Stored ==
  LET f == Mountable
      a == <<WriteSector(flash), WriteAddresses(f[WriteSector(flash)]).ate>>
  IN  [i \in Ids |-> ValueAt(f, Newest(f, a, a, i))]

\* nvs_mount() succeeds whatever the losses of power have left.
MountSucceeds == pc # "failed"

\* Writes go to erased cells of the sector only, and ates and data do not
\* meet.
WritesToErased ==
  todo # <<>> =>
    LET t == Head(todo) IN
    /\ t.op = "data" => flash[sector][data_wra] = ERASED /\ data_wra < ate_wra
    /\ t.op = "ate" => flash[sector][ate_wra] = ERASED /\ data_wra <= ate_wra
    /\ t.op = "close" => AteSector = sector /\ flash[sector][K - 1] = ERASED

\* Between operations the next sector is erased, and the addresses are those
\* that a mount would find.
ReadyState ==
  At("ready") =>
    /\ Empty(flash[After(sector)])
    /\ ~Closed(flash, sector)
    /\ sector = WriteSector(flash) /\ ate_wra = WriteAddresses(flash[sector]).ate
    /\ data_wra >= WriteAddresses(flash[sector]).data

\* A deletion always finds room.
DeleteFits == At("write") /\ req.val = MISSING => gc_count < sector_count

\* A sector has more places than can be used up without an entry that has
\* data: by the mark of its collection, by deletions (with two sectors the
\* entries they delete are in the sector themselves), and by what a loss of
\* power leaves, the data of an entry, n cells at most, and a torn ate.
LargeSectors ==
  \E n \in 1..K :
    /\ \A v \in Values : LenOf[v] <= n
    /\ K - 1 > 1 + (IF sector_count > 2 THEN Cardinality(Ids) ELSE 0) + MaxFailures * (n + 1)

\* If sectors are large enough: wherever power fails, the next mount succeeds
\* and finds the log fit to be written to: the sector after the write sector
\* erased, the addresses at erased cells, room for a deletion (nvs_startup(),
\* nvs_gc(), nvs_write()).  In smaller sectors ate_wra can pass the start of
\* the sector at a mount (nvs.c:814), and this fails.
LogInv == LargeSectors => MountSucceeds /\ WritesToErased /\ ReadyState /\ DeleteFits

\* The storage is a map that survives losses of power: at every moment, during
\* a collection and between a failure and the mount too, the flash holds for
\* each identifier the value whose write took effect last.
Durable == Stored = held

\* Reads are true: between operations a lookup that starts from the cache
\* finds the value that the flash holds.
LookupsTrue == At("ready") => \A i \in Ids : ValueAt(flash, Lookup(i)) = held[i]
=============================================================================
