------------------------- MODULE CalendarViewsProofs -------------------------
(***************************************************************************)
(* What the caches file under a change tag, for any number of pages,       *)
(* months, windows and writes, whatever the backend answers; and from that *)
(* the freshness of pages, as long as no write restores earlier contents   *)
(* (so that a tag names one version) and REPORTs are readable.  The order  *)
(* of the cache's keys plays no part in that: what is evicted is never     *)
(* wrong, only fetched again.  It does in the bound on the cache, which    *)
(* the last part shows: the order lists what is cached, each window once.  *)
(***************************************************************************)
EXTENDS CalendarViews, SequenceTheorems, TLAPS

-----------------------------------------------------------------------------
(* What a change tag is worth: while no write restores earlier contents, a  *)
(* tag names one version, and what was fetched under it is never older.     *)

\* No tag comes back, and no REPORT is malformed.
Exact == ~Reverts /\ ~Garbles

\* A tag names one version, if none comes back.
TagsAreVersions ==
    /\ hist \in Seq(Content)
    /\ Len(hist) >= 1
    /\ ~Reverts => \A i, j \in 1..Len(hist) : hist[i] = hist[j] => i = j

\* What may be filed under a tag: what the collection held at that tag or later,
\* or the empty list that parse_calendar_data() makes of a malformed answer.
Filed(tag, docs) == Held(tag, docs) \/ (Garbles /\ docs = Empty)

LEMMA SinceType ==
    ASSUME TagsAreVersions, NEW v \in Nat
    PROVE  /\ Since(v) \subseteq Content
           /\ v \in 0..Len(hist) => Current \in Since(v)
           /\ Current \in Content
  BY DEF TagsAreVersions, Since, Current

LEMMA SinceChain ==
    ASSUME TagsAreVersions, NEW s \in Nat, NEW tag \in Since(s),
           NEW docs, docs # None, Filed(tag, docs)
    PROVE  Exact => docs \in Since(s)
  BY DEF TagsAreVersions, Since, Held, Filed, Exact

LEMMA SinceGrows ==
    ASSUME TagsAreVersions, NEW c \in Content, hist' = Append(hist, c),
           NEW v \in Nat
    PROVE  Since(v) \subseteq Since(v)'
  BY DEF TagsAreVersions, Since

LEMMA HeldGrows ==
    ASSUME TagsAreVersions, NEW c \in Content, hist' = Append(hist, c)
    PROVE  \A tag, docs : Held(tag, docs) => Held(tag, docs)'
<1> SUFFICES ASSUME NEW tag, NEW docs, Held(tag, docs), docs # None
             PROVE  \E v \in 1..Len(hist') : hist'[v] = tag /\ docs \in Since(v)'
  BY DEF Held
<1>1. PICK v \in 1..Len(hist) : hist[v] = tag /\ docs \in Since(v)
  BY DEF Held
<1>2. v \in 1..Len(hist') /\ hist'[v] = hist[v]
  BY DEF TagsAreVersions
<1>3. docs \in Since(v)'
  BY <1>1, SinceGrows DEF TagsAreVersions
<1> QED
  BY <1>1, <1>2, <1>3

LEMMA ChangesKeepVersions ==
    ASSUME TagsAreVersions, NEW c \in Content, Changes(c)
    PROVE  TagsAreVersions'
  BY DEF TagsAreVersions, Changes

-----------------------------------------------------------------------------
(* The inductive invariant.                                                *)

CacheType(c) == c \in [tag : Documents, docs : [Window -> Documents], order : {c.order}]

CacheOK(c) == CacheType(c) /\ \A w \in Window : Filed(c.tag, c.docs[w])

\* What a page that started at version s may show.
Right(docs, s) == Exact => docs \in Since(s) \cup {None}

\* What holds of a handler at p, with locals l, that started at version s.
HandlerOK(l, p, s) ==
    /\ l \in Locals /\ p \in Label /\ s \in 0..Len(hist)
    /\ l.tag \in Since(s) \cup {None}
    /\ l.tag # None => Filed(l.tag, l.fetched)
    /\ p = "ctag" => l.fetched = None
    /\ Right(l.fetched, s) /\ Right(l.grid, s) /\ Right(l.horizon, s)

IInv ==
    /\ TagsAreVersions
    /\ today \in Month
    /\ CacheOK(cache)
    /\ memo \in Memos /\ Held(memo.tag, memo.events)
    /\ pc \in [Reader -> Label]
    /\ local \in [Reader -> Locals]
    /\ start \in [Reader -> Nat]
    /\ \A r \in Reader : HandlerOK(local[r], pc[r], start[r])

-----------------------------------------------------------------------------
(* The cache.                                                              *)

LEMMA TouchOK ==
    ASSUME NEW c, CacheOK(c), NEW w \in Window
    PROVE  CacheOK(Touch(c, w)) /\ Touch(c, w).tag = c.tag /\ Touch(c, w).docs = c.docs
<1> DEFINE t == Touch(c, w)
<1>1. t.tag = c.tag /\ t.docs = c.docs /\ CacheType(t)
  BY DEF CacheOK, CacheType, Touch
<1> QED
  BY <1>1 DEF CacheOK

LEMMA FileOK ==
    ASSUME NEW c, CacheOK(c), NEW w \in Window, NEW docs \in Content,
           Filed(c.tag, docs)
    PROVE  CacheOK(File(c, w, docs))
<1> DEFINE order == IF c.docs[w] # None THEN c.order ELSE Append(c.order, w)
           held == [c.docs EXCEPT ![w] = docs]
           less == [held EXCEPT ![Head(order)] = None]
           whole == [c EXCEPT !.docs = held, !.order = order]
           cut == [c EXCEPT !.docs = less, !.order = Tail(order)]
<1>1. held \in [Window -> Documents] /\ \A x \in Window : held[x] \in {docs, c.docs[x]}
  BY DEF CacheOK, CacheType, Documents
<1>2. less \in [Window -> Documents] /\ \A x \in Window : less[x] \in {None, held[x]}
  BY <1>1 DEF Documents
<1> HIDE DEF held, less, order
<1>3. CacheOK(whole)
  <2>1. whole.tag = c.tag /\ whole.docs = held /\ CacheType(whole)
    BY <1>1 DEF CacheOK, CacheType
  <2> QED
    BY <1>1, <2>1 DEF CacheOK
<1>4. CacheOK(cut)
  <2>1. cut.tag = c.tag /\ cut.docs = less /\ CacheType(cut)
    BY <1>2 DEF CacheOK, CacheType
  <2> HIDE DEF cut
  <2>2. ASSUME NEW x \in Window PROVE Filed(cut.tag, cut.docs[x])
    <3>1. less[x] \in {None, docs, c.docs[x]}
      BY <1>1, <1>2
    <3> QED
      BY <3>1, <2>1 DEF CacheOK, Filed, Held
  <2> QED
    BY <2>1, <2>2 DEF CacheOK
<1>5. File(c, w, docs) = IF Len(order) <= MaxWindows THEN whole ELSE cut
  BY DEF File, order, held, less
<1> QED
  BY <1>3, <1>4, <1>5

LEMMA EmptyCacheOK ==
    ASSUME NEW tag \in Documents
    PROVE  CacheOK([EmptyCache EXCEPT !.tag = tag])
  BY DEF CacheOK, CacheType, EmptyCache, Documents, Filed, Held

LEMMA PutOK ==
    ASSUME NEW c, CacheOK(c), NEW tag \in Documents, NEW w \in Window,
           NEW docs \in Content, tag # None => Filed(tag, docs)
    PROVE  CacheOK(Put(c, tag, w, docs))
<1>1. CASE tag = None
  BY <1>1 DEF Put
<1>2. CASE tag # None
  <2> DEFINE base == IF tag = c.tag THEN c ELSE [EmptyCache EXCEPT !.tag = tag]
  <2>1. CacheOK(base) /\ base.tag = tag
    BY EmptyCacheOK DEF EmptyCache
  <2> HIDE DEF base
  <2>2. CacheOK(File(base, w, docs))
    BY <2>1, <1>2, FileOK
  <2> QED
    BY <2>2, <1>2 DEF Put, base
<1> QED
  BY <1>1, <1>2

LEMMA LookupOK ==
    ASSUME NEW c, CacheOK(c), NEW tag, NEW w \in Window, Lookup(c, tag, w) # None
    PROVE  /\ tag # None /\ Filed(tag, Lookup(c, tag, w))
           /\ Lookup(c, tag, w) \in Documents
  BY DEF CacheOK, CacheType, Lookup

-----------------------------------------------------------------------------
(* Steps of one page.                                                      *)

\* What a step of reader r must leave true, when it changes neither the
\* collection nor anything of another reader.
LEMMA OneReader ==
    ASSUME IInv, NEW r \in Reader, UNCHANGED <<hist, today>>,
           NEW l, NEW p, NEW s, HandlerOK(l, p, s),
           local' = [local EXCEPT ![r] = l], pc' = [pc EXCEPT ![r] = p],
           start' = [start EXCEPT ![r] = s],
           CacheOK(cache)', memo' \in Memos, Held(memo.tag, memo.events)'
    PROVE  IInv'
<1>1. /\ TagsAreVersions' /\ (today \in Month)' /\ (pc \in [Reader -> Label])'
      /\ (local \in [Reader -> Locals])' /\ (start \in [Reader -> Nat])'
  BY DEF IInv, TagsAreVersions, HandlerOK
<1>2. \A k, q, v : HandlerOK(k, q, v)' <=> HandlerOK(k, q, v)
  BY DEF HandlerOK, Right, Since, Filed, Held
<1>3. ASSUME NEW x \in Reader PROVE HandlerOK(local[x], pc[x], start[x])'
  <2>1. CASE x = r
    BY <2>1, <1>2 DEF IInv
  <2>2. CASE x # r
    BY <2>2, <1>2 DEF IInv
  <2> QED
    BY <2>1, <2>2
<1> QED
  BY <1>1, <1>3 DEF IInv

\* Grid and horizon are windows.
LEMMA Windows ==
    ASSUME IInv, NEW r \in Reader
    PROVE  Grid(r) \in Window /\ Horizon(r) \in Window
  BY DEF IInv, Grid, Horizon, Window, Locals

\* A page leaves the grid behind, whichever way it came by its documents.
LEMMA AfterGridOK ==
    ASSUME IInv, NEW r \in Reader, NEW c, CacheOK(c),
           NEW docs \in Documents, Right(docs, start[r]),
           AfterGrid(r, c, docs), UNCHANGED <<hist, today, start>>
    PROVE  IInv'
<1> DEFINE cached == Lookup(c, local[r].tag, Horizon(r))
           Shown(hz) == [local[r] EXCEPT !.fetched = None, !.grid = docs, !.horizon = hz]
<1>1. /\ local \in [Reader -> Locals] /\ pc \in [Reader -> Label] /\ start \in [Reader -> Nat]
      /\ TagsAreVersions /\ HandlerOK(local[r], pc[r], start[r]) /\ memo \in Memos /\ Held(memo.tag, memo.events)
      /\ hist' = hist
  BY DEF IInv
<1>2. None \in Documents /\ Right(None, start[r])
  BY DEF Documents, Right
<1>3. \A d : CacheOK(d) => (cache' = d => CacheOK(cache)')
  BY <1>1 DEF CacheOK, CacheType, Filed, Held, Since
<1>4. \A tag, d : Held(tag, d)' <=> Held(tag, d)
  BY <1>1 DEF Held, Since
<1>5. ASSUME NEW hz \in Documents, Right(hz, start[r]), NEW p \in {"page", "horizon"},
             local' = [local EXCEPT ![r] = Shown(hz)], pc' = [pc EXCEPT ![r] = p],
             CacheOK(cache)', memo' \in Memos, Held(memo.tag, memo.events)'
      PROVE  IInv'
  <2> DEFINE l == Shown(hz)
  <2>1. /\ l \in Locals /\ l.tag = local[r].tag /\ l.fetched = None
        /\ l.grid = docs /\ l.horizon = hz
    BY <1>1, <1>2 DEF Locals
  <2>2. start' = [start EXCEPT ![r] = start[r]] /\ start[r] \in 0..Len(hist)
    BY <1>1 DEF HandlerOK
  <2>3. HandlerOK(l, p, start[r])
    BY <1>1, <1>2, <1>5, <2>1 DEF HandlerOK, Filed, Held, Label
  <2> HIDE DEF l
  <2>4. local' = [local EXCEPT ![r] = l]
    BY <1>5 DEF l
  <2> QED
    BY <1>5, <2>2, <2>3, <2>4, OneReader
<1>6. CASE /\ ~local[r].current
           /\ pc' = [pc EXCEPT ![r] = "page"] /\ local' = [local EXCEPT ![r] = Shown(None)]
           /\ cache' = c /\ UNCHANGED memo
  BY <1>1, <1>2, <1>3, <1>4, <1>5, <1>6
<1>7. CASE /\ Memoised(r)
           /\ pc' = [pc EXCEPT ![r] = "page"] /\ local' = [local EXCEPT ![r] = Shown(memo.events)]
           /\ cache' = c /\ UNCHANGED memo
  <2>1. memo.events \in Documents /\ Right(memo.events, start[r])
    BY <1>1, <1>7, SinceChain DEF Memoised, Memos, HandlerOK, Filed, Right
  <2> QED
    BY <2>1, <1>1, <1>3, <1>4, <1>5, <1>7
<1>8. CASE /\ cached # None
           /\ pc' = [pc EXCEPT ![r] = "page"] /\ local' = [local EXCEPT ![r] = Shown(cached)]
           /\ cache' = Touch(c, Horizon(r))
           /\ memo' = Memo(local[r].tag, Horizon(r), cached)
  <2>1. Horizon(r) \in Window
    BY Windows
  <2>2. local[r].tag # None /\ Filed(local[r].tag, cached) /\ cached \in Documents
    BY <1>8, <2>1, LookupOK
  <2>3. Right(cached, start[r])
    BY <1>1, <1>8, <2>2, SinceChain DEF HandlerOK, Right
  <2>4. CacheOK(cache)'
    BY <1>3, <1>8, <2>1, TouchOK
  <2>5. memo' \in Memos /\ Held(memo.tag, memo.events)'
    BY <1>1, <1>4, <1>8, <2>1, <2>2 DEF Memo, Memos, Locals, Filed
  <2> QED
    BY <1>5, <1>8, <2>2, <2>3, <2>4, <2>5
<1>9. CASE /\ pc' = [pc EXCEPT ![r] = "horizon"]
           /\ local' = [local EXCEPT ![r] = Shown(local[r].horizon)]
           /\ cache' = c /\ UNCHANGED memo
  <2>1. local[r].horizon \in Documents /\ Right(local[r].horizon, start[r])
    BY <1>1 DEF HandlerOK, Locals
  <2> QED
    BY <2>1, <1>1, <1>3, <1>4, <1>5, <1>9
<1>10. /\ \A hz : [local EXCEPT ![r].fetched = None, ![r].grid = docs, ![r].horizon = hz]
                  = [local EXCEPT ![r] = Shown(hz)]
       /\ [local EXCEPT ![r].fetched = None, ![r].grid = docs]
          = [local EXCEPT ![r] = Shown(local[r].horizon)]
  BY <1>1 DEF Locals
<1> QED
  BY <1>6, <1>7, <1>8, <1>9, <1>10 DEF AfterGrid, Goto

\* The documents a REPORT returned are put in the cache before they are shown.
LEMMA FetchedOK ==
    ASSUME IInv, NEW r \in Reader, NEW w \in Window
    PROVE  CacheOK(Fetched(r, w))
<1>1. CASE local[r].fetched = None
  BY <1>1 DEF Fetched, IInv
<1>2. CASE local[r].fetched # None
  <2>1. /\ local[r].tag \in Documents /\ local[r].fetched \in Content
        /\ local[r].tag # None => Filed(local[r].tag, local[r].fetched)
    BY <1>2 DEF IInv, HandlerOK, Locals, Documents
  <2>2. CacheOK(cache)
    BY DEF IInv
  <2>3. CacheOK(Put(cache, local[r].tag, w, local[r].fetched))
    BY <2>1, <2>2, PutOK
  <2> QED
    BY <1>2, <2>3 DEF Fetched
<1> QED
  BY <1>1, <1>2

\* A step of a handler that leaves the caches alone.
LEMMA LocalStep ==
    ASSUME IInv, NEW r \in Reader, NEW l, NEW p, NEW s, HandlerOK(l, p, s),
           local' = [local EXCEPT ![r] = l], pc' = [pc EXCEPT ![r] = p],
           start' = [start EXCEPT ![r] = s],
           UNCHANGED <<hist, today, cache, memo>>
    PROVE  IInv'
<1>1. CacheOK(cache)' /\ memo' \in Memos /\ Held(memo.tag, memo.events)'
  BY DEF IInv, CacheOK, CacheType, Filed, Held, Since
<1> QED
  BY <1>1, OneReader

LEMMA OpenStep ==
    ASSUME IInv, NEW r \in Reader, NEW m \in Month, Open(r, m)
    PROVE  IInv'
<1> DEFINE l == [NoLocals EXCEPT !.month = m, !.current = (m = today)]
<1>1. HandlerOK(l, "ctag", Len(hist))
  <2>1. l \in Locals /\ l.tag = None /\ l.fetched = None /\ l.grid = None /\ l.horizon = None
    BY DEF Locals, NoLocals, Documents
  <2>2. Len(hist) \in 0..Len(hist)
    BY DEF IInv, TagsAreVersions
  <2> HIDE DEF l
  <2> QED
    BY <2>1, <2>2 DEF HandlerOK, Right, Label
<1> HIDE DEF l
<1>2. local' = [local EXCEPT ![r] = l]
  BY DEF Open, l
<1> QED
  BY <1>1, <1>2, LocalStep DEF Open, Goto

LEMMA CtagStep ==
    ASSUME IInv, NEW r \in Reader, CtagAnswered(r)
    PROVE  IInv'
<1>1. PICK t \in {Current, None} : local' = [local EXCEPT ![r].tag = t]
  BY DEF CtagAnswered, Ctag
<1> DEFINE l == [local[r] EXCEPT !.tag = t]
<1>2. /\ HandlerOK(local[r], pc[r], start[r]) /\ pc[r] = "ctag"
      /\ start[r] \in Nat /\ TagsAreVersions /\ local[r] \in Locals
  BY DEF IInv, CtagAnswered
<1>3. Current \in Since(start[r]) /\ Current \in Content
  BY <1>2, SinceType DEF HandlerOK
<1>4. HandlerOK(l, "tagged", start[r])
  BY <1>1, <1>2, <1>3 DEF HandlerOK, Locals, Documents, Label, Filed, Held, Right
<1>5. local' = [local EXCEPT ![r] = l] /\ start' = [start EXCEPT ![r] = start[r]]
  BY <1>1 DEF IInv, CtagAnswered
<1> HIDE DEF l
<1> QED
  BY <1>4, <1>5, LocalStep DEF CtagAnswered, Goto

LEMMA GridHitStep ==
    ASSUME IInv, NEW r \in Reader, GridHit(r)
    PROVE  IInv'
<1> DEFINE docs == Lookup(cache, local[r].tag, Grid(r))
<1>1. CacheOK(cache) /\ TagsAreVersions /\ HandlerOK(local[r], pc[r], start[r]) /\ start[r] \in Nat
  BY DEF IInv
<1>2. Grid(r) \in Window /\ docs # None
  BY Windows DEF GridHit
<1>3. local[r].tag # None /\ Filed(local[r].tag, docs) /\ docs \in Documents
  BY <1>1, <1>2, LookupOK
<1>4. Right(docs, start[r])
  BY <1>1, <1>2, <1>3, SinceChain DEF HandlerOK, Right
<1>5. CacheOK(Touch(cache, Grid(r)))
  BY <1>1, <1>2, TouchOK
<1> HIDE DEF docs
<1>6. AfterGrid(r, Touch(cache, Grid(r)), docs) /\ UNCHANGED <<hist, today, start>>
  BY DEF GridHit, docs
<1> QED
  BY <1>3, <1>4, <1>5, <1>6, AfterGridOK

LEMMA GridMissStep ==
    ASSUME IInv, NEW r \in Reader, GridMiss(r)
    PROVE  IInv'
<1>1. HandlerOK(local[r], "grid", start[r])
  BY DEF IInv, HandlerOK, Label
<1>2. local' = [local EXCEPT ![r] = local[r]] /\ start' = [start EXCEPT ![r] = start[r]]
  BY DEF IInv, GridMiss
<1> QED
  BY <1>1, <1>2, LocalStep DEF GridMiss, Goto

LEMMA AnsweredStep ==
    ASSUME IInv, NEW r \in Reader, NEW from, NEW to \in Label \ {"ctag"},
           Answered(r, from, to)
    PROVE  IInv'
<1>1. PICK docs \in Report : local' = [local EXCEPT ![r].fetched = docs]
  BY DEF Answered
<1> DEFINE l == [local[r] EXCEPT !.fetched = docs]
<1>2. /\ HandlerOK(local[r], pc[r], start[r])
      /\ start[r] \in Nat /\ TagsAreVersions /\ local[r] \in Locals
  BY DEF IInv
<1>3. Current \in Since(start[r]) /\ Current \in Content
  BY <1>2, SinceType DEF HandlerOK
<1>4. \A tag \in Since(start[r]) : Held(tag, Current)
  BY <1>2 DEF TagsAreVersions, Since, Held, Current
<1>5. HandlerOK(l, to, start[r])
  <2>1. docs \in Documents /\ Right(docs, start[r])
    BY <1>3, ViewsAssumption DEF Report, Documents, Right, Exact
  <2>2. \A tag \in Since(start[r]) : Filed(tag, docs)
    BY <1>4 DEF Report, Filed, Held
  <2>3. l \in Locals /\ l.tag = local[r].tag /\ l.fetched = docs /\ l.grid = local[r].grid /\ l.horizon = local[r].horizon
    BY <1>2, <2>1 DEF Locals
  <2> QED
    BY <1>2, <2>1, <2>2, <2>3 DEF HandlerOK
<1>6. local' = [local EXCEPT ![r] = l] /\ start' = [start EXCEPT ![r] = start[r]]
  BY <1>1 DEF IInv, Answered
<1> HIDE DEF l
<1> QED
  BY <1>5, <1>6, LocalStep DEF Answered, Goto

LEMMA GridStoredStep ==
    ASSUME IInv, NEW r \in Reader, GridStored(r)
    PROVE  IInv'
<1>1. CacheOK(Fetched(r, Grid(r)))
  BY Windows, FetchedOK
<1>2. local[r].fetched \in Documents /\ Right(local[r].fetched, start[r])
  BY DEF IInv, HandlerOK, Locals
<1>3. /\ AfterGrid(r, Fetched(r, Grid(r)), local[r].fetched)
      /\ UNCHANGED <<hist, today, start>>
  BY DEF GridStored
<1> QED
  BY <1>1, <1>2, <1>3, AfterGridOK

LEMMA HorizonStoredStep ==
    ASSUME IInv, NEW r \in Reader, HorizonStored(r)
    PROVE  IInv'
<1> DEFINE l == [local[r] EXCEPT !.fetched = None, !.horizon = local[r].fetched]
<1>1. /\ HandlerOK(local[r], pc[r], start[r]) /\ local[r] \in Locals /\ Horizon(r) \in Window
      /\ memo \in Memos /\ Held(memo.tag, memo.events) /\ hist' = hist
  BY Windows DEF IInv, HorizonStored
<1>2. HandlerOK(l, "page", start[r])
  BY <1>1 DEF HandlerOK, Locals, Documents, Label, Filed, Held, Right
<1>3. CacheOK(Fetched(r, Horizon(r)))
  BY <1>1, FetchedOK
<1>4. CacheOK(cache)'
  BY <1>1, <1>3 DEF HorizonStored, CacheOK, CacheType, Filed, Held, Since
<1>5. memo' \in Memos /\ Held(memo.tag, memo.events)'
  <2>1. memo' \in Memos /\ Held(memo'.tag, memo'.events)
    BY <1>1 DEF HorizonStored, Memo, Memos, HandlerOK, Locals, Filed
  <2> QED
    BY <1>1, <2>1 DEF Held, Since
<1>6. local' = [local EXCEPT ![r] = l] /\ start' = [start EXCEPT ![r] = start[r]]
  BY <1>1 DEF IInv, HorizonStored
<1> HIDE DEF l
<1>7. UNCHANGED <<hist, today>> /\ pc' = [pc EXCEPT ![r] = "page"]
  BY DEF HorizonStored, Goto
<1> QED
  BY <1>2, <1>4, <1>5, <1>6, <1>7, OneReader

LEMMA CloseStep ==
    ASSUME IInv, NEW r \in Reader, Close(r)
    PROVE  IInv'
<1>1. HandlerOK(NoLocals, "idle", 0)
  BY ViewsAssumption DEF IInv, TagsAreVersions, HandlerOK, Locals, NoLocals, Documents, Label, Month, Filed, Held, Right
<1> QED
  BY <1>1, LocalStep DEF Close, Goto

-----------------------------------------------------------------------------
(* Steps of the world around the pages.                                    *)

LEMMA WriteStep ==
    ASSUME IInv, NEW c \in Content, Write(c)
    PROVE  IInv'
<1>1. /\ TagsAreVersions /\ hist' = Append(hist, c)
      /\ UNCHANGED <<today, cache, memo, pc, local, start>>
  BY DEF IInv, Write, Changes
<1>2. TagsAreVersions'
  BY <1>1, ChangesKeepVersions DEF Write
<1>3. \A tag, docs : Held(tag, docs) => Held(tag, docs)'
  BY <1>1, HeldGrows
<1>4. CacheOK(cache)'
  BY <1>1, <1>3 DEF IInv, CacheOK, CacheType, Filed
<1>5. memo' \in Memos /\ Held(memo.tag, memo.events)'
  BY <1>1, <1>3 DEF IInv
<1>6. ASSUME NEW r \in Reader PROVE HandlerOK(local[r], pc[r], start[r])'
  <2>1. HandlerOK(local[r], pc[r], start[r]) /\ start[r] \in Nat
    BY DEF IInv
  <2>2. Since(start[r]) \subseteq Since(start[r])'
    BY <1>1, <2>1, SinceGrows
  <2>3. Len(hist') = Len(hist) + 1 /\ Len(hist) \in Nat
    BY <1>1 DEF TagsAreVersions
  <2> QED
    BY <1>1, <1>3, <2>1, <2>2, <2>3 DEF HandlerOK, Filed, Right
<1> QED
  BY <1>1, <1>2, <1>4, <1>5, <1>6 DEF IInv

LEMMA ColdOK ==
    ASSUME TagsAreVersions
    PROVE  /\ CacheOK(EmptyCache) /\ EmptyMemo \in Memos /\ Held(EmptyMemo.tag, EmptyMemo.events)
           /\ HandlerOK(NoLocals, "idle", 0)
  BY ViewsAssumption, CollectionAssumption DEF TagsAreVersions, CacheOK, CacheType, EmptyCache, EmptyMemo, Memos,
     Documents, Filed, Held, HandlerOK, Right, Locals, NoLocals, Label, Month

LEMMA RestartStep ==
    ASSUME IInv, Restart
    PROVE  IInv'
<1>1. TagsAreVersions' /\ today' \in Month
  BY DEF IInv, Restart, TagsAreVersions
<1>2. /\ CacheOK(EmptyCache)' /\ EmptyMemo \in Memos /\ Held(EmptyMemo.tag, EmptyMemo.events)'
      /\ HandlerOK(NoLocals, "idle", 0)'
  <2>1. TagsAreVersions /\ hist' = hist
    BY DEF IInv, Restart
  <2> QED
    BY <2>1, ColdOK DEF CacheOK, CacheType, Filed, Held, Since, HandlerOK, Right
<1>3. CacheOK(cache)' /\ memo' \in Memos /\ Held(memo.tag, memo.events)'
  BY <1>2 DEF Restart, CacheOK, CacheType
<1>4. /\ pc' \in [Reader -> Label] /\ local' \in [Reader -> Locals] /\ start' \in [Reader -> Nat]
      /\ \A r \in Reader : HandlerOK(local[r], pc[r], start[r])'
  BY <1>2 DEF Restart, HandlerOK
<1> QED
  BY <1>1, <1>3, <1>4 DEF IInv

LEMMA MonthStep ==
    ASSUME IInv, MonthTurns
    PROVE  IInv'
<1>1. today' \in Month
  BY ViewsAssumption DEF IInv, MonthTurns, Month
<1>2. UNCHANGED <<hist, cache, memo, pc, local, start>>
  BY DEF MonthTurns
<1> QED
  BY <1>1, <1>2 DEF IInv, TagsAreVersions, CacheOK, CacheType, Filed, Held, Since, HandlerOK, Right

LEMMA InitOK == Init => IInv
<1> SUFFICES ASSUME Init PROVE IInv
  OBVIOUS
<1>1. TagsAreVersions
  BY DEF Init, CollectionInit, TagsAreVersions
<1>2. today \in Month
  BY ViewsAssumption DEF Init, Month
<1> QED
  BY <1>1, <1>2, ColdOK DEF Init, IInv, HandlerOK

LEMMA Step == IInv /\ [Next]_vars => IInv'
<1> SUFFICES ASSUME IInv, [Next]_vars PROVE IInv'
  OBVIOUS
<1>1. ASSUME NEW c \in Content, Write(c) PROVE IInv'
  BY <1>1, WriteStep
<1>2. CASE MonthTurns
  BY <1>2, MonthStep
<1>3. CASE Restart
  BY <1>3, RestartStep
<1>4. ASSUME NEW r \in Reader, View(r) PROVE IInv'
  <2>1. CASE \E m \in Month : Open(r, m)
    BY <2>1, OpenStep
  <2>2. CASE CtagAnswered(r)
    BY <2>2, CtagStep
  <2>3. CASE GridHit(r)
    BY <2>3, GridHitStep
  <2>4. CASE GridMiss(r)
    BY <2>4, GridMissStep
  <2>5. CASE GridAnswered(r)
    BY <2>5, AnsweredStep DEF GridAnswered, Label
  <2>6. CASE GridStored(r)
    BY <2>6, GridStoredStep
  <2>7. CASE HorizonAnswered(r)
    BY <2>7, AnsweredStep DEF HorizonAnswered, Label
  <2>8. CASE HorizonStored(r)
    BY <2>8, HorizonStoredStep
  <2>9. CASE Close(r)
    BY <2>9, CloseStep
  <2> QED
    BY <1>4, <2>1, <2>2, <2>3, <2>4, <2>5, <2>6, <2>7, <2>8, <2>9 DEF View
<1>5. CASE UNCHANGED vars
  BY <1>5 DEF vars, IInv, TagsAreVersions, CacheOK, CacheType, Filed, Held, Since, HandlerOK, Right
<1> QED
  BY <1>1, <1>2, <1>3, <1>4, <1>5 DEF Next

LEMMA InvariantHolds == Spec => []IInv
  BY InitOK, Step, PTL DEF Spec

\* Every page shows, in each window it could fetch, the collection as it was at
\* some time after the request came in (app/caldav.py CalendarCache,
\* app/viewer.py ExpansionCache), when tags name versions and REPORTs can be read.
THEOREM Fresh == ASSUME ~Reverts, ~Garbles PROVE Spec => []PageIsFresh
<1>1. IInv => PageIsFresh
  BY DEF IInv, HandlerOK, PageIsFresh, Right, Exact
<1> QED
  BY <1>1, InvariantHolds, PTL

\* Whatever the backend answers, a window that is cached under a tag holds what
\* the collection held at that tag or later, unless the answer to its REPORT was
\* malformed: then it is the empty list.
OnlyGarbledMisfiled ==
    \A w \in Window : Held(cache.tag, cache.docs[w]) \/ (Garbles /\ cache.docs[w] = Empty)

\* The one failure that CalendarCache files under a tag is the malformed answer
\* (caldav.py:184): tags that come back, slow pages, failed fetches, evictions and
\* restarts file none.
THEOREM CacheIsTagged == Spec => []OnlyGarbledMisfiled
<1>1. IInv => OnlyGarbledMisfiled
  BY DEF IInv, CacheOK, Filed, OnlyGarbledMisfiled
<1> QED
  BY <1>1, InvariantHolds, PTL

-----------------------------------------------------------------------------
(* The memo.                                                               *)

MemoFull == memo.tag # None => memo.events # None

\* What gets memoised is never a failed fetch.
LEMMA MemoStays == MemoFull /\ [Next]_vars => MemoFull'
<1> SUFFICES ASSUME MemoFull, [Next]_vars PROVE MemoFull'
  OBVIOUS
<1>1. ASSUME NEW tag, NEW w, NEW docs, memo' = Memo(tag, w, docs) PROVE MemoFull'
  BY <1>1 DEF Memo, MemoFull
<1>2. CASE UNCHANGED memo
  BY <1>2 DEF MemoFull
<1>3. CASE Restart
  BY <1>3 DEF Restart, EmptyMemo, MemoFull
<1>4. ASSUME NEW r \in Reader, NEW c, NEW docs, AfterGrid(r, c, docs) PROVE MemoFull'
  BY <1>1, <1>2, <1>4 DEF AfterGrid
<1>5. ASSUME NEW r \in Reader, View(r) PROVE MemoFull'
  <2>1. CASE GridHit(r) \/ GridStored(r)
    BY <1>4, <2>1 DEF GridHit, GridStored
  <2>2. CASE HorizonStored(r)
    BY <1>1, <2>2 DEF HorizonStored
  <2> QED
    BY <1>2, <1>5, <2>1, <2>2 DEF View, Open, CtagAnswered, GridMiss, GridAnswered, HorizonAnswered,
       Answered, Close
<1> QED
  BY <1>2, <1>3, <1>5 DEF Next, Write, MonthTurns, vars

\* The memo holds what the collection held at its tag or later, never what a
\* failed fetch or a malformed answer left, and whether tags come back or not
\* (web._expand_horizon, viewer.ExpansionCache.put).
THEOREM MemoReal == Spec => []MemoIsReal
<1>1. Init => MemoFull
  BY DEF Init, EmptyMemo, MemoFull
<1>2. IInv /\ MemoFull => MemoIsReal
  BY DEF IInv, MemoFull, MemoIsReal
<1> QED
  BY <1>1, MemoStays, <1>2, InvariantHolds, PTL DEF Spec

-----------------------------------------------------------------------------
(* Types, and the keys of the cache.                                       *)

\* The order lists each window that is cached once, and no more than fit.
KeysOK(c) ==
    /\ c.order \in Seq(Window) /\ Len(c.order) <= MaxWindows
    /\ \A i, j \in 1..Len(c.order) : c.order[i] = c.order[j] => i = j
    /\ \A w \in Window : c.docs[w] # None <=> \E i \in 1..Len(c.order) : c.order[i] = w

KeyedCache(c) == c \in Caches /\ KeysOK(c)

LEMMA TouchKeys ==
    ASSUME NEW c, KeyedCache(c), NEW w \in Window, c.docs[w] # None
    PROVE  KeyedCache(Touch(c, w))
<1> DEFINE last == Len(c.order)
           at == CHOOSE i \in 1..last : c.order[i] = w
           order == [i \in 1..last |-> IF i = last THEN w ELSE IF i < at THEN c.order[i] ELSE c.order[i + 1]]
<1>1. last \in Nat /\ last <= MaxWindows /\ c.order \in [1..last -> Window]
  BY LenProperties DEF KeyedCache, KeysOK
<1>2. at \in 1..last /\ c.order[at] = w
  BY DEF KeyedCache, KeysOK
<1>3. \A i, j \in 1..last : c.order[i] = c.order[j] => i = j
  BY DEF KeyedCache, KeysOK
<1>4. Touch(c, w) = [c EXCEPT !.order = order]
  BY DEF Touch
<1> HIDE DEF last, at
<1>5. order \in [1..last -> Window]
  BY <1>1, <1>2
<1>6. \A i, j \in 1..last : order[i] = order[j] => i = j
  BY <1>1, <1>2, <1>3
<1>7. \A x : (\E i \in 1..last : order[i] = x) <=> \E i \in 1..last : c.order[i] = x
  <2> SUFFICES ASSUME NEW x
               PROVE  (\E i \in 1..last : order[i] = x) <=> \E i \in 1..last : c.order[i] = x
    OBVIOUS
  <2>1. ASSUME NEW i \in 1..last, order[i] = x PROVE \E k \in 1..last : c.order[k] = x
    <3>1. CASE i = last
      BY <1>2, <2>1, <3>1
    <3>2. CASE i # last
      <4>1. i + 1 \in 1..last
        BY <1>1, <3>2
      <4> QED
        BY <2>1, <3>2, <4>1
    <3> QED
      BY <3>1, <3>2
  <2>2. ASSUME NEW i \in 1..last, c.order[i] = x PROVE \E k \in 1..last : order[k] = x
    <3>1. CASE i = at
      <4>1. last \in 1..last /\ order[last] = w
        BY <1>1, <1>2
      <4> QED
        BY <1>2, <2>2, <3>1, <4>1
    <3>2. CASE i < at
      <4>1. i # last /\ order[i] = x
        BY <1>1, <1>2, <2>2, <3>2
      <4> QED
        BY <4>1
    <3>3. CASE i > at
      <4>1. i - 1 \in 1..last /\ order[i - 1] = x
        BY <1>1, <1>2, <2>2, <3>3
      <4> QED
        BY <4>1
    <3> QED
      BY <1>2, <3>1, <3>2, <3>3
  <2> QED
    BY <2>1, <2>2
<1> HIDE DEF order
<1>8. order \in Seq(Window) /\ Len(order) = last
  BY <1>1, <1>5, IsASeq, LenProperties
<1>9. Touch(c, w).order = order /\ Touch(c, w).docs = c.docs /\ Touch(c, w) \in Caches
  BY <1>4, <1>8 DEF KeyedCache, Caches
<1>10. KeysOK(Touch(c, w))
  BY <1>1, <1>6, <1>7, <1>8, <1>9 DEF KeyedCache, KeysOK, last
<1> QED
  BY <1>9, <1>10 DEF KeyedCache

LEMMA FileKeys ==
    ASSUME NEW c, KeyedCache(c), NEW w \in Window, NEW docs \in Content
    PROVE  KeyedCache(File(c, w, docs))
<1> USE ViewsAssumption, CollectionAssumption DEF ViewsAssumption, CollectionAssumption
<1> DEFINE order == IF c.docs[w] # None THEN c.order ELSE Append(c.order, w)
           held == [c.docs EXCEPT ![w] = docs]
           less == [held EXCEPT ![Head(order)] = None]
           whole == [c EXCEPT !.docs = held, !.order = order]
           cut == [c EXCEPT !.docs = less, !.order = Tail(order)]
<1>1. /\ c.order \in Seq(Window) /\ Len(c.order) \in Nat /\ Len(c.order) <= MaxWindows
      /\ c.docs \in [Window -> Documents] /\ c \in Caches
      /\ \A i \in 1..Len(c.order) : c.order[i] \in Window
      /\ \A i, j \in 1..Len(c.order) : c.order[i] = c.order[j] => i = j
      /\ \A x \in Window : c.docs[x] # None <=> \E i \in 1..Len(c.order) : c.order[i] = x
  BY LenProperties, ElementOfSeq DEF KeyedCache, KeysOK, Caches
<1>2. held \in [Window -> Documents] /\ \A x \in Window : held[x] # None <=> x = w \/ c.docs[x] # None
  BY <1>1 DEF Documents
<1>3. /\ order \in Seq(Window) /\ Len(order) \in Nat
      /\ \A i \in 1..Len(order) : order[i] \in Window
      /\ \A i, j \in 1..Len(order) : order[i] = order[j] => i = j
      /\ \A x \in Window : held[x] # None <=> \E i \in 1..Len(order) : order[i] = x
      /\ Len(order) <= MaxWindows + 1
      /\ Len(order) > MaxWindows => order[Len(order)] = w
  <2>1. CASE c.docs[w] # None
    BY <1>1, <1>2, <2>1
  <2>2. CASE c.docs[w] = None
    <3>1. /\ order \in Seq(Window) /\ Len(order) = Len(c.order) + 1
          /\ order[Len(order)] = w /\ \A i \in 1..Len(c.order) : order[i] = c.order[i]
      BY <1>1, <2>2, AppendProperties
    <3>2. \A i \in 1..Len(c.order) : c.order[i] # w
      BY <1>1, <2>2
    <3> HIDE DEF order, held
    <3>3. \A i \in 1..Len(order) : i = Len(order) \/ i \in 1..Len(c.order)
      BY <1>1, <3>1
    <3>4. \A i, j \in 1..Len(order) : order[i] = order[j] => i = j
      BY <1>1, <3>1, <3>2, <3>3
    <3>5. ASSUME NEW x \in Window PROVE held[x] # None <=> \E i \in 1..Len(order) : order[i] = x
      <4>1. Len(order) \in 1..Len(order) /\ 1..Len(c.order) \subseteq 1..Len(order)
        BY <1>1, <3>1
      <4>2. held[x] # None <=> x = w \/ \E i \in 1..Len(c.order) : c.order[i] = x
        BY <1>1, <1>2
      <4>3. (\E i \in 1..Len(order) : order[i] = x) <=> x = w \/ \E i \in 1..Len(c.order) : c.order[i] = x
        <5>1. ASSUME NEW i \in 1..Len(order), order[i] = x
              PROVE  x = w \/ \E j \in 1..Len(c.order) : c.order[j] = x
          BY <3>1, <3>3, <5>1
        <5>2. x = w => \E i \in 1..Len(order) : order[i] = x
          BY <3>1, <4>1
        <5>3. ASSUME NEW i \in 1..Len(c.order), c.order[i] = x
              PROVE  \E j \in 1..Len(order) : order[j] = x
          BY <3>1, <4>1, <5>3
        <5> QED
          BY <5>1, <5>2, <5>3
      <4> QED
        BY <4>2, <4>3
    <3>6. \A i \in 1..Len(order) : order[i] \in Window
      BY <1>1, <3>1, <3>3
    <3>7. Len(order) \in Nat /\ Len(order) <= MaxWindows + 1
      BY <1>1, <3>1
    <3> QED
      BY <3>1, <3>4, <3>5, <3>6, <3>7
  <2> QED
    BY <2>1, <2>2
<1>4. File(c, w, docs) = IF Len(order) <= MaxWindows THEN whole ELSE cut
  BY DEF File
<1> HIDE DEF order, held
<1>5. CASE Len(order) <= MaxWindows
  <2>1. whole.order = order /\ whole.docs = held /\ whole \in Caches
    BY <1>1, <1>2, <1>3 DEF Caches
  <2> HIDE DEF whole
  <2>2. KeysOK(whole)
    BY <1>3, <1>5, <2>1 DEF KeysOK
  <2> QED
    BY <1>4, <1>5, <2>1, <2>2 DEF KeyedCache
<1>6. CASE Len(order) > MaxWindows
  <2> DEFINE rest == Tail(order)
  <2>1. Len(order) = MaxWindows + 1 /\ Len(order) >= 2
    BY <1>3, <1>6
  <2>2. /\ rest \in Seq(Window) /\ Len(rest) = Len(order) - 1 /\ Head(order) = order[1]
        /\ \A i \in 1..Len(rest) : rest[i] = order[i + 1]
    BY <1>3, <2>1, HeadTailProperties
  <2> HIDE DEF rest
  <2>3. \A i \in 1..Len(rest) : i + 1 \in 1..Len(order)
    BY <1>3, <2>1, <2>2
  <2>4. \A i, j \in 1..Len(rest) : rest[i] = rest[j] => i = j
    BY <1>3, <2>2, <2>3
  <2>5. less \in [Window -> Documents] /\ \A x \in Window : less[x] # None <=> x # order[1] /\ held[x] # None
    BY <1>2, <2>2 DEF Documents
  <2> HIDE DEF less
  <2>6. ASSUME NEW x \in Window PROVE less[x] # None <=> \E i \in 1..Len(rest) : rest[i] = x
    <3>1. ASSUME less[x] # None PROVE \E i \in 1..Len(rest) : rest[i] = x
      <4>1. PICK k \in 1..Len(order) : order[k] = x /\ k # 1
        BY <1>3, <2>5, <3>1
      <4>2. k - 1 \in 1..Len(rest) /\ (k - 1) + 1 = k
        BY <1>3, <2>2, <4>1
      <4> QED
        BY <2>2, <4>1, <4>2
    <3>2. ASSUME NEW i \in 1..Len(rest), rest[i] = x PROVE less[x] # None
      <4>1. i + 1 \in 1..Len(order) /\ i + 1 # 1 /\ 1 \in 1..Len(order) /\ order[i + 1] = x
        BY <2>1, <2>2, <2>3, <3>2
      <4> QED
        BY <1>3, <2>5, <4>1
    <3> QED
      BY <3>1, <3>2
  <2>7. cut.order = rest /\ cut.docs = less /\ cut \in Caches
    BY <1>1, <2>2, <2>5 DEF Caches, rest
  <2> HIDE DEF cut
  <2>8. Len(rest) <= MaxWindows
    BY <2>1, <2>2
  <2> QED
    BY <1>4, <1>6, <2>1, <2>2, <2>4, <2>6, <2>7, <2>8 DEF KeyedCache, KeysOK
<1> QED
  BY <1>3, <1>5, <1>6

LEMMA EmptyKeys ==
    ASSUME NEW tag \in Documents
    PROVE  KeyedCache([EmptyCache EXCEPT !.tag = tag])
<1> DEFINE c == [EmptyCache EXCEPT !.tag = tag]
           none == <<>>
<1>1. none \in Seq(Window) /\ Len(none) = 0
  BY EmptySeq
<1>2. c.order = none /\ c.tag = tag /\ c.docs = [w \in Window |-> None]
  BY DEF EmptyCache
<1>3. c \in Caches
  <2>1. c = [tag |-> tag, docs |-> [w \in Window |-> None], order |-> none]
    BY DEF EmptyCache
  <2> HIDE DEF c, none
  <2> QED
    BY <1>1, <2>1 DEF Caches, Documents
<1> HIDE DEF c, none
<1>4. KeyedCache(c)
  BY <1>1, <1>2, <1>3, ViewsAssumption DEF ViewsAssumption, KeyedCache, KeysOK
<1> QED
  BY <1>4 DEF c

LEMMA PutKeys ==
    ASSUME NEW c, KeyedCache(c), NEW tag \in Documents, NEW w \in Window, NEW docs \in Content
    PROVE  KeyedCache(Put(c, tag, w, docs))
<1> DEFINE base == IF tag = c.tag THEN c ELSE [EmptyCache EXCEPT !.tag = tag]
<1>1. KeyedCache(base)
  BY EmptyKeys
<1> HIDE DEF base
<1>2. KeyedCache(File(base, w, docs))
  BY <1>1, FileKeys
<1> QED
  BY <1>2 DEF Put, base

Types ==
    /\ CollectionTypeOK
    /\ today \in Month
    /\ KeyedCache(cache)
    /\ memo \in Memos
    /\ pc \in [Reader -> Label]
    /\ local \in [Reader -> Locals]
    /\ start \in [Reader -> Nat]

LEMMA MemoType ==
    ASSUME memo \in Memos, NEW tag \in Documents, NEW w \in Window, NEW docs \in Documents
    PROVE  Memo(tag, w, docs) \in Memos
  BY DEF Memo, Memos

LEMMA AfterGridTypes ==
    ASSUME Types, NEW r \in Reader, NEW c, KeyedCache(c), NEW docs \in Documents,
           AfterGrid(r, c, docs), UNCHANGED <<hist, today, start>>
    PROVE  Types'
<1> DEFINE cached == Lookup(c, local[r].tag, Horizon(r))
<1>1. Horizon(r) \in Window /\ local[r] \in Locals /\ local[r].tag \in Documents
  BY DEF Types, Horizon, Window, Locals
<1>2. cached \in Documents /\ memo.events \in Documents
  BY <1>1 DEF Types, KeyedCache, Caches, Memos, Lookup, Documents
<1>3. cached # None => KeyedCache(Touch(c, Horizon(r))) /\ Memo(local[r].tag, Horizon(r), cached) \in Memos
  BY <1>1, <1>2, TouchKeys, MemoType DEF Lookup, Types
<1>4. KeyedCache(cache') /\ memo' \in Memos
  BY <1>3 DEF AfterGrid, Types
<1>5. \A horizon \in Documents :
          [local EXCEPT ![r].fetched = None, ![r].grid = docs, ![r].horizon = horizon] \in [Reader -> Locals]
  <2> SUFFICES ASSUME NEW horizon \in Documents
               PROVE  [local EXCEPT ![r].fetched = None, ![r].grid = docs, ![r].horizon = horizon] \in [Reader -> Locals]
    OBVIOUS
  <2>1. None \in Documents
    BY DEF Documents
  <2>2. [local[r] EXCEPT !.fetched = None, !.grid = docs, !.horizon = horizon] \in Locals
    BY <1>1, <2>1 DEF Locals
  <2> QED
    BY <2>2 DEF Types
<1>6. [local EXCEPT ![r].fetched = None, ![r].grid = docs] \in [Reader -> Locals]
  <2>1. None \in Documents
    BY DEF Documents
  <2>2. [local[r] EXCEPT !.fetched = None, !.grid = docs] \in Locals
    BY <1>1, <2>1 DEF Locals
  <2> QED
    BY <2>2 DEF Types
<1>7. None \in Documents
  BY DEF Documents
<1>8. local' \in [Reader -> Locals] /\ pc' \in [Reader -> Label]
  <2> DEFINE shown(horizon) == [local EXCEPT ![r].fetched = None, ![r].grid = docs, ![r].horizon = horizon]
             open == [local EXCEPT ![r].fetched = None, ![r].grid = docs]
  <2>1. /\ \/ \E horizon \in {None, memo.events, cached} : local' = shown(horizon)
           \/ local' = open
        /\ pc' \in {[pc EXCEPT ![r] = "page"], [pc EXCEPT ![r] = "horizon"]}
    BY DEF AfterGrid, Goto
  <2>2. \A horizon \in Documents : shown(horizon) \in [Reader -> Locals]
    BY <1>5
  <2>3. open \in [Reader -> Locals]
    BY <1>6
  <2> HIDE DEF shown, open, cached
  <2>4. local' \in [Reader -> Locals]
    BY <1>2, <1>7, <2>1, <2>2, <2>3
  <2> QED
    BY <2>1, <2>4 DEF Types, Label
<1>9. CollectionTypeOK'
  BY DEF Types, CollectionTypeOK
<1> QED
  BY <1>4, <1>8, <1>9 DEF Types, KeyedCache, KeysOK

LEMMA FetchedTypes ==
    ASSUME Types, NEW r \in Reader, NEW w \in Window
    PROVE  KeyedCache(Fetched(r, w))
<1>1. local[r].tag \in Documents /\ local[r].fetched \in Documents /\ KeyedCache(cache)
  BY DEF Types, Locals
<1>2. CASE local[r].fetched # None
  BY <1>1, <1>2, PutKeys DEF Fetched, Documents
<1> QED
  BY <1>1, <1>2 DEF Fetched

LEMMA TypesStep == Types /\ [Next]_vars => Types'
<1> SUFFICES ASSUME Types, [Next]_vars PROVE Types'
  OBVIOUS
<1>1. /\ NoLocals \in Locals /\ EmptyMemo \in Memos /\ KeyedCache(EmptyCache)
  <2>1. EmptyCache = [EmptyCache EXCEPT !.tag = None] /\ None \in Documents
    BY DEF EmptyCache, Documents
  <2>2. KeyedCache(EmptyCache)
    BY <2>1, EmptyKeys
  <2> QED
    BY <2>2, ViewsAssumption DEF ViewsAssumption, NoLocals, Locals, Month, EmptyMemo, Memos, Documents
<1>2. /\ Current \in Content /\ Len(hist) \in Nat
      /\ UNCHANGED hist => CollectionTypeOK'
      /\ UNCHANGED cache => KeyedCache(cache')
  BY DEF Types, CollectionTypeOK, Current
<1>3. ASSUME NEW c \in Content, Write(c) PROVE Types'
  <2>1. CollectionTypeOK'
    BY <1>3, CollectionAssumption DEF CollectionAssumption, Write, Changes, Types, CollectionTypeOK
  <2> QED
    BY <1>2, <1>3, <2>1 DEF Write, Types
<1>4. CASE MonthTurns
  BY <1>2, <1>4, ViewsAssumption DEF ViewsAssumption, MonthTurns, Month, Types
<1>5. CASE Restart
  BY <1>1, <1>2, <1>5 DEF Restart, Types, Label
<1>6. ASSUME NEW r \in Reader, View(r) PROVE Types'
  <2>1. ASSUME NEW m \in Month, Open(r, m) PROVE Types'
    <3>1. [NoLocals EXCEPT !.month = m, !.current = (m = today)] \in Locals
      BY <1>1 DEF Locals
    <3> QED
      BY <1>2, <2>1, <3>1 DEF Open, Goto, Types, Label
  <2>2. CASE CtagAnswered(r)
    <3>1. PICK t \in Ctag : local' = [local EXCEPT ![r].tag = t]
      BY <2>2 DEF CtagAnswered
    <3>2. local' \in [Reader -> Locals]
      BY <1>2, <3>1 DEF Ctag, Documents, Locals, Types
    <3> QED
      BY <1>2, <2>2, <3>2 DEF CtagAnswered, Goto, Types, Label
  <2>3. Grid(r) \in Window /\ Horizon(r) \in Window /\ local[r].fetched \in Documents /\ local[r].tag \in Documents
    BY DEF Types, Grid, Horizon, Window, Locals
  <2>4. CASE GridHit(r)
    <3> DEFINE docs == Lookup(cache, local[r].tag, Grid(r))
    <3>1. docs \in Documents /\ docs # None /\ cache.docs[Grid(r)] # None
      BY <2>3, <2>4 DEF GridHit, Lookup, Types, KeyedCache, Caches
    <3>2. KeyedCache(Touch(cache, Grid(r)))
      BY <2>3, <3>1, TouchKeys DEF Types
    <3>3. AfterGrid(r, Touch(cache, Grid(r)), docs) /\ UNCHANGED <<hist, today, start>>
      BY <2>4 DEF GridHit
    <3> HIDE DEF docs
    <3> QED
      BY <3>1, <3>2, <3>3, AfterGridTypes
  <2>5. CASE GridStored(r)
    BY <2>3, <2>5, FetchedTypes, AfterGridTypes DEF GridStored
  <2>6. CASE HorizonStored(r)
    <3>1. KeyedCache(cache') /\ memo' \in Memos
      BY <2>3, <2>6, FetchedTypes, MemoType DEF HorizonStored, Types
    <3>2. local' \in [Reader -> Locals]
      <4>1. local' = [local EXCEPT ![r].fetched = None, ![r].horizon = local[r].fetched]
        BY <2>6 DEF HorizonStored
      <4>2. None \in Documents /\ local[r] \in Locals
        BY DEF Documents, Types
      <4>3. [local[r] EXCEPT !.fetched = None, !.horizon = local[r].fetched] \in Locals
        BY <2>3, <4>2 DEF Locals
      <4> QED
        BY <4>1, <4>3 DEF Types
    <3> QED
      BY <1>2, <2>6, <3>1, <3>2 DEF HorizonStored, Goto, Types, Label
  <2>7. ASSUME NEW from, NEW to \in Label, Answered(r, from, to) PROVE Types'
    <3>1. PICK docs \in Report : local' = [local EXCEPT ![r].fetched = docs]
      BY <2>7 DEF Answered
    <3>2. docs \in Documents
      BY <1>2, <3>1, ViewsAssumption DEF ViewsAssumption, Report, Documents
    <3>3. local' \in [Reader -> Locals]
      BY <3>1, <3>2 DEF Locals, Types
    <3> QED
      BY <1>2, <2>7, <3>3 DEF Answered, Goto, Types
  <2>8. CASE GridAnswered(r) \/ HorizonAnswered(r)
    BY <2>7, <2>8 DEF GridAnswered, HorizonAnswered, Label
  <2>9. CASE GridMiss(r)
    BY <1>2, <2>9 DEF GridMiss, Goto, Types, Label
  <2>10. CASE Close(r)
    BY <1>1, <1>2, <2>10 DEF Close, Goto, Types, Label
  <2> QED
    BY <1>6, <2>1, <2>2, <2>4, <2>5, <2>6, <2>8, <2>9, <2>10 DEF View
<1>7. CASE UNCHANGED vars
  BY <1>2, <1>7 DEF vars, Types
<1> QED
  BY <1>3, <1>4, <1>5, <1>6, <1>7 DEF Next

\* The caches and the handlers stay well typed, and the cache never holds more
\* windows than max_windows, whatever tags and REPORTs say (CalendarCache.put).
THEOREM TypeCorrect == Spec => []TypeOK
<1>1. Init => Types
  <2> SUFFICES ASSUME Init PROVE Types
    OBVIOUS
  <2>1. CollectionTypeOK
    BY CollectionAssumption DEF CollectionAssumption, Init, CollectionInit, CollectionTypeOK
  <2>2. EmptyCache = [EmptyCache EXCEPT !.tag = None] /\ None \in Documents
    BY DEF EmptyCache, Documents
  <2>3. KeyedCache(EmptyCache)
    BY <2>2, EmptyKeys
  <2>4. NoLocals \in Locals /\ EmptyMemo \in Memos /\ 1 \in Month
    BY ViewsAssumption DEF ViewsAssumption, NoLocals, Locals, Month, EmptyMemo, Memos, Documents
  <2> QED
    BY <2>1, <2>3, <2>4 DEF Init, Types, Label
<1>2. Types => TypeOK
  BY DEF Types, KeyedCache, KeysOK, TypeOK
<1> QED
  BY <1>1, TypesStep, <1>2, PTL DEF Spec
=============================================================================
