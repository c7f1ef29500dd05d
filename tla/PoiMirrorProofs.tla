-------------------------- MODULE PoiMirrorProofs --------------------------
(***************************************************************************)
(* What the scraper keeps true of the mirrored corpus, and the resync of the *)
(* blocked shields, for any number of pairs and events, every page size and  *)
(* any number of faults.                                                     *)
(***************************************************************************)
EXTENDS PoiMirror, SequenceTheorems, WellFoundedInduction, TLAPS

\* The larger of two integers.
LEMMA MaxOfTwo ==
    ASSUME NEW a \in Int, NEW b \in Int
    PROVE  Max({a, b}) = IF a >= b THEN a ELSE b
BY DEF Max

\* The smaller of two integers.
LEMMA MinOfTwo ==
    ASSUME NEW a \in Int, NEW b \in Int
    PROVE  Min({a, b}) = IF a <= b THEN a ELSE b
BY DEF Min

\* A set of naturals has a least element.
LEMMA MinOfMany ==
    ASSUME NEW S \in SUBSET Nat, S # {}
    PROVE  Min(S) \in S
<1>1. \E x \in S : \A y \in S : ~(<<y, x>> \in OpToRel(<, Nat))
  BY NatLessThanWellFounded, WFMin
<1>2. \E x \in S : \A y \in S : ~(y < x)
  BY <1>1 DEF OpToRel
<1>3. \E x \in S : \A y \in S : x <= y
  BY <1>2
<1> QED
  BY <1>3 DEF Min

\* A function on an initial interval is a sequence of its length.
LEMMA FunctionIsSequence ==
    ASSUME NEW S, NEW n \in Nat, NEW f \in [1..n -> S]
    PROVE  f \in Seq(S) /\ Len(f) = n
<1>1. f \in Seq(S)
  BY SeqDef
<1>2. Len(f) \in Nat /\ DOMAIN f = 1..Len(f)
  BY <1>1, LenProperties
<1>3. DOMAIN f = 1..n
  OBVIOUS
<1> QED
  BY <1>1, <1>2, <1>3

-----------------------------------------------------------------------------
(* The corpus of a pair and the copy of it a worker extends.  A worker's      *)
(* cache is the stored corpus, and while a commit is on its way the corpus    *)
(* that commit will leave; pages are contiguous with what is stored.          *)

CacheState == Seq(Content) \cup {NoCache}
PageState == [start : Nat, events : Seq(Content)]
WorkerState ==
    [pc : Place, size : Int, successes : Int, attempts : Int, cache : CacheState, page : PageState]

Extends(p, w) ==
    /\ w.pc \in {"page", "backoff", "validate"} => w.cache \in {NoCache, Corpus(p)}
    /\ w.pc \in {"validate", "commit"} => w.page.start + Len(w.page.events) <= MaxEvents[p]
    /\ w.pc = "commit" => /\ w.page.start <= tip[p] + 1
                          /\ w.cache = apply_events(Corpus(p), w.page)

StoredInv ==
    /\ row \in [Pair -> [Index -> Row]]
    /\ tip \in [Pair -> Int]
    /\ \A p \in Pair : -1 <= tip[p] /\ tip[p] < MaxEvents[p]
    /\ CorpusHasNoGap

ScrapeInv ==
    /\ upstream \in [Pair -> Seq(Content)]
    /\ \A p \in Pair : Len(upstream[p]) <= MaxEvents[p]
    /\ StoredInv
    /\ worker \in [Pair -> WorkerState]
    /\ \A p \in Pair : Extends(p, worker[p])

\* The indexes of a pair's events are indexes of rows.
LEMMA IndexOfEvent ==
    ASSUME NEW p \in Pair
    PROVE  Index \subseteq Nat /\ MaxEvents[p] \in Nat /\ 0..(MaxEvents[p] - 1) \subseteq Index
<1> DEFINE m == Max({MaxEvents[q] : q \in Pair})
<1>1. m \in Nat /\ MaxEvents[p] \in 0..m
  BY EventsAssumption
<1>2. Index = 0..(m - 1)
  BY DEF Index
<1> HIDE DEF m
<1> QED
  BY <1>1, <1>2

\* The corpus of a pair is a sequence that ends at the tip.
LEMMA CorpusIsSequence ==
    ASSUME StoredInv, NEW p \in Pair
    PROVE  Corpus(p) \in Seq(Content) /\ Len(Corpus(p)) = tip[p] + 1
<1>1. tip[p] + 1 \in Nat
  BY DEF StoredInv
<1>2. ASSUME NEW n \in 1..(tip[p] + 1) PROVE row[p][n - 1].content \in Content
  <2>1. n - 1 \in 0..(MaxEvents[p] - 1) /\ ~(n - 1 > tip[p])
    BY <1>2, IndexOfEvent DEF StoredInv
  <2>2. n - 1 \in Index
    BY <2>1, IndexOfEvent
  <2>3. row[p][n - 1] \in Row /\ row[p][n - 1].kind # "none"
    BY <2>1, <2>2 DEF StoredInv, CorpusHasNoGap
  <2> QED
    BY <2>3 DEF Row
<1>3. Corpus(p) \in [1..(tip[p] + 1) -> Content]
  BY <1>2 DEF Corpus
<1> QED
  BY <1>1, <1>3, FunctionIsSequence

\* A contiguous page overwrites or extends a list.
LEMMA Applied ==
    ASSUME NEW c \in Seq(Content), NEW start \in 0..Len(c), NEW events \in Seq(Content)
    PROVE  LET s == apply_events(c, [start |-> start, events |-> events])
           IN  /\ s \in Seq(Content)
               /\ Len(s) = IF Len(c) >= start + Len(events) THEN Len(c) ELSE start + Len(events)
               /\ \A n \in 1..Len(s) : s[n] = IF n > start /\ n <= start + Len(events)
                                              THEN events[n - start] ELSE c[n]
<1> DEFINE last == IF Len(c) >= start + Len(events) THEN Len(c) ELSE start + Len(events)
           at(n) == IF n > start /\ n <= start + Len(events) THEN events[n - start] ELSE c[n]
<1>1. /\ Len(c) \in Nat /\ c \in [1..Len(c) -> Content]
      /\ Len(events) \in Nat /\ events \in [1..Len(events) -> Content]
  BY LenProperties
<1>2. Max({Len(c), start + Len(events)}) = last
  BY <1>1, MaxOfTwo
<1>3. apply_events(c, [start |-> start, events |-> events]) = [n \in 1..last |-> at(n)]
  BY <1>2 DEF apply_events
<1>4. last \in Nat /\ \A n \in 1..last : at(n) \in Content
  BY <1>1
<1> HIDE DEF last, at
<1>5. [n \in 1..last |-> at(n)] \in Seq(Content) /\ Len([n \in 1..last |-> at(n)]) = last
  BY <1>4, FunctionIsSequence
<1> QED
  BY <1>3, <1>5 DEF last, at

\* A contiguous page stored over the rows of one pair.
Stored(r, start, events) ==
    [i \in Index |-> IF i \in start..(start + Len(events) - 1)
                     THEN [kind |-> "event", content |-> events[i - start + 1]]
                     ELSE r[i]]

Contiguous(max, r, t, c, start, events, u) ==
    /\ max \in Nat /\ Index \subseteq Nat /\ 0..(max - 1) \subseteq Index
    /\ r \in [Index -> Row] /\ t \in Int /\ -1 <= t /\ t < max
    /\ \A i \in Index : r[i].kind = "none" <=> i > t
    /\ c \in Seq(Content) /\ c = [n \in 1..(t + 1) |-> r[n - 1].content] /\ Len(c) = t + 1
    /\ start \in 0..(t + 1) /\ events \in Seq(Content) /\ start + Len(events) <= max
    /\ u = Max({t, start + Len(events) - 1})

\* A page stored: the rows have no gap below their tip u, and list c with the page applied.
PageIsStored(max, r, c, start, events, u) ==
    /\ Stored(r, start, events) \in [Index -> Row]
    /\ u \in Int /\ -1 <= u /\ u < max
    /\ \A i \in Index : Stored(r, start, events)[i].kind = "none" <=> i > u
    /\ [n \in 1..(u + 1) |-> Stored(r, start, events)[n - 1].content]
          = apply_events(c, [start |-> start, events |-> events])

\* A page that starts within the rows or right behind them leaves no gap, and the list of the
\* contents is the earlier list with the page applied.
LEMMA PageStored ==
    ASSUME NEW max, NEW r, NEW t, NEW c, NEW start, NEW events, NEW u,
           Contiguous(max, r, t, c, start, events, u)
    PROVE  PageIsStored(max, r, c, start, events, u)
<1> USE DEF Contiguous, PageIsStored
<1>1. PICK len \in Nat : len = Len(events)
  BY LenProperties
<1>2. \A j \in 1..len : events[j] \in Content
  BY <1>1, ElementOfSeq
<1>3. u = IF t >= start + len - 1 THEN t ELSE start + len - 1
  BY <1>1, MaxOfTwo
<1>4. u \in Int /\ -1 <= u /\ u < max
  BY <1>1, <1>3
<1>5. ASSUME NEW i \in Index
      PROVE  /\ Stored(r, start, events)[i]
                    = IF i \in start..(start + len - 1)
                      THEN [kind |-> "event", content |-> events[i - start + 1]] ELSE r[i]
             /\ Stored(r, start, events)[i] \in Row
             /\ Stored(r, start, events)[i].kind = "none" <=> i > u
  <2>1. Stored(r, start, events)[i] = IF i \in start..(start + len - 1)
                                      THEN [kind |-> "event", content |-> events[i - start + 1]]
                                      ELSE r[i]
    BY <1>1 DEF Stored
  <2>2. i \in Nat
    OBVIOUS
  <2>3. CASE i \in start..(start + len - 1)
    <3>1. i - start + 1 \in 1..len /\ ~(i > u)
      BY <1>3, <2>2, <2>3
    <3> QED
      BY <1>2, <2>1, <2>3, <3>1 DEF Row
  <2>4. CASE i \notin start..(start + len - 1)
    <3>1. i > t <=> i > u
      BY <1>3, <2>2, <2>4
    <3> QED
      BY <2>1, <2>4, <3>1
  <2> QED
    BY <2>1, <2>3, <2>4
<1>6. Stored(r, start, events) \in [Index -> Row]
  BY <1>5 DEF Stored
<1>7. PICK s \in Seq(Content) :
         /\ s = apply_events(c, [start |-> start, events |-> events])
         /\ Len(s) = u + 1
         /\ \A n \in 1..(u + 1) : s[n] = IF n > start /\ n <= start + len
                                         THEN events[n - start] ELSE c[n]
  <2>1. start \in 0..Len(c)
    OBVIOUS
  <2> DEFINE s == apply_events(c, [start |-> start, events |-> events])
  <2>2. /\ s \in Seq(Content)
        /\ Len(s) = IF Len(c) >= start + Len(events) THEN Len(c) ELSE start + Len(events)
        /\ \A n \in 1..Len(s) : s[n] = IF n > start /\ n <= start + Len(events)
                                       THEN events[n - start] ELSE c[n]
    BY Zenon, <2>1, Applied
  <2> HIDE DEF s
  <2>3. Len(s) = u + 1
    BY <1>1, <1>3, <2>2
  <2> QED
    BY Zenon, <1>1, <2>2, <2>3 DEF s
<1>8. ASSUME NEW n \in 1..(u + 1) PROVE Stored(r, start, events)[n - 1].content = s[n]
  <2>1. n \in Nat /\ n - 1 \in 0..(max - 1)
    BY <1>4
  <2>2. n - 1 \in Index
    BY <2>1
  <2>3. CASE n > start /\ n <= start + len
    <3>1. n - 1 \in start..(start + len - 1) /\ n - 1 - start + 1 = n - start
      BY <1>1, <2>1, <2>3
    <3>2. Stored(r, start, events)[n - 1]
             = [kind |-> "event", content |-> events[n - 1 - start + 1]]
      BY Zenon, <1>5, <2>2, <3>1
    <3>3. s[n] = events[n - start]
      BY Zenon, <1>7, <2>3
    <3> QED
      BY <3>1, <3>2, <3>3
  <2>4. CASE ~(n > start /\ n <= start + len)
    <3>1. n - 1 \notin start..(start + len - 1) /\ n \in 1..(t + 1)
      BY <1>1, <1>3, <1>4, <2>1, <2>4
    <3>2. Stored(r, start, events)[n - 1] = r[n - 1]
      BY <1>5, <2>2, <3>1
    <3>3. c[n] = r[n - 1].content
      BY <3>1
    <3> QED
      BY <1>7, <2>4, <3>2, <3>3
  <2> QED
    BY <2>3, <2>4
<1>9. s \in [1..(u + 1) -> Content]
  BY <1>7, LenProperties
<1> QED
  BY <1>4, <1>5, <1>6, <1>7, <1>8, <1>9

\* What a commit leaves: the corpora of the pairs whose pages land are the caches of
\* their workers, and no others change.
LEMMA IngestStored ==
    ASSUME ScrapeInv, NEW ps \in SUBSET Pair, Ingest(ps), \A p \in ps : worker[p].pc = "commit"
    PROVE  /\ StoredInv'
           /\ \A p \in ps : Corpus(p)' = worker[p].cache
           /\ \A p \in Pair \ ps : row'[p] = row[p] /\ tip'[p] = tip[p] /\ Corpus(p)' = Corpus(p)
<1>1. ASSUME NEW p \in ps
      PROVE  /\ row'[p] \in [Index -> Row]
             /\ tip'[p] \in Int /\ -1 <= tip'[p] /\ tip'[p] < MaxEvents[p]
             /\ \A i \in Index : row'[p][i].kind = "none" <=> i > tip'[p]
             /\ Corpus(p)' = worker[p].cache
  <2>1. p \in Pair /\ worker[p] \in WorkerState /\ Extends(p, worker[p]) /\ worker[p].pc = "commit"
    BY <1>1 DEF ScrapeInv
  <2>2. PICK start \in Nat, events \in Seq(Content) :
           worker[p].page = [start |-> start, events |-> events]
    BY <2>1 DEF WorkerState, PageState
  <2>3. /\ start <= tip[p] + 1 /\ start + Len(events) <= MaxEvents[p]
        /\ worker[p].cache = apply_events(Corpus(p), [start |-> start, events |-> events])
    BY <2>1, <2>2 DEF Extends
  <2>4. /\ row[p] \in [Index -> Row]
        /\ tip[p] \in Int /\ -1 <= tip[p] /\ tip[p] < MaxEvents[p]
        /\ \A i \in Index : row[p][i].kind = "none" <=> i > tip[p]
    BY <2>1 DEF ScrapeInv, StoredInv, CorpusHasNoGap
  <2>5. /\ Corpus(p) \in Seq(Content) /\ Len(Corpus(p)) = tip[p] + 1
        /\ Corpus(p) = [n \in 1..(tip[p] + 1) |-> row[p][n - 1].content]
    BY <2>1, CorpusIsSequence DEF ScrapeInv, Corpus
  <2>6. row'[p] = Stored(row[p], start, events)
    BY <1>1, <2>1, <2>2 DEF Ingest, Stored
  <2>7. tip'[p] = Max({tip[p], start + Len(events) - 1})
    BY <1>1, <2>1, <2>2 DEF Ingest, advance_chain_tip
  <2>8. start \in 0..(tip[p] + 1)
    BY <2>3, <2>4
  <2>9. Corpus(p)' = [n \in 1..(tip'[p] + 1) |-> row'[p][n - 1].content]
    BY DEF Corpus
  <2>10. MaxEvents[p] \in Nat /\ Index \subseteq Nat /\ 0..(MaxEvents[p] - 1) \subseteq Index
    BY <2>1, IndexOfEvent
  <2>11. /\ Stored(row[p], start, events) \in [Index -> Row]
         /\ tip'[p] \in Int /\ -1 <= tip'[p] /\ tip'[p] < MaxEvents[p]
         /\ \A i \in Index : Stored(row[p], start, events)[i].kind = "none" <=> i > tip'[p]
         /\ [n \in 1..(tip'[p] + 1) |-> Stored(row[p], start, events)[n - 1].content]
               = apply_events(Corpus(p), [start |-> start, events |-> events])
    <3>1. Contiguous(MaxEvents[p], row[p], tip[p], Corpus(p), start, events, tip'[p])
      BY Zenon, <2>3, <2>4, <2>5, <2>7, <2>8, <2>10 DEF Contiguous
    <3> QED
      <4>1. PageIsStored(MaxEvents[p], row[p], Corpus(p), start, events, tip'[p])
        BY Zenon, <3>1, PageStored
      <4> QED
        BY Zenon, <4>1 DEF PageIsStored
  <2> QED
    BY Zenon, <2>3, <2>6, <2>9, <2>11
<1>2. ASSUME NEW p \in Pair \ ps
      PROVE  row'[p] = row[p] /\ tip'[p] = tip[p] /\ Corpus(p)' = Corpus(p)
  <2>1. row'[p] = row[p] /\ tip'[p] = tip[p]
    BY <1>2 DEF Ingest
  <2> QED
    BY <2>1 DEF Corpus
<1>3. ASSUME NEW p \in Pair
      PROVE  /\ row'[p] \in [Index -> Row]
             /\ tip'[p] \in Int /\ -1 <= tip'[p] /\ tip'[p] < MaxEvents[p]
             /\ \A i \in Index : row'[p][i].kind = "none" <=> i > tip'[p]
  <2>1. CASE p \in ps
    BY Zenon, <2>1, <1>1
  <2>2. CASE p \notin ps
    BY <2>2, <1>2 DEF ScrapeInv, StoredInv, CorpusHasNoGap
  <2> QED
    BY <2>1, <2>2
<1>4. row' = [p \in Pair |-> row'[p]] /\ tip' = [p \in Pair |-> tip'[p]]
  BY DEF Ingest
<1>5. row' \in [Pair -> [Index -> Row]] /\ tip' \in [Pair -> Int]
  BY Zenon, <1>3, <1>4
<1>6. StoredInv'
  BY Zenon, <1>3, <1>5 DEF StoredInv, CorpusHasNoGap
<1> QED
  BY Zenon, <1>1, <1>2, <1>6

-----------------------------------------------------------------------------
(* The steps. *)

\* The bounds of the page size adapter are numbers.
LEMMA SizesAreNumbers == max_size \in Int /\ min_size \in Int
<1>1. \A a, b \in Int : Max({a, b}) \in Int /\ Min({a, b}) \in Int
  BY MaxOfTwo, MinOfTwo
<1>2. /\ page_size_max \in Int /\ DEFAULT_MIN_PAGE_SIZE \in Int
      /\ UPSTREAM_MAX_PAGE_SIZE \in Int /\ 1 \in Int
  BY SizeAssumption
<1>3. max_size \in Int
  BY Zenon, <1>1, <1>2 DEF max_size, Clamp
<1> QED
  BY Zenon, <1>1, <1>2, <1>3 DEF min_size, Clamp

\* Retries, finished pages and backoffs leave the cache and the page of a worker alone, and
\* lead to no commit.
LEMMA WorkerSteps ==
    ASSUME NEW w \in WorkerState
    PROVE  \A v \in {Retry(w), PageDone(w), BackedOff(w)} :
              /\ v \in WorkerState /\ v.cache = w.cache /\ v.page = w.page
              /\ v.pc \in {"page", "backoff", "exhausted", "shutdown"}
<1> DEFINE Kept(v) == v \in WorkerState /\ v.cache = w.cache /\ v.page = w.page
<1>1. \A a, b \in Int : Max({a, b}) \in Int /\ Min({a, b}) \in Int
  BY MaxOfTwo, MinOfTwo
<1>2. /\ w.size \in Int /\ w.successes \in Int /\ w.attempts \in Int
      /\ w.size \div 2 \in Int /\ w.size * 2 \in Int
      /\ w.attempts + 1 \in Int /\ w.successes + 1 \in Int /\ 0 \in Int /\ 2 \in Int
  BY DEF WorkerState
<1>3. /\ on_failure(w.size) \in Int /\ Min({w.size * 2, max_size}) \in Int
      /\ Min({w.successes + 1, GROW_AFTER_SUCCESSES}) \in Int
  BY Zenon, <1>1, <1>2, SizesAreNumbers DEF on_failure, GROW_AFTER_SUCCESSES
<1>4. {"page", "backoff", "exhausted", "shutdown"} \subseteq Place
  BY DEF Place
<1>5. Kept(Retry(w)) /\ Retry(w).pc \in {"page", "backoff", "exhausted"}
  <2>1. CASE w.attempts + 1 < retry_budget
    <3>1. Retry(w) = [w EXCEPT !.pc = "backoff", !.attempts = w.attempts + 1]
      BY Zenon, <2>1 DEF Retry
    <3>2. Retry(w).pc = "backoff"
      BY Zenon, <3>1 DEF WorkerState
    <3> QED
      BY Zenon, <1>2, <1>4, <3>1, <3>2 DEF WorkerState
  <2>2. CASE ~(w.attempts + 1 < retry_budget) /\ on_failure(w.size) = w.size
    <3>1. Retry(w) = [w EXCEPT !.pc = "exhausted", !.successes = 0]
      BY Zenon, <2>2 DEF Retry
    <3>2. Retry(w).pc = "exhausted"
      BY Zenon, <3>1 DEF WorkerState
    <3> QED
      BY Zenon, <1>2, <1>4, <3>1, <3>2 DEF WorkerState
  <2>3. CASE ~(w.attempts + 1 < retry_budget) /\ on_failure(w.size) # w.size
    <3>1. Retry(w) = [w EXCEPT !.pc = "page", !.attempts = 0, !.successes = 0,
                               !.size = on_failure(w.size)]
      BY Zenon, <2>3 DEF Retry
    <3>2. Retry(w).pc = "page"
      BY Zenon, <3>1 DEF WorkerState
    <3> QED
      BY Zenon, <1>2, <1>3, <1>4, <3>1, <3>2 DEF WorkerState
  <2> QED
    BY Zenon, <2>1, <2>2, <2>3
<1>6. Kept(on_success(w))
  <2>1. CASE w.successes + 1 < GROW_AFTER_SUCCESSES \/ w.size = max_size
    <3>1. on_success(w) = [w EXCEPT !.successes = Min({w.successes + 1, GROW_AFTER_SUCCESSES})]
      BY Zenon, <2>1 DEF on_success
    <3> QED
      BY Zenon, <1>2, <1>3, <1>4, <3>1 DEF WorkerState
  <2>2. CASE ~(w.successes + 1 < GROW_AFTER_SUCCESSES \/ w.size = max_size)
    <3>1. on_success(w) = [w EXCEPT !.size = Min({w.size * 2, max_size}), !.successes = 0]
      BY Zenon, <2>2 DEF on_success
    <3> QED
      BY Zenon, <1>2, <1>3, <1>4, <3>1 DEF WorkerState
  <2> QED
    BY Zenon, <2>1, <2>2
<1>7. Kept(PageDone(w)) /\ PageDone(w).pc \in {"page", "shutdown"}
  <2>1. PICK pc \in {"page", "shutdown"} : PageDone(w) = [on_success(w) EXCEPT !.pc = pc, !.attempts = 0]
    BY Zenon DEF PageDone
  <2>2. PageDone(w).pc = pc
    BY Zenon, <1>6, <2>1 DEF WorkerState
  <2> QED
    BY Zenon, <1>2, <1>4, <1>6, <2>1, <2>2 DEF WorkerState
<1>8. Kept(BackedOff(w)) /\ BackedOff(w).pc \in {"page", "shutdown"}
  <2>1. PICK pc \in {"page", "shutdown"} : BackedOff(w) = [w EXCEPT !.pc = pc]
    BY Zenon DEF BackedOff
  <2>2. BackedOff(w).pc = pc
    BY Zenon, <2>1 DEF WorkerState
  <2> QED
    BY Zenon, <1>2, <1>4, <2>1, <2>2 DEF WorkerState
<1> QED
  BY Zenon, <1>5, <1>7, <1>8

\* A step of one worker that stores nothing.
LEMMA WorkerMoves ==
    ASSUME ScrapeInv, NEW p \in Pair, NEW w \in WorkerState, Extends(p, w),
           worker' = [worker EXCEPT ![p] = w], UNCHANGED <<upstream, row, tip>>
    PROVE  ScrapeInv'
<1>1. \A q \in Pair : Extends(q, worker[q])' <=> (Extends(q, worker'[q]))
  BY DEF Extends, Corpus
<1>2. worker' \in [Pair -> WorkerState] /\ \A q \in Pair : Extends(q, worker'[q])
  BY DEF ScrapeInv
<1>3. StoredInv'
  BY DEF ScrapeInv, StoredInv, CorpusHasNoGap
<1> QED
  BY <1>1, <1>2, <1>3 DEF ScrapeInv

\* A step after which no worker has fetched anything.
LEMMA WorkersReset ==
    ASSUME ScrapeInv, StoredInv', UNCHANGED upstream,
           worker' \in [Pair -> {NoWorker, [NoWorker EXCEPT !.pc = "page"]}]
    PROVE  ScrapeInv'
<1>1. ASSUME NEW w \in {NoWorker, [NoWorker EXCEPT !.pc = "page"]}
      PROVE  w \in WorkerState /\ w.cache = NoCache /\ w.pc \in {"none", "page"}
  <2>1. /\ {"none", "page"} \subseteq Place /\ max_size \in Int /\ 0 \in Int /\ NoCache \in CacheState
        /\ NoPage \in PageState
    BY SizesAreNumbers DEF Place, CacheState, PageState, NoPage
  <2>2. /\ NoWorker \in WorkerState /\ NoWorker.cache = NoCache /\ NoWorker.pc = "none"
    BY Zenon, <2>1 DEF NoWorker, WorkerState
  <2>3. LET v == [NoWorker EXCEPT !.pc = "page"]
        IN  v \in WorkerState /\ v.cache = NoCache /\ v.pc = "page"
    BY Zenon, <2>1, <2>2 DEF WorkerState
  <2> QED
    BY Zenon, <2>2, <2>3
<1>2. worker' \in [Pair -> WorkerState]
  BY <1>1
<1>3. \A p \in Pair : Extends(p, worker[p])'
  BY <1>1 DEF Extends
<1> QED
  BY <1>2, <1>3 DEF ScrapeInv

\* A worker whose page lands or is lost.
LEMMA CommitMoves ==
    ASSUME ScrapeInv, NEW p \in Pair, worker[p].pc = "commit", NEW ps \in SUBSET {p}, Ingest(ps),
           UNCHANGED upstream, NEW w \in WorkerState, worker' = [worker EXCEPT ![p] = w],
           w.pc \in {"page", "shutdown", "failed"}, w.pc = "page" => w.cache = Corpus(p)'
    PROVE  ScrapeInv'
<1>1. ps \in SUBSET Pair /\ \A q \in ps : worker[q].pc = "commit"
  OBVIOUS
<1>2. StoredInv' /\ \A q \in Pair \ ps : tip'[q] = tip[q] /\ Corpus(q)' = Corpus(q)
  BY Zenon, <1>1, IngestStored
<1>3. worker' \in [Pair -> WorkerState]
  BY Zenon DEF ScrapeInv
<1>4. ASSUME NEW q \in Pair PROVE Extends(q, worker[q])'
  <2>1. CASE q = p
    <3>1. worker'[q] = w
      BY Zenon, <2>1 DEF ScrapeInv
    <3> QED
      BY Zenon, <2>1, <3>1 DEF Extends
  <2>2. CASE q # p
    <3>1. worker'[q] = worker[q] /\ tip'[q] = tip[q] /\ Corpus(q)' = Corpus(q)
      BY Zenon, <1>2, <2>2 DEF ScrapeInv
    <3>2. Extends(q, worker[q])
      BY Zenon DEF ScrapeInv
    <3> QED
      BY Zenon, <3>1, <3>2 DEF Extends
  <2> QED
    BY Zenon, <2>1, <2>2
<1> QED
  BY Zenon, <1>2, <1>3, <1>4 DEF ScrapeInv

\* sync_next_page starts at an index of the list.
LEMMA StartsInside ==
    ASSUME ScrapeInv, NEW p \in Pair
    PROVE  next_start_index(p) \in Nat
<1>1. first_incomplete(p) \in SUBSET Nat
  BY IndexOfEvent DEF first_incomplete
<1>2. tip[p] + 1 \in Nat
  BY DEF ScrapeInv, StoredInv
<1>3. CASE first_incomplete(p) = {}
  BY Zenon, <1>2, <1>3 DEF next_start_index
<1>4. CASE first_incomplete(p) # {}
  <2>1. Min(first_incomplete(p)) \in first_incomplete(p)
    BY Zenon, <1>1, <1>4, MinOfMany
  <2> QED
    BY Zenon, <1>1, <1>4, <2>1 DEF next_start_index
<1> QED
  BY <1>3, <1>4

\* A fetched page lies within the list the upstream serves.
LEMMA FetchInv ==
    ASSUME ScrapeInv, NEW p \in Pair, NEW n \in 1..max_size, FetchPage(p, n)
    PROVE  ScrapeInv'
<1> DEFINE start == next_start_index(p)
           events == SubSeq(upstream[p], start + 1, start + n)
           w == [worker[p] EXCEPT !.pc = "validate", !.page = [start |-> start, events |-> events]]
<1>1. /\ worker \in [Pair -> WorkerState] /\ worker[p] \in WorkerState /\ Extends(p, worker[p])
      /\ upstream[p] \in Seq(Content) /\ Len(upstream[p]) \in Nat /\ MaxEvents[p] \in Nat
      /\ Len(upstream[p]) <= MaxEvents[p]
  BY IndexOfEvent, LenProperties DEF ScrapeInv
<1>2. worker[p].size \in Int /\ start \in Nat
  BY <1>1, StartsInside DEF WorkerState
<1>3. worker[p].pc = "page" /\ n \in 1..Min({worker[p].size, Len(upstream[p]) - start})
  BY Zenon DEF FetchPage, MayRequest
<1>4. worker' = [worker EXCEPT ![p] = w]
  BY Zenon, <1>1 DEF FetchPage
<1>5. UNCHANGED <<upstream, row, tip>>
  BY DEF FetchPage, corpusVars
<1> HIDE DEF start
<1>6. n \in Nat /\ n >= 1 /\ start + n <= Len(upstream[p])
  <2>1. Len(upstream[p]) - start \in Int
    BY <1>1, <1>2
  <2>2. Min({worker[p].size, Len(upstream[p]) - start})
           = IF worker[p].size <= Len(upstream[p]) - start THEN worker[p].size
             ELSE Len(upstream[p]) - start
    BY Zenon, <1>2, <2>1, MinOfTwo
  <2> QED
    BY <1>1, <1>2, <1>3, <2>1, <2>2
<1>7. events \in Seq(Content) /\ Len(events) = n
  <2>1. start + 1 \in 1..(Len(upstream[p]) + 1) /\ start + n \in 0..Len(upstream[p])
    BY <1>1, <1>2, <1>6
  <2> QED
    BY <1>1, <1>2, <1>6, <2>1, SubSeqProperties
<1> HIDE DEF events
<1>8. w \in WorkerState /\ w.pc = "validate" /\ w.cache = worker[p].cache
  <2>1. "validate" \in Place /\ [start |-> start, events |-> events] \in PageState
    BY <1>2, <1>7 DEF Place, PageState
  <2> QED
    BY Zenon, <1>1, <2>1 DEF WorkerState
<1>9. w.page.start = start /\ w.page.events = events
  BY Zenon, <1>1 DEF WorkerState
<1> HIDE DEF w
<1>10. w.page.start + Len(w.page.events) <= MaxEvents[p]
  BY <1>1, <1>2, <1>6, <1>7, <1>9
<1>11. Extends(p, w)
  BY Zenon, <1>1, <1>3, <1>8, <1>10 DEF Extends
<1> QED
  BY Zenon, <1>4, <1>5, <1>8, <1>11, WorkerMoves

\* The cache a page is applied to.
CacheOf(p) == IF worker[p].cache = NoCache THEN load_poi_cache(p) ELSE worker[p].cache

\* It is the stored corpus, whether the worker has loaded it yet or not.
LEMMA CacheIsCorpus ==
    ASSUME ScrapeInv, NEW p \in Pair, worker[p].pc = "validate"
    PROVE  CacheOf(p) = Corpus(p)
<1>1. worker[p].cache \in {NoCache, Corpus(p)}
  BY Zenon DEF ScrapeInv, Extends
<1>2. load_poi_cache(p) = Corpus(p)
  BY Zenon DEF load_poi_cache, Corpus
<1> QED
  BY Zenon, <1>1, <1>2 DEF CacheOf

\* What ValidateRoots lets through is the corpus with a page that is contiguous with it.
LEMMA Validated ==
    ASSUME ScrapeInv, NEW p \in Pair, ValidateRoots(p)
    PROVE  LET leaves == apply_events(Corpus(p), worker[p].page) IN
           \/ worker' = [worker EXCEPT ![p].pc = "failed"]
           \/ /\ worker' = [worker EXCEPT ![p].pc = "commit", ![p].cache = leaves]
              /\ worker[p].page.start <= tip[p] + 1
              /\ leaves \in Seq(Content) /\ Len(leaves) <= Len(upstream[p])
              /\ leaves = SubSeq(upstream[p], 1, Len(leaves))
<1> DEFINE leaves == apply_events(Corpus(p), worker[p].page)
<1>1. worker[p].pc = "validate" /\ StoredInv /\ worker[p] \in WorkerState
  BY Zenon DEF ScrapeInv, ValidateRoots
<1>2. worker' = IF /\ worker[p].page.start <= Len(Corpus(p))
                   /\ Len(leaves) <= Len(upstream[p])
                   /\ leaves = SubSeq(upstream[p], 1, Len(leaves))
                THEN [worker EXCEPT ![p].pc = "commit", ![p].cache = leaves]
                ELSE [worker EXCEPT ![p].pc = "failed"]
  <2>1. CacheOf(p) = Corpus(p)
    BY Zenon, <1>1, CacheIsCorpus
  <2> QED
    BY Zenon, <2>1 DEF ValidateRoots, CacheOf
<1>3. Corpus(p) \in Seq(Content) /\ Len(Corpus(p)) = tip[p] + 1 /\ Len(Corpus(p)) \in Nat
  BY <1>1, CorpusIsSequence, LenProperties
<1>4. ASSUME worker[p].page.start <= Len(Corpus(p)) PROVE leaves \in Seq(Content)
  <2>1. PICK start \in Nat, events \in Seq(Content) :
           worker[p].page = [start |-> start, events |-> events]
    BY <1>1 DEF WorkerState, PageState
  <2>2. start \in 0..Len(Corpus(p))
    BY <1>3, <1>4, <2>1
  <2> QED
    BY Zenon, <1>3, <2>1, <2>2, Applied
<1> QED
  BY Zenon, <1>2, <1>3, <1>4

\* ValidateRoots preserves the invariant.
LEMMA ValidateInv ==
    ASSUME ScrapeInv, NEW p \in Pair, ValidateRoots(p)
    PROVE  ScrapeInv'
<1> DEFINE leaves == apply_events(Corpus(p), worker[p].page)
           bad == [worker[p] EXCEPT !.pc = "failed"]
           good == [worker[p] EXCEPT !.pc = "commit", !.cache = leaves]
<1>1. /\ worker[p].pc = "validate" /\ worker \in [Pair -> WorkerState] /\ worker[p] \in WorkerState
      /\ Extends(p, worker[p]) /\ UNCHANGED <<upstream, row, tip>>
  BY Zenon DEF ScrapeInv, ValidateRoots, corpusVars
<1>2. {"failed", "commit"} \subseteq Place
  BY DEF Place
<1>3. CASE worker' = [worker EXCEPT ![p].pc = "failed"]
  <2>1. worker' = [worker EXCEPT ![p] = bad]
    BY Zenon, <1>1, <1>3
  <2>2. bad \in WorkerState /\ bad.pc = "failed"
    BY Zenon, <1>1, <1>2 DEF WorkerState
  <2> HIDE DEF bad
  <2>3. Extends(p, bad)
    BY Zenon, <2>2 DEF Extends
  <2> QED
    BY Zenon, <1>1, <2>1, <2>2, <2>3, WorkerMoves
<1>4. CASE /\ worker' = [worker EXCEPT ![p].pc = "commit", ![p].cache = leaves]
           /\ worker[p].page.start <= tip[p] + 1 /\ leaves \in Seq(Content)
  <2>1. worker' = [worker EXCEPT ![p] = good]
    BY Zenon, <1>1, <1>4
  <2>2. leaves \in CacheState
    BY Zenon, <1>4 DEF CacheState
  <2>3. /\ good \in WorkerState /\ good.pc = "commit" /\ good.cache = leaves
        /\ good.page = worker[p].page
    BY Zenon, <1>1, <1>2, <2>2 DEF WorkerState
  <2> HIDE DEF good
  <2>4. Extends(p, good)
    BY Zenon, <1>1, <1>4, <2>3 DEF Extends
  <2> QED
    BY Zenon, <1>1, <2>1, <2>3, <2>4, WorkerMoves
<1> QED
  BY Zenon, <1>3, <1>4, Validated

\* The other steps of a worker that store nothing end it, or keep what it has loaded.
LEMMA QuietInv ==
    ASSUME ScrapeInv, NEW p \in Pair,
           \/ CaughtUp(p) \/ FetchTimesOut(p) \/ EndBackoff(p) \/ StopWorker(p)
           \/ FailWorker(p) \/ RefusePage(p)
    PROVE  ScrapeInv'
<1>1. /\ worker \in [Pair -> WorkerState] /\ worker[p] \in WorkerState /\ Extends(p, worker[p])
  BY Zenon DEF ScrapeInv
<1>2. UNCHANGED <<upstream, row, tip>>
  BY Zenon DEF CaughtUp, FetchTimesOut, EndBackoff, StopWorker, FailWorker, RefusePage, corpusVars
<1>3. ASSUME NEW pc \in {"caught_up", "shutdown", "failed"},
             worker' = [worker EXCEPT ![p].pc = pc]
      PROVE  ScrapeInv'
  <2> DEFINE w == [worker[p] EXCEPT !.pc = pc]
  <2>1. worker' = [worker EXCEPT ![p] = w]
    BY Zenon, <1>1, <1>3
  <2>2. pc \in Place
    BY DEF Place
  <2>3. w \in WorkerState /\ w.pc = pc
    BY Zenon, <1>1, <2>2 DEF WorkerState
  <2> HIDE DEF w
  <2>4. Extends(p, w)
    BY Zenon, <2>3 DEF Extends
  <2> QED
    BY Zenon, <1>2, <2>1, <2>3, <2>4, WorkerMoves
<1>4. ASSUME NEW w \in {Retry(worker[p]), BackedOff(worker[p])}, worker' = [worker EXCEPT ![p] = w],
             worker[p].pc \in {"page", "backoff"}
      PROVE  ScrapeInv'
  <2>1. /\ w \in WorkerState /\ w.cache = worker[p].cache
        /\ w.pc \in {"page", "backoff", "exhausted", "shutdown"}
    BY Zenon, <1>1, WorkerSteps
  <2>2. Extends(p, w)
    BY Zenon, <1>1, <1>4, <2>1 DEF Extends
  <2> QED
    BY Zenon, <1>2, <1>4, <2>1, <2>2, WorkerMoves
<1>5. CASE CaughtUp(p) \/ StopWorker(p) \/ FailWorker(p) \/ RefusePage(p)
  BY Zenon, <1>3, <1>5 DEF CaughtUp, StopWorker, FailWorker, RefusePage
<1>6. CASE FetchTimesOut(p)
  <2>1. worker' = [worker EXCEPT ![p] = Retry(worker[p])] /\ worker[p].pc = "page"
    BY Zenon, <1>1, <1>6 DEF FetchTimesOut, MayRequest
  <2> QED
    BY Zenon, <1>4, <2>1
<1>7. CASE EndBackoff(p)
  <2>1. worker' = [worker EXCEPT ![p] = BackedOff(worker[p])] /\ worker[p].pc = "backoff"
    BY Zenon, <1>1, <1>7 DEF EndBackoff
  <2> QED
    BY Zenon, <1>4, <2>1
<1> QED
  BY Zenon, <1>5, <1>6, <1>7

\* A commit leaves the cache of its worker in the database, or nothing.
LEMMA CommitInv ==
    ASSUME ScrapeInv, NEW p \in Pair, CommitPage(p) \/ CommitFails(p)
    PROVE  ScrapeInv'
<1>1. /\ worker \in [Pair -> WorkerState] /\ worker[p] \in WorkerState /\ worker[p].pc = "commit"
      /\ UNCHANGED upstream
  BY Zenon DEF ScrapeInv, CommitPage, CommitFails
<1>2. CASE CommitPage(p)
  <2> DEFINE done == PageDone(worker[p])
             w == [done EXCEPT !.page = NoPage]
  <2>1. done \in WorkerState /\ done.cache = worker[p].cache
    BY Zenon, <1>1, WorkerSteps
  <2>2. done.pc \in {"page", "shutdown"}
    <3>1. PICK pc \in {"page", "shutdown"} :
             done = [on_success(worker[p]) EXCEPT !.pc = pc, !.attempts = 0]
      BY Zenon DEF PageDone
    <3>2. \E size, successes : on_success(worker[p]) \in
             {[worker[p] EXCEPT !.successes = successes],
              [worker[p] EXCEPT !.size = size, !.successes = successes]}
      BY Zenon DEF on_success
    <3>3. done.pc = pc
      BY Zenon, <1>1, <3>1, <3>2 DEF WorkerState
    <3> QED
      BY Zenon, <3>1, <3>3
  <2>3. worker' = [worker EXCEPT ![p] = w] /\ Ingest({p})
    BY Zenon, <1>1, <1>2 DEF CommitPage
  <2> HIDE DEF done
  <2>4. NoPage \in PageState
    BY DEF NoPage, PageState
  <2>5. w \in WorkerState /\ w.pc = done.pc /\ w.cache = worker[p].cache
    BY Zenon, <2>1, <2>4 DEF WorkerState
  <2> HIDE DEF w
  <2>6. Corpus(p)' = worker[p].cache
    BY Zenon, <1>1, <2>3, IngestStored
  <2> QED
    BY Zenon, <1>1, <2>2, <2>3, <2>5, <2>6, CommitMoves
<1>3. CASE CommitFails(p)
  <2> DEFINE w == [worker[p] EXCEPT !.pc = "failed"]
  <2>1. PICK ps \in SUBSET {p} : Ingest(ps)
    BY Zenon, <1>3 DEF CommitFails
  <2>2. worker' = [worker EXCEPT ![p] = w]
    BY Zenon, <1>1, <1>3 DEF CommitFails
  <2>3. "failed" \in Place
    BY DEF Place
  <2>4. w \in WorkerState /\ w.pc = "failed"
    BY Zenon, <1>1, <2>3 DEF WorkerState
  <2> HIDE DEF w
  <2> QED
    BY Zenon, <1>1, <2>1, <2>2, <2>4, CommitMoves
<1> QED
  BY Zenon, <1>2, <1>3

\* The orchestrator spawns workers that have read nothing; dropping a join set or the process
\* leaves of their transactions what has landed.
LEMMA CycleInv ==
    ASSUME ScrapeInv, UNCHANGED upstream,
           \/ StartCycle
           \/ JoinChunk
           \/ worker' = NoWorkers /\ \E ps \in SUBSET Committing : Ingest(ps)
    PROVE  ScrapeInv'
<1>1. NoWorkers \in [Pair -> {NoWorker, [NoWorker EXCEPT !.pc = "page"]}]
  BY Zenon DEF NoWorkers
<1>2. \A k : SpawnWorkers(k) \in [Pair -> {NoWorker, [NoWorker EXCEPT !.pc = "page"]}]
  BY Zenon DEF SpawnWorkers
<1>3. CASE StartCycle \/ JoinChunk
  <2>1. worker' \in [Pair -> {NoWorker, [NoWorker EXCEPT !.pc = "page"]}] /\ UNCHANGED <<row, tip>>
    BY Zenon, <1>1, <1>2, <1>3 DEF StartCycle, JoinChunk, corpusVars
  <2>2. StoredInv'
    BY Zenon, <2>1 DEF ScrapeInv, StoredInv, CorpusHasNoGap
  <2> QED
    BY Zenon, <2>1, <2>2, WorkersReset
<1>4. CASE worker' = NoWorkers /\ \E ps \in SUBSET Committing : Ingest(ps)
  <2>1. PICK ps \in SUBSET Committing : Ingest(ps)
    BY Zenon, <1>4
  <2>2. ps \in SUBSET Pair /\ \A p \in ps : worker[p].pc = "commit"
    BY Zenon, <2>1 DEF Committing
  <2>3. StoredInv'
    BY Zenon, <2>1, <2>2, IngestStored
  <2> QED
    BY Zenon, <1>1, <1>4, <2>3, WorkersReset
<1> QED
  BY Zenon, <1>3, <1>4

\* The upstream changes nothing the process has stored or read.
LEMMA UpstreamInv ==
    ASSUME ScrapeInv, NEW p \in Pair,
           UpstreamAppends(p) \/ \E i \in DOMAIN upstream[p] : UpstreamRewrites(p, i)
    PROVE  ScrapeInv'
<1>1. /\ UNCHANGED <<row, tip, worker>> /\ upstream \in [Pair -> Seq(Content)]
      /\ upstream[p] \in Seq(Content) /\ \A q \in Pair : Len(upstream[q]) <= MaxEvents[q]
  BY Zenon DEF ScrapeInv, UpstreamAppends, UpstreamRewrites, corpusVars
<1>2. Len(upstream[p]) \in Nat /\ DOMAIN upstream[p] = 1..Len(upstream[p]) /\ MaxEvents[p] \in Nat
  BY <1>1, IndexOfEvent, LenProperties
<1>3. PICK list \in Seq(Content) :
         upstream' = [upstream EXCEPT ![p] = list] /\ Len(list) <= MaxEvents[p]
  <2>1. CASE UpstreamAppends(p)
    <3>1. Append(upstream[p], 1) \in Seq(Content) /\ Len(Append(upstream[p], 1)) = Len(upstream[p]) + 1
      BY <1>1, AppendProperties DEF Content
    <3>2. upstream' = [upstream EXCEPT ![p] = Append(upstream[p], 1)] /\ Len(upstream[p]) < MaxEvents[p]
      BY Zenon, <1>1, <2>1 DEF UpstreamAppends
    <3>3. Len(Append(upstream[p], 1)) <= MaxEvents[p]
      BY <1>2, <3>1, <3>2
    <3> QED
      BY Zenon, <3>1, <3>2, <3>3
  <2>2. ASSUME NEW i \in DOMAIN upstream[p], UpstreamRewrites(p, i)
        PROVE  \E list \in Seq(Content) :
                  upstream' = [upstream EXCEPT ![p] = list] /\ Len(list) <= MaxEvents[p]
    <3> DEFINE at(n) == IF n >= i THEN 2 ELSE upstream[p][n]
               list == [n \in DOMAIN upstream[p] |-> at(n)]
    <3>1. upstream' = [upstream EXCEPT ![p] = list]
      BY Zenon, <1>1, <2>2 DEF UpstreamRewrites
    <3>2. \A n \in DOMAIN upstream[p] : at(n) \in Content
      BY <1>1, <1>2, ElementOfSeq DEF Content
    <3> HIDE DEF at
    <3>3. list \in [1..Len(upstream[p]) -> Content]
      BY Zenon, <1>2, <3>2
    <3> HIDE DEF list
    <3>4. list \in Seq(Content) /\ Len(list) = Len(upstream[p])
      BY Zenon, <1>2, <3>3, FunctionIsSequence
    <3> QED
      BY Zenon, <1>1, <3>1, <3>4
  <2> QED
    BY Zenon, <2>1, <2>2
<1>4. upstream' \in [Pair -> Seq(Content)] /\ \A q \in Pair : Len(upstream'[q]) <= MaxEvents[q]
  BY Zenon, <1>1, <1>3
<1>5. StoredInv' /\ worker' \in [Pair -> WorkerState] /\ \A q \in Pair : Extends(q, worker[q])'
  BY Zenon, <1>1 DEF ScrapeInv, StoredInv, CorpusHasNoGap, Extends, Corpus
<1> QED
  BY Zenon, <1>4, <1>5 DEF ScrapeInv

-----------------------------------------------------------------------------
(* CorpusHasNoGap. *)

\* The database of the old release, from which the mirror starts.
LEMMA ScrapeStart == Init => ScrapeInv
<1> SUFFICES ASSUME Init PROVE ScrapeInv
  OBVIOUS
<1> USE DEF Init, ScrapeInit
<1>1. ASSUME NEW p \in Pair
      PROVE  LegacyEvents[p] \in Nat /\ LegacyEvents[p] <= MaxEvents[p] /\ MaxEvents[p] \in Nat
  <2>1. MaxEvents[p] \in Nat
    BY Zenon, <1>1, IndexOfEvent
  <2>2. LegacyEvents[p] \in 0..MaxEvents[p]
    BY Zenon, <1>1, EventsAssumption
  <2> QED
    BY <2>1, <2>2
<1>2. ASSUME NEW p \in Pair
      PROVE  upstream[p] \in Seq(Content) /\ Len(upstream[p]) = LegacyEvents[p]
  <2>1. upstream[p] = [i \in 1..LegacyEvents[p] |-> 1] /\ 1 \in Content
    BY Zenon, <1>2 DEF Content
  <2> QED
    BY Zenon, <1>1, <1>2, <2>1, FunctionIsSequence
<1>3. upstream \in [Pair -> Seq(Content)]
  BY Zenon, <1>2
<1>4. \A p \in Pair : Len(upstream[p]) <= MaxEvents[p]
  BY Zenon, <1>1, <1>2
<1>5. [kind |-> "leaf", content |-> 1] \in Row /\ NoRow \in Row
  BY DEF Row, NoRow, Content
<1>6. row \in [Pair -> [Index -> Row]]
  BY Zenon, <1>5
<1>7. tip \in [Pair -> Int] /\ \A p \in Pair : -1 <= tip[p] /\ tip[p] < MaxEvents[p]
  BY <1>1
<1>8. ASSUME NEW p \in Pair, NEW i \in Index PROVE row[p][i].kind = "none" <=> i > tip[p]
  <2>1. row[p][i] = (IF i < LegacyEvents[p] THEN [kind |-> "leaf", content |-> 1] ELSE NoRow)
    BY Zenon, <1>8
  <2>2. row[p][i].kind = "none" <=> ~(i < LegacyEvents[p])
    BY <2>1 DEF NoRow
  <2>3. tip[p] = LegacyEvents[p] - 1 /\ i \in Int
    BY <1>8, IndexOfEvent
  <2> QED
    BY <1>1, <1>8, <2>2, <2>3
<1>9. StoredInv
  BY Zenon, <1>6, <1>7, <1>8 DEF StoredInv, CorpusHasNoGap
<1>10. worker = [p \in Pair |-> NoWorker]
  BY Zenon DEF NoWorkers
<1>11. NoWorker \in WorkerState /\ NoWorker.pc = "none"
  <2>1. /\ "none" \in Place /\ max_size \in Int /\ 0 \in Int /\ NoCache \in CacheState
        /\ NoPage \in PageState
    BY SizesAreNumbers DEF Place, CacheState, PageState, NoPage
  <2> QED
    BY Zenon, <2>1 DEF NoWorker, WorkerState
<1>12. worker \in [Pair -> WorkerState] /\ \A p \in Pair : Extends(p, worker[p])
  BY Zenon, <1>10, <1>11 DEF Extends
<1> QED
  BY Zenon, <1>3, <1>4, <1>9, <1>12 DEF ScrapeInv

\* Every step of the process and of the upstream preserves it.
LEMMA ScrapeStep ==
    ASSUME ScrapeInv, [Next]_vars
    PROVE  ScrapeInv'
<1>1. CASE UNCHANGED <<upstream, row, tip, worker>>
  BY Zenon, <1>1 DEF ScrapeInv, StoredInv, CorpusHasNoGap, Extends, Corpus
<1>2. CASE ScrapeNext
  <2>1. ASSUME NEW p \in Pair, WorkerNext(p) PROVE ScrapeInv'
    BY Zenon, <2>1, FetchInv, ValidateInv, QuietInv, CommitInv DEF WorkerNext
  <2>2. CASE CycleNext
    <3>1. UNCHANGED upstream
      BY Zenon, <2>2 DEF CycleNext, StartCycle, JoinChunk, AbortCycle
    <3> QED
      BY Zenon, <2>2, <3>1, CycleInv DEF CycleNext, AbortCycle
  <2> QED
    BY Zenon, <1>2, <2>1, <2>2, UpstreamInv DEF ScrapeNext
<1>3. CASE Crash
  BY Zenon, <1>3, CycleInv DEF Crash
<1>4. CASE ~ScrapeNext /\ ~Crash
  <2>1. UNCHANGED <<upstream, row, tip, worker>>
    BY Zenon, <1>4 DEF Next, vars, scrapeVars, corpusVars, Start, Adopt, Signal, Exit, Outage
  <2> QED
    BY Zenon, <1>1, <2>1
<1> QED
  BY Zenon, <1>2, <1>3, <1>4

\* The mirrored rows have no gap, however pages were cut short, lost or repeated.
THEOREM NoGap == Spec => []CorpusHasNoGap
<1>1. ScrapeInv => CorpusHasNoGap
  BY DEF ScrapeInv, StoredInv
<1> QED
  BY <1>1, ScrapeStart, ScrapeStep, PTL DEF Spec

-----------------------------------------------------------------------------
(* The fence: a process runs with the version of the database, and workers    *)
(* exist only in a process.                                                   *)

FenceInv ==
    /\ identity = "none" => process = "down" /\ ingested = {}
    /\ process # "down" => config = identity
    /\ process = "down" => chunk = 0
    /\ chunk = 0 => \A p \in Pair : worker[p].pc = "none"
    /\ ingested \subseteq {identity}

\* A commit writes under the version of the database.
LEMMA IngestFence ==
    ASSUME FenceInv, NEW ps \in SUBSET Pair, \A p \in ps : worker[p].pc = "commit", Ingest(ps)
    PROVE  /\ identity' = identity /\ ingested' \subseteq {identity}
           /\ identity = "none" => ingested' = {}
<1>1. identity' = identity /\ ingested' = IF ps = {} THEN ingested ELSE ingested \cup {config}
  BY Zenon DEF Ingest
<1>2. CASE ps = {}
  BY Zenon, <1>1, <1>2 DEF FenceInv
<1>3. CASE ps # {}
  <2>1. PICK p \in ps : worker[p].pc = "commit"
    BY Zenon, <1>3
  <2>2. worker[p].pc # "none"
    BY <2>1
  <2>3. process # "down" /\ config = identity /\ identity # "none"
    BY Zenon, <2>2 DEF FenceInv
  <2> QED
    BY Zenon, <1>1, <1>3, <2>3 DEF FenceInv
<1> QED
  BY Zenon, <1>2, <1>3

\* A worker that takes a step belongs to a chunk, and takes it under the fence.
LEMMA WorkerFence ==
    ASSUME FenceInv, NEW p \in Pair, WorkerNext(p)
    PROVE  FenceInv'
<1>1. worker[p].pc # "none" /\ UNCHANGED <<process, config, chunk>>
  <2>1. worker[p].pc \in {"page", "backoff", "validate", "commit"}
    BY Zenon DEF WorkerNext, FetchPage, CaughtUp, FetchTimesOut, EndBackoff, StopWorker,
       ValidateRoots, FailWorker, CommitPage, RefusePage, CommitFails, MayRequest
  <2>2. UNCHANGED <<process, config, chunk>>
    BY Zenon DEF WorkerNext, FetchPage, CaughtUp, FetchTimesOut, EndBackoff, StopWorker,
       ValidateRoots, FailWorker, CommitPage, RefusePage, CommitFails, workersVars
  <2> QED
    BY <2>1, <2>2
<1>2. chunk # 0
  BY Zenon, <1>1 DEF FenceInv
<1>3. /\ identity' = identity /\ ingested' \subseteq {identity}
      /\ identity = "none" => ingested' = {}
  <2>1. CASE UNCHANGED <<identity, ingested>>
    BY Zenon, <2>1 DEF FenceInv
  <2>2. CASE CommitPage(p) \/ CommitFails(p)
    <3>1. PICK ps \in SUBSET {p} : Ingest(ps)
      BY Zenon, <2>2 DEF CommitPage, CommitFails
    <3>2. worker[p].pc = "commit"
      BY Zenon, <2>2 DEF CommitPage, CommitFails
    <3> QED
      BY Zenon, <3>1, <3>2, IngestFence
  <2> QED
    BY Zenon, <2>1, <2>2 DEF WorkerNext, FetchPage, CaughtUp, FetchTimesOut, EndBackoff,
       StopWorker, ValidateRoots, FailWorker, RefusePage, corpusVars
<1> QED
  BY Zenon, <1>1, <1>2, <1>3 DEF FenceInv

\* The resync of the blocked shields is a task of the same process and does not end it.
LEMMA BlockedSparesProcess ==
    ASSUME BlockedNext
    PROVE  process' = process
BY Zenon DEF BlockedNext, Block, Unblock, Change, ResyncNext, StartResync, JoinResync, AbortResync,
   ResyncWorkerNext, CollectPage, EndCollection, CompareLocal, CommitReplace, ResyncTimesOut,
   ResyncBackedOff, StopResync, FailResync, workersVars

\* Every step keeps the fence.
LEMMA FenceStep ==
    ASSUME FenceInv, [Next]_vars
    PROVE  FenceInv'
<1>1. ASSUME UNCHANGED <<identity, ingested, config, chunk, worker, process>> PROVE FenceInv'
  BY Zenon, <1>1 DEF FenceInv
<1>2. \A p \in Pair : NoWorkers[p].pc = "none"
  BY Zenon DEF NoWorkers, NoWorker
<1>3. ASSUME NEW ps \in SUBSET Committing, Ingest(ps)
      PROVE  /\ identity' = identity /\ ingested' \subseteq {identity}
             /\ identity = "none" => ingested' = {}
  <2>1. ps \in SUBSET Pair /\ \A p \in ps : worker[p].pc = "commit"
    BY Zenon, <1>3 DEF Committing
  <2> QED
    BY Zenon, <1>3, <2>1, IngestFence
<1>4. CASE StartCycle
  <2>1. /\ process = "up" /\ chunk' = 1 /\ UNCHANGED <<identity, ingested, config, process>>
    BY Zenon, <1>4 DEF StartCycle, corpusVars, workersVars
  <2> QED
    BY <2>1 DEF FenceInv
<1>5. CASE JoinChunk
  <2>1. /\ chunk # 0 /\ UNCHANGED <<identity, ingested, config, process>>
        /\ chunk' = 0 => worker' = NoWorkers
    BY Zenon, <1>5 DEF JoinChunk, corpusVars, workersVars
  <2> QED
    BY Zenon, <1>2, <2>1 DEF FenceInv
<1>6. CASE AbortCycle
  <2>1. /\ chunk' = 0 /\ worker' = NoWorkers /\ UNCHANGED <<config, process>>
        /\ \E ps \in SUBSET Committing : Ingest(ps)
    BY Zenon, <1>6 DEF AbortCycle, workersVars
  <2> QED
    BY Zenon, <1>2, <1>3, <2>1 DEF FenceInv
<1>7. CASE Crash
  <2>1. /\ chunk' = 0 /\ worker' = NoWorkers /\ process' = "down"
        /\ \E ps \in SUBSET Committing : Ingest(ps)
    BY Zenon, <1>7 DEF Crash, EndProcess
  <2> QED
    BY Zenon, <1>2, <1>3, <2>1 DEF FenceInv
<1>8. ASSUME NEW p \in Pair,
             UpstreamAppends(p) \/ \E i \in DOMAIN upstream[p] : UpstreamRewrites(p, i)
      PROVE  FenceInv'
  BY Zenon, <1>1, <1>8 DEF UpstreamAppends, UpstreamRewrites, corpusVars, workersVars
<1>9. ASSUME NEW v \in Version, NEW limit \in Limit, Start(v, limit) PROVE FenceInv'
  <2>1. /\ process = "down" /\ process' = "up" /\ config' = v /\ identity' = v
        /\ UNCHANGED <<ingested, chunk, worker>>
        /\ identity # "none" => identity = v
    BY Zenon, <1>9 DEF Start, StartProcess, set_poi_txid_version
  <2>2. v # "none" /\ process' # "down"
    BY <2>1, VersionAssumption
  <2> QED
    BY Zenon, <2>1, <2>2 DEF FenceInv
<1>10. CASE Adopt
  <2>1. /\ identity = "none" /\ identity' = AdoptedVersion
        /\ UNCHANGED <<ingested, config, chunk, worker, process>>
    BY Zenon, <1>10 DEF Adopt, workersVars
  <2>2. AdoptedVersion # "none"
    BY VersionAssumption
  <2> QED
    BY Zenon, <2>1, <2>2 DEF FenceInv
<1>11. CASE Signal
  <2>1. /\ process = "up" /\ process' = "stopping"
        /\ UNCHANGED <<identity, ingested, config, chunk, worker>>
    BY Zenon, <1>11 DEF Signal, RequestShutdown, scrapeVars, corpusVars
  <2> QED
    BY <2>1 DEF FenceInv
<1>12. CASE Exit
  <2>1. chunk = 0 /\ process' = "down" /\ UNCHANGED <<identity, ingested, chunk, worker>>
    BY Zenon, <1>12 DEF Exit, EndProcess, corpusVars
  <2> QED
    BY Zenon, <2>1 DEF FenceInv
<1>13. CASE Outage
  BY Zenon, <1>1, <1>13 DEF Outage, OutageBegins, OutageEnds, scrapeVars, corpusVars
<1>14. CASE BlockedNext /\ UNCHANGED scrapeVars
  BY Zenon, <1>1, <1>14, BlockedSparesProcess DEF scrapeVars, corpusVars
<1>15. CASE UNCHANGED vars
  BY Zenon, <1>1, <1>15 DEF vars, scrapeVars, corpusVars, workersVars
<1> QED
  BY Zenon, <1>4, <1>5, <1>6, <1>7, <1>8, <1>9, <1>10, <1>11, <1>12, <1>13, <1>14, <1>15,
     WorkerFence DEF Next, ScrapeNext, CycleNext

-----------------------------------------------------------------------------
(* CorpusIsServed, for an upstream that rewrites its lists at most once.  A   *)
(* commit on its way may still hold the list from before the rewrite: what it *)
(* leaves is then all old.                                                    *)

Ones(s) == \A n \in DOMAIN s : s[n] = 1
Begins(s, u) == Len(s) <= Len(u) /\ s = SubSeq(u, 1, Len(s))
Served(u, s) == Ones(s) \/ Begins(s, u)

ServedInv ==
    /\ rewrites \in Nat
    /\ rewrites = 0 => \A p \in Pair : Ones(upstream[p])
    /\ \A p \in Pair : Served(upstream[p], Corpus(p))
    /\ \A p \in Pair : worker[p].pc = "commit" => Served(upstream[p], worker[p].cache)

\* Only ValidateRoots sends a worker to its commit.
LEMMA OnlyValidationCommits ==
    ASSUME ScrapeInv, NEW p \in Pair, WorkerNext(p), ~ValidateRoots(p)
    PROVE  worker'[p].pc # "commit" /\ \A q \in Pair \ {p} : worker'[q] = worker[q]
<1>1. worker \in [Pair -> WorkerState] /\ worker[p] \in WorkerState
  BY Zenon DEF ScrapeInv
<1>2. PICK w : worker' = [worker EXCEPT ![p] = w]
  BY Zenon DEF WorkerNext, FetchPage, CaughtUp, FetchTimesOut, EndBackoff, StopWorker,
     FailWorker, CommitPage, RefusePage, CommitFails
<1>3. worker'[p] = w /\ \A q \in Pair \ {p} : worker'[q] = worker[q]
  BY Zenon, <1>1, <1>2
<1>4. CASE \E n \in 1..max_size : FetchPage(p, n)
  <2>1. PICK page : worker' = [worker EXCEPT ![p].pc = "validate", ![p].page = page]
    BY Zenon, <1>4 DEF FetchPage
  <2>2. worker'[p].pc = "validate"
    BY Zenon, <1>1, <2>1 DEF WorkerState
  <2> QED
    BY <1>3, <2>2
<1>5. CASE CaughtUp(p) \/ StopWorker(p) \/ FailWorker(p) \/ RefusePage(p) \/ CommitFails(p)
  <2>1. PICK pc \in {"caught_up", "shutdown", "failed"} : worker' = [worker EXCEPT ![p].pc = pc]
    BY Zenon, <1>5 DEF CaughtUp, StopWorker, FailWorker, RefusePage, CommitFails
  <2>2. worker'[p].pc = pc
    BY Zenon, <1>1, <2>1 DEF WorkerState
  <2> QED
    BY <1>3, <2>1, <2>2
<1>6. CASE FetchTimesOut(p) \/ EndBackoff(p)
  <2>1. worker'[p] \in {Retry(worker[p]), BackedOff(worker[p])}
    BY Zenon, <1>1, <1>6 DEF FetchTimesOut, EndBackoff
  <2>2. worker'[p].pc \in {"page", "backoff", "exhausted", "shutdown"}
    BY Zenon, <1>1, <2>1, WorkerSteps
  <2> QED
    BY <1>3, <2>2
<1>7. CASE CommitPage(p)
  <2>1. worker'[p] = [PageDone(worker[p]) EXCEPT !.page = NoPage]
    BY Zenon, <1>1, <1>7 DEF CommitPage
  <2>2. /\ PageDone(worker[p]) \in WorkerState
        /\ PageDone(worker[p]).pc \in {"page", "backoff", "exhausted", "shutdown"}
    BY Zenon, <1>1, WorkerSteps
  <2>3. worker'[p].pc = PageDone(worker[p]).pc
    BY Zenon, <2>1, <2>2 DEF WorkerState
  <2> QED
    BY <1>3, <2>2, <2>3
<1> QED
  BY Zenon, <1>4, <1>5, <1>6, <1>7 DEF WorkerNext

\* Commits leave served corpora, since they leave caches of workers about to commit.
LEMMA IngestServed ==
    ASSUME ScrapeInv, ServedInv,
           NEW ps \in SUBSET Pair, \A p \in ps : worker[p].pc = "commit", Ingest(ps)
    PROVE  \A p \in Pair : Served(upstream[p], Corpus(p)')
<1> SUFFICES ASSUME NEW p \in Pair PROVE Served(upstream[p], Corpus(p)')
  BY Zenon
<1>1. CASE p \in ps
  <2>1. Corpus(p)' = worker[p].cache
    BY Zenon, <1>1, IngestStored
  <2> QED
    BY Zenon, <1>1, <2>1 DEF ServedInv
<1>2. CASE p \notin ps
  <2>1. Corpus(p)' = Corpus(p)
    BY Zenon, <1>2, IngestStored
  <2> QED
    BY Zenon, <2>1 DEF ServedInv
<1> QED
  BY Zenon, <1>1, <1>2

\* What a list begins with, it begins with after an event was appended.
LEMMA PrefixOfAppend ==
    ASSUME NEW u \in Seq(Content), NEW e \in Content, NEW s \in Seq(Content), Begins(s, u)
    PROVE  Begins(s, Append(u, e))
<1>1. PICK k \in Nat : k = Len(s)
  BY LenProperties
<1>2. Len(u) \in Nat /\ k <= Len(u)
  BY <1>1, LenProperties DEF Begins
<1>3. PICK v \in Seq(Content) :
         v = Append(u, e) /\ Len(v) = Len(u) + 1 /\ \A n \in 1..Len(u) : v[n] = u[n]
  <2>1. /\ Append(u, e) \in Seq(Content) /\ Len(Append(u, e)) = Len(u) + 1
        /\ \A n \in 1..Len(u) : Append(u, e)[n] = u[n]
    BY AppendProperties
  <2> QED
    BY Zenon, <2>1
<1>4. SubSeq(u, 1, k) = [n \in 1..k |-> u[n]] /\ SubSeq(v, 1, k) = [n \in 1..k |-> v[n]]
  BY <1>1
<1>5. \A n \in 1..k : v[n] = u[n]
  BY <1>2, <1>3
<1>6. k <= Len(v) /\ SubSeq(v, 1, k) = SubSeq(u, 1, k)
  BY <1>2, <1>3, <1>4, <1>5
<1> QED
  BY Zenon, <1>1, <1>3, <1>6 DEF Begins

\* A list that begins a list of first events is one.
LEMMA PrefixOfOnes ==
    ASSUME NEW u \in Seq(Content), Ones(u), NEW s \in Seq(Content), Begins(s, u)
    PROVE  Ones(s)
<1>1. PICK k \in Nat : k = Len(s)
  BY LenProperties
<1>2. DOMAIN s = 1..k /\ DOMAIN u = 1..Len(u) /\ Len(u) \in Nat /\ k <= Len(u)
  BY <1>1, LenProperties DEF Begins
<1>3. \A n \in 1..k : n \in DOMAIN u
  BY <1>1, <1>2
<1>4. s = [n \in 1..k |-> u[n]]
  BY <1>1 DEF Begins
<1> QED
  BY Zenon, <1>2, <1>3, <1>4 DEF Ones

\* A first event appended to first events.
LEMMA AppendToOnes ==
    ASSUME NEW u \in Seq(Content), Ones(u)
    PROVE  Ones(Append(u, 1))
<1> SUFFICES ASSUME NEW n \in DOMAIN Append(u, 1) PROVE Append(u, 1)[n] = 1
  BY Zenon DEF Ones
<1>1. 1 \in Content /\ Len(u) \in Nat /\ DOMAIN u = 1..Len(u)
  BY LenProperties DEF Content
<1>2. /\ Append(u, 1) \in Seq(Content) /\ Len(Append(u, 1)) = Len(u) + 1
      /\ \A i \in 1..Len(u) : Append(u, 1)[i] = u[i]
      /\ Append(u, 1)[Len(u) + 1] = 1
  BY <1>1, AppendProperties
<1>3. n \in 1..(Len(u) + 1)
  BY <1>2, LenProperties
<1>4. n \in 1..Len(u) \/ n = Len(u) + 1
  BY <1>1, <1>3
<1> QED
  BY Zenon, <1>1, <1>2, <1>4 DEF Ones

\* A list that was served stays one while the upstream appends, and when it rewrites its
\* first events.
LEMMA ServedStays ==
    ASSUME ScrapeInv, ServedInv, MaxRewrites <= 1, NEW p \in Pair,
           UpstreamAppends(p) \/ \E i \in DOMAIN upstream[p] : UpstreamRewrites(p, i),
           NEW q \in Pair, NEW s \in Seq(Content), Served(upstream[q], s)
    PROVE  Served(upstream'[q], s)
<1>1. upstream \in [Pair -> Seq(Content)] /\ upstream[q] \in Seq(Content) /\ 1 \in Content
  BY Zenon DEF ScrapeInv, Content
<1>2. CASE UpstreamAppends(p)
  <2>1. upstream' = [upstream EXCEPT ![p] = Append(upstream[p], 1)]
    BY Zenon, <1>1, <1>2 DEF UpstreamAppends
  <2>2. upstream'[q] = IF q = p THEN Append(upstream[q], 1) ELSE upstream[q]
    BY Zenon, <1>1, <2>1
  <2>3. Begins(s, upstream[q]) => Begins(s, Append(upstream[q], 1))
    BY Zenon, <1>1, PrefixOfAppend
  <2> QED
    BY Zenon, <2>2, <2>3 DEF Served
<1>3. CASE \E i \in DOMAIN upstream[p] : UpstreamRewrites(p, i)
  <2>1. rewrites < MaxRewrites
    BY Zenon, <1>3 DEF UpstreamRewrites
  <2>2. rewrites = 0
    BY <2>1, RewritesAssumption DEF ServedInv
  <2>3. Ones(upstream[q])
    BY Zenon, <2>2 DEF ServedInv
  <2>4. Ones(s)
    BY Zenon, <1>1, <2>3, PrefixOfOnes DEF Served
  <2> QED
    BY Zenon, <2>4 DEF Served
<1> QED
  BY Zenon, <1>2, <1>3

\* The list of a worker about to commit is a sequence of events.
LEMMA CommittedIsSequence ==
    ASSUME ScrapeInv, NEW q \in Pair, worker[q].pc = "commit"
    PROVE  worker[q].cache \in Seq(Content)
<1>1. /\ worker[q] \in WorkerState /\ worker[q].page.start <= tip[q] + 1
      /\ worker[q].cache = apply_events(Corpus(q), worker[q].page)
  BY Zenon DEF ScrapeInv, Extends
<1>2. PICK start \in Nat, events \in Seq(Content) :
         worker[q].page = [start |-> start, events |-> events]
  BY <1>1 DEF WorkerState, PageState
<1>3. Corpus(q) \in Seq(Content) /\ Len(Corpus(q)) = tip[q] + 1 /\ tip[q] \in Int
  <2>1. StoredInv
    BY Zenon DEF ScrapeInv
  <2>2. tip[q] \in Int
    BY Zenon, <2>1 DEF StoredInv
  <2> QED
    BY Zenon, <2>1, <2>2, CorpusIsSequence
<1>4. start \in 0..Len(Corpus(q))
  BY <1>1, <1>2, <1>3
<1>5. apply_events(Corpus(q), [start |-> start, events |-> events]) \in Seq(Content)
  BY Zenon, <1>3, <1>4, Applied
<1> QED
  BY Zenon, <1>1, <1>2, <1>5

\* A step of the upstream keeps the corpora and the commits on their way served.
LEMMA UpstreamServed ==
    ASSUME ScrapeInv, ServedInv, MaxRewrites <= 1, NEW p \in Pair,
           UpstreamAppends(p) \/ \E i \in DOMAIN upstream[p] : UpstreamRewrites(p, i)
    PROVE  ServedInv'
<1>1. UNCHANGED <<row, tip, worker>>
  BY Zenon DEF UpstreamAppends, UpstreamRewrites, corpusVars
<1>2. ASSUME NEW q \in Pair
      PROVE  Served(upstream'[q], Corpus(q)')
  <2>1. Corpus(q) \in Seq(Content) /\ Corpus(q)' = Corpus(q)
    BY Zenon, <1>1, <1>2, CorpusIsSequence DEF ScrapeInv, Corpus
  <2>2. Served(upstream[q], Corpus(q))
    BY Zenon, <1>2 DEF ServedInv
  <2>3. Served(upstream'[q], Corpus(q))
    BY Zenon, <1>2, <2>1, <2>2, ServedStays
  <2> QED
    BY Zenon, <2>1, <2>3
<1>3. ASSUME NEW q \in Pair, worker'[q].pc = "commit"
      PROVE  Served(upstream'[q], worker'[q].cache)
  <2>1. worker[q].cache \in Seq(Content) /\ Served(upstream[q], worker[q].cache)
    BY Zenon, <1>1, <1>3, CommittedIsSequence DEF ServedInv
  <2>2. Served(upstream'[q], worker[q].cache)
    BY Zenon, <1>3, <2>1, ServedStays
  <2> QED
    BY Zenon, <1>1, <2>2
<1>4. rewrites' \in Nat /\ (rewrites' = 0 => \A q \in Pair : Ones(upstream'[q]))
  <2>1. CASE \E i \in DOMAIN upstream[p] : UpstreamRewrites(p, i)
    <3>1. rewrites' = rewrites + 1 /\ rewrites \in Nat
      BY Zenon, <2>1 DEF UpstreamRewrites, ServedInv
    <3> QED
      BY <3>1
  <2>2. CASE UpstreamAppends(p)
    <3>1. /\ upstream' = [upstream EXCEPT ![p] = Append(upstream[p], 1)]
          /\ rewrites' = rewrites /\ upstream \in [Pair -> Seq(Content)]
      BY Zenon, <2>2 DEF UpstreamAppends, ScrapeInv
    <3>2. \A q \in Pair : upstream'[q] \in {upstream[q], Append(upstream[q], 1)}
      BY Zenon, <3>1
    <3> QED
      BY Zenon, <3>1, <3>2, AppendToOnes DEF ServedInv
  <2> QED
    BY Zenon, <2>1, <2>2
<1> QED
  BY Zenon, <1>2, <1>3, <1>4 DEF ServedInv

\* So does every other step.
LEMMA ServedStep ==
    ASSUME ScrapeInv, ServedInv, MaxRewrites <= 1, [Next]_vars
    PROVE  ServedInv'
<1>1. ASSUME UNCHANGED <<upstream, rewrites>>,
             \A p \in Pair : Served(upstream[p], Corpus(p)'),
             \A p \in Pair : worker'[p].pc = "commit" => Served(upstream[p], worker'[p].cache)
      PROVE  ServedInv'
  BY Zenon, <1>1 DEF ServedInv
<1>2. ASSUME UNCHANGED <<row, tip>>
      PROVE  \A p \in Pair : Served(upstream[p], Corpus(p)')
  BY Zenon, <1>2 DEF ServedInv, Corpus
<1>3. ASSUME UNCHANGED <<upstream, rewrites, row, tip, worker>> PROVE ServedInv'
  BY Zenon, <1>1, <1>2, <1>3 DEF ServedInv
<1>4. ASSUME NEW p \in Pair, WorkerNext(p) PROVE ServedInv'
  <2>1. UNCHANGED <<upstream, rewrites>>
    BY Zenon, <1>4 DEF WorkerNext, FetchPage, CaughtUp, FetchTimesOut, EndBackoff, StopWorker,
       ValidateRoots, FailWorker, CommitPage, RefusePage, CommitFails
  <2>2. CASE ValidateRoots(p)
    <3> DEFINE leaves == apply_events(Corpus(p), worker[p].page)
    <3>1. UNCHANGED <<row, tip>> /\ worker \in [Pair -> WorkerState] /\ worker[p] \in WorkerState
      BY Zenon, <2>2 DEF ValidateRoots, corpusVars, ScrapeInv
    <3>2. \/ worker' = [worker EXCEPT ![p].pc = "failed"]
          \/ /\ worker' = [worker EXCEPT ![p].pc = "commit", ![p].cache = leaves]
             /\ Served(upstream[p], leaves)
      BY Zenon, <1>4, <2>2, Validated DEF Served, Begins
    <3> HIDE DEF leaves
    <3>3. \A q \in Pair \ {p} : worker'[q] = worker[q]
      BY Zenon, <3>1, <3>2
    <3>4. worker'[p].pc = "commit" => Served(upstream[p], worker'[p].cache)
      <4>1. CASE worker' = [worker EXCEPT ![p].pc = "failed"]
        <5>1. worker'[p].pc = "failed"
          BY Zenon, <3>1, <4>1 DEF WorkerState
        <5> QED
          BY <5>1
      <4>2. CASE /\ worker' = [worker EXCEPT ![p].pc = "commit", ![p].cache = leaves]
                 /\ Served(upstream[p], leaves)
        <5>1. worker'[p].cache = leaves
          BY Zenon, <3>1, <4>2 DEF WorkerState
        <5> QED
          BY Zenon, <4>2, <5>1
      <4> QED
        BY Zenon, <3>2, <4>1, <4>2
    <3>5. \A q \in Pair : worker'[q].pc = "commit" => Served(upstream[q], worker'[q].cache)
      BY Zenon, <3>3, <3>4 DEF ServedInv
    <3> QED
      BY Zenon, <1>1, <1>2, <2>1, <3>1, <3>5
  <2>3. CASE ~ValidateRoots(p)
    <3>1. \A q \in Pair : worker'[q].pc = "commit" => Served(upstream[q], worker'[q].cache)
      BY Zenon, <1>4, <2>3, OnlyValidationCommits DEF ServedInv
    <3>2. \A q \in Pair : Served(upstream[q], Corpus(q)')
      <4>1. CASE UNCHANGED <<row, tip>>
        BY Zenon, <1>2, <4>1
      <4>2. CASE CommitPage(p) \/ CommitFails(p)
        <5>1. PICK ps \in SUBSET {p} : Ingest(ps)
          BY Zenon, <4>2 DEF CommitPage, CommitFails
        <5>2. worker[p].pc = "commit"
          BY Zenon, <4>2 DEF CommitPage, CommitFails
        <5>3. ps \in SUBSET Pair /\ \A q \in ps : worker[q].pc = "commit"
          BY Zenon, <1>4, <5>1, <5>2
        <5> QED
          BY Zenon, <5>1, <5>3, IngestServed
      <4> QED
        BY Zenon, <1>4, <2>3, <4>1, <4>2 DEF WorkerNext, FetchPage, CaughtUp, FetchTimesOut,
           EndBackoff, StopWorker, FailWorker, RefusePage, corpusVars
    <3> QED
      BY Zenon, <1>1, <2>1, <3>1, <3>2
  <2> QED
    BY Zenon, <2>2, <2>3
<1>5. ASSUME UNCHANGED <<upstream, rewrites>>,
             worker' \in [Pair -> {NoWorker, [NoWorker EXCEPT !.pc = "page"]}],
             \A p \in Pair : Served(upstream[p], Corpus(p)')
      PROVE  ServedInv'
  <2>1. NoWorker.pc = "none" /\ [NoWorker EXCEPT !.pc = "page"].pc = "page"
    BY Zenon DEF NoWorker
  <2>2. \A p \in Pair : worker'[p].pc = "none" \/ worker'[p].pc = "page"
    BY Zenon, <1>5, <2>1
  <2>3. \A p \in Pair : worker'[p].pc # "commit"
    BY <2>2
  <2> QED
    BY Zenon, <1>1, <1>5, <2>3
<1>6. /\ NoWorkers \in [Pair -> {NoWorker, [NoWorker EXCEPT !.pc = "page"]}]
      /\ \A k : SpawnWorkers(k) \in [Pair -> {NoWorker, [NoWorker EXCEPT !.pc = "page"]}]
  BY Zenon DEF NoWorkers, SpawnWorkers
<1>7. CASE StartCycle \/ JoinChunk
  <2>1. /\ UNCHANGED <<upstream, rewrites, row, tip>>
        /\ worker' \in [Pair -> {NoWorker, [NoWorker EXCEPT !.pc = "page"]}]
    BY Zenon, <1>6, <1>7 DEF StartCycle, JoinChunk, corpusVars
  <2> QED
    BY Zenon, <1>2, <1>5, <2>1
<1>8. CASE AbortCycle \/ Crash
  <2>1. UNCHANGED <<upstream, rewrites>> /\ worker' = NoWorkers
    BY Zenon, <1>8 DEF AbortCycle, Crash
  <2>2. PICK ps \in SUBSET Committing : Ingest(ps)
    BY Zenon, <1>8 DEF AbortCycle, Crash
  <2>3. ps \in SUBSET Pair /\ \A p \in ps : worker[p].pc = "commit"
    BY Zenon, <2>2 DEF Committing
  <2>4. \A p \in Pair : Served(upstream[p], Corpus(p)')
    BY Zenon, <2>2, <2>3, IngestServed
  <2> QED
    BY Zenon, <1>5, <1>6, <2>1, <2>4
<1>9. CASE ~ScrapeNext /\ ~Crash
  <2>1. UNCHANGED <<upstream, rewrites, row, tip, worker>>
    BY Zenon, <1>9 DEF Next, vars, scrapeVars, corpusVars, Start, Adopt, Signal, Exit, Outage
  <2> QED
    BY Zenon, <1>3, <2>1
<1> QED
  BY Zenon, <1>4, <1>7, <1>8, <1>9, UpstreamServed DEF ScrapeNext, CycleNext

\* Whatever the processes were configured with, all of the corpus was written under the
\* version the database is fenced to; and it is one list the upstream has served, never parts
\* of two.  CorpusIsServed tells the first list and the present one, which are all there were
\* while the upstream has rewritten its events no more than once.
THEOREM ServedAsAWhole ==
    Spec => [](ingested \subseteq {identity} /\ (MaxRewrites <= 1 => CorpusIsServed))
<1> DEFINE Inv == ScrapeInv /\ FenceInv /\ (MaxRewrites <= 1 => ServedInv)
<1>1. Init => Inv
  <2> SUFFICES ASSUME Init PROVE FenceInv /\ ServedInv
    BY Zenon, ScrapeStart
  <2>1. FenceInv
    <3>1. \A p \in Pair : worker[p].pc = "none"
      BY Zenon DEF Init, ScrapeInit, NoWorkers, NoWorker
    <3> QED
      BY Zenon, <3>1 DEF Init, ScrapeInit, WorkersInit, FenceInv
  <2>2. \A p \in Pair : worker[p].pc # "commit"
    <3>1. \A p \in Pair : worker[p].pc = "none"
      BY Zenon DEF Init, ScrapeInit, NoWorkers, NoWorker
    <3> QED
      BY <3>1
  <2>3. ASSUME NEW p \in Pair PROVE Ones(upstream[p]) /\ Ones(Corpus(p))
    <3>1. Ones(upstream[p])
      BY Zenon, <2>3 DEF Init, ScrapeInit, Ones
    <3>2. tip[p] = LegacyEvents[p] - 1 /\ LegacyEvents[p] \in 0..MaxEvents[p] /\ MaxEvents[p] \in Nat
      BY Zenon, <2>3, EventsAssumption, IndexOfEvent DEF Init, ScrapeInit
    <3>3. ASSUME NEW n \in 1..(tip[p] + 1) PROVE row[p][n - 1].content = 1
      <4>1. n - 1 \in 0..(MaxEvents[p] - 1) /\ n - 1 < LegacyEvents[p]
        BY <3>2, <3>3
      <4>2. n - 1 \in Index
        BY Zenon, <2>3, <4>1, IndexOfEvent
      <4>3. row[p][n - 1] = [kind |-> "leaf", content |-> 1]
        BY Zenon, <2>3, <4>1, <4>2 DEF Init, ScrapeInit
      <4> QED
        BY <4>3
    <3> QED
      BY Zenon, <3>1, <3>3 DEF Ones, Corpus
  <2>4. rewrites \in Nat
    BY DEF Init, ScrapeInit
  <2> QED
    BY Zenon, <2>1, <2>2, <2>3, <2>4 DEF ServedInv, Served
<1>2. Inv /\ [Next]_vars => Inv'
  BY Zenon, ScrapeStep, FenceStep, ServedStep
<1>3. Inv => ingested \subseteq {identity} /\ (MaxRewrites <= 1 => CorpusIsServed)
  BY Zenon DEF FenceInv, ServedInv, Served, Ones, Begins, CorpusIsServed
<1> QED
  BY <1>1, <1>2, <1>3, PTL DEF Spec

-----------------------------------------------------------------------------
(* Lists that change while they are read. *)

INSTANCE FiniteSetTheorems

Distinct(list) == \A i, j \in 1..Len(list) : list[i] = list[j] => i = j

\* What has been collected is what the list begins with.
Heads(records, list) ==
    /\ Len(records) <= Len(list)
    /\ \A i \in 1..Len(records) : records[i] = list[i]

\* What a collection has and will have, if the list rests.
Seen(records, list) ==
    Range(records) \cup {list[i] : i \in (Len(records) + 1)..Len(list)}

\* The members of a sequence.
LEMMA Members ==
    ASSUME NEW T, NEW s \in Seq(T)
    PROVE  \A x : x \in Range(s) <=> \E i \in 1..Len(s) : x = s[i]
BY DEF Range

\* t is s with e put in at i.
Grown(t, s, i, e) ==
    /\ Len(t) = Len(s) + 1
    /\ \A k \in 1..Len(t) :
          (k < i => t[k] = s[k]) /\ (k = i => t[k] = e) /\ (k > i => t[k] = s[k - 1])

\* A record put into a list.
LEMMA InsertedList ==
    ASSUME NEW T, NEW s \in Seq(T), NEW i \in 1..(Len(s) + 1), NEW e \in T
    PROVE  Inserted(s, i, e) \in Seq(T) /\ Grown(Inserted(s, i, e), s, i, e)
<1> DEFINE a == SubSeq(s, 1, i - 1)
           b == SubSeq(s, i, Len(s))
           t == Inserted(s, i, e)
<1>1. a \in Seq(T) /\ Len(a) = i - 1 /\ \A k \in 1..(i - 1) : a[k] = s[k]
  OBVIOUS
<1>2. b \in Seq(T) /\ Len(b) = Len(s) - i + 1 /\ \A k \in 1..(Len(s) - i + 1) : b[k] = s[i + k - 1]
  OBVIOUS
<1>3. t = a \o <<e>> \o b
  BY DEF Inserted
<1> HIDE DEF a, b, t
<1> DEFINE d == <<e>>
           c == a \o d
<1>4. d \in Seq(T) /\ Len(d) = 1 /\ d[1] = e
  OBVIOUS
<1>5. t = c \o b
  BY <1>3
<1> HIDE DEF d
<1>6. /\ c \in Seq(T) /\ Len(c) = i /\ c[i] = e
      /\ \A k \in 1..(i - 1) : c[k] = s[k]
  <2>1. c = a \o d /\ a \in Seq(T) /\ d \in Seq(T)
    BY Zenon, <1>1, <1>4
  <2> HIDE DEF c
  <2>2. /\ c \in Seq(T) /\ Len(c) = Len(a) + Len(d)
        /\ \A k \in 1..Len(a) : c[k] = a[k]
        /\ \A k \in 1..Len(d) : c[Len(a) + k] = d[k]
    BY <2>1
  <2> QED
    BY <1>1, <1>4, <2>2
<1> HIDE DEF c
<1>7. /\ t \in Seq(T) /\ Len(t) = Len(c) + Len(b)
      /\ \A k \in 1..Len(c) : t[k] = c[k]
      /\ \A k \in 1..Len(b) : t[Len(c) + k] = b[k]
  BY <1>2, <1>5, <1>6
<1>8. Len(t) = Len(s) + 1
  BY <1>2, <1>6, <1>7
<1>9. ASSUME NEW k \in 1..Len(t)
      PROVE  (k < i => t[k] = s[k]) /\ (k = i => t[k] = e) /\ (k > i => t[k] = s[k - 1])
  <2>1. CASE k <= i
    BY <1>6, <1>7, <2>1
  <2>2. CASE k > i
    <3>1. k - i \in 1..Len(b) /\ Len(c) + (k - i) = k
      BY <1>2, <1>6, <1>8, <2>2
    <3>2. t[k] = b[k - i]
      BY Zenon, <1>7, <3>1
    <3> QED
      BY <1>2, <2>2, <3>1, <3>2
  <2> QED
    BY <2>1, <2>2
<1> QED
  BY Zenon, <1>7, <1>8, <1>9 DEF t, Grown

\* A record taken out of a list.
LEMMA RemovedList ==
    ASSUME NEW T, NEW s \in Seq(T), NEW i \in 1..Len(s)
    PROVE  LET t == Removed(s, i)
           IN  /\ t \in Seq(T) /\ Len(t) = Len(s) - 1
               /\ \A k \in 1..Len(t) : t[k] = IF k < i THEN s[k] ELSE s[k + 1]
<1> DEFINE a == SubSeq(s, 1, i - 1)
           b == SubSeq(s, i + 1, Len(s))
           t == Removed(s, i)
<1>1. a \in Seq(T) /\ Len(a) = i - 1 /\ \A k \in 1..(i - 1) : a[k] = s[k]
  OBVIOUS
<1>2. b \in Seq(T) /\ Len(b) = Len(s) - i /\ \A k \in 1..(Len(s) - i) : b[k] = s[i + k]
  OBVIOUS
<1>3. t = a \o b
  BY DEF Removed
<1> HIDE DEF a, b, t
<1>4. t \in Seq(T) /\ Len(t) = Len(s) - 1
  BY <1>1, <1>2, <1>3
<1>5. ASSUME NEW k \in 1..Len(t)
      PROVE  t[k] = IF k < i THEN s[k] ELSE s[k + 1]
  <2>1. CASE k < i
    BY <1>1, <1>2, <1>3, <1>4, <2>1
  <2>2. CASE k >= i
    <3>1. t[k] = b[k - (i - 1)]
      BY <1>1, <1>2, <1>3, <1>4, <2>2
    <3> QED
      BY <1>2, <1>4, <2>2, <3>1
  <2> QED
    BY <2>1, <2>2
<1> QED
  BY <1>4, <1>5 DEF t

\* A record put into the list leaves a collection what the list begins with, or turned into
\* one that will end with the list as it was.
LEMMA PutIn ==
    ASSUME NEW T, NEW list \in Seq(T), Distinct(list), NEW e \in T, e \notin Range(list),
           NEW i \in 1..(Len(list) + 1)
    PROVE  LET new == Inserted(list, i, e)
           IN  /\ Distinct(new)
               /\ \A records \in Seq(T) :
                     Heads(records, list) => Heads(records, new) \/ Seen(records, new) = Range(list)
<1> DEFINE new == Inserted(list, i, e)
<1>1. /\ new \in Seq(T) /\ Len(new) = Len(list) + 1
      /\ \A k \in 1..Len(new) :
            /\ (k < i => new[k] = list[k]) /\ (k = i => new[k] = e)
            /\ (k > i => new[k] = list[k - 1])
  <2>1. new \in Seq(T) /\ Grown(new, list, i, e)
    BY Zenon, InsertedList
  <2> HIDE DEF new
  <2> QED
    BY Zenon, <2>1 DEF Grown
<1> HIDE DEF new
<1>2. \A k \in 1..Len(list) : list[k] # e
  BY Zenon, Members
<1>3. Distinct(new)
  <2> SUFFICES ASSUME NEW j \in 1..Len(new), NEW k \in 1..Len(new), new[j] = new[k], j < k
               PROVE  FALSE
    BY <1>1 DEF Distinct
  <2>1. \A m, n \in 1..Len(list) : list[m] = list[n] => m = n
    BY DEF Distinct
  <2>2. CASE j < i /\ k < i
    BY <1>1, <2>1, <2>2
  <2>3. CASE j < i /\ k = i
    BY <1>1, <1>2, <2>3
  <2>4. CASE j < i /\ k > i
    <3>1. new[j] = list[j] /\ new[k] = list[k - 1] /\ j \in 1..Len(list) /\ k - 1 \in 1..Len(list)
      BY <1>1, <2>4
    <3>2. j = k - 1
      BY Zenon, <2>1, <3>1
    <3> QED
      BY <2>4, <3>2
  <2>5. CASE j = i
    BY <1>1, <1>2, <2>5
  <2>6. CASE j > i
    <3>1. /\ new[j] = list[j - 1] /\ new[k] = list[k - 1]
          /\ j - 1 \in 1..Len(list) /\ k - 1 \in 1..Len(list)
      BY <1>1, <2>6
    <3>2. j - 1 = k - 1
      BY Zenon, <2>1, <3>1
    <3> QED
      BY <3>2
  <2> QED
    BY <2>2, <2>3, <2>4, <2>5, <2>6
<1>4. ASSUME NEW records \in Seq(T), Heads(records, list), ~Heads(records, new)
      PROVE  Seen(records, new) = Range(list)
  <2> DEFINE n == Len(records)
  <2>1. n \in Nat /\ n <= Len(list) /\ \A k \in 1..n : records[k] = list[k]
    BY <1>4 DEF Heads
  <2>2. i <= n
    <3>1. PICK k \in 1..n : records[k] # new[k]
      BY <1>1, <1>4, <2>1 DEF Heads
    <3> QED
      BY <1>1, <2>1, <3>1
  <2>3. \A k \in (n + 1)..Len(new) : new[k] = list[k - 1] /\ k - 1 \in 1..Len(list)
    BY <1>1, <2>1, <2>2
  <2>4. ASSUME NEW x \in Seen(records, new) PROVE x \in Range(list)
    <3>1. CASE x \in Range(records)
      <4>1. PICK k \in 1..n : x = records[k]
        BY Zenon, <3>1, Members
      <4>2. k \in 1..Len(list) /\ x = list[k]
        BY <2>1, <4>1
      <4> QED
        BY Zenon, <4>2, Members
    <3>2. CASE x \notin Range(records)
      <4>1. PICK k \in (n + 1)..Len(new) : x = new[k]
        BY Zenon, <2>4, <3>2 DEF Seen
      <4> QED
        BY Zenon, <2>3, <4>1, Members
    <3> QED
      BY <3>1, <3>2
  <2>5. ASSUME NEW x \in Range(list) PROVE x \in Seen(records, new)
    <3>1. PICK k \in 1..Len(list) : x = list[k]
      BY Zenon, <2>5, Members
    <3>2. CASE k <= n
      <4>1. k \in 1..n /\ x = records[k]
        BY <2>1, <3>1, <3>2
      <4> QED
        BY Zenon, <4>1, Members DEF Seen
    <3>3. CASE k > n
      <4>1. k + 1 \in (n + 1)..Len(new) /\ x = new[k + 1]
        <5>1. k + 1 \in (n + 1)..Len(new) /\ k + 1 \in 1..Len(new) /\ k + 1 > i /\ (k + 1) - 1 = k
          BY <1>1, <2>1, <2>2, <3>1, <3>3
        <5> QED
          BY Zenon, <1>1, <3>1, <5>1
      <4> QED
        BY Zenon, <4>1 DEF Seen
    <3> QED
      BY <2>1, <3>2, <3>3
  <2> QED
    BY Zenon, <2>4, <2>5
<1> QED
  BY Zenon, <1>3, <1>4 DEF new

\* A record taken out of the list leaves a collection what the list begins with, or holding
\* that record and seeing no other than the list had.
LEMMA TakenOut ==
    ASSUME NEW T, NEW list \in Seq(T), Distinct(list), NEW i \in 1..Len(list)
    PROVE  LET new == Removed(list, i)
           IN  /\ Distinct(new)
               /\ \A records \in Seq(T) :
                     Heads(records, list) =>
                        \/ Heads(records, new)
                        \/ /\ Seen(records, new) \subseteq Range(list)
                           /\ \E x \in Range(records) : x \notin Range(new)
<1> DEFINE new == Removed(list, i)
<1>1. /\ new \in Seq(T) /\ Len(new) = Len(list) - 1
      /\ \A k \in 1..Len(new) : new[k] = IF k < i THEN list[k] ELSE list[k + 1]
  BY Zenon, RemovedList
<1> HIDE DEF new
<1>2. \A m, n \in 1..Len(list) : list[m] = list[n] => m = n
  BY DEF Distinct
<1>3. Distinct(new)
  <2> SUFFICES ASSUME NEW j \in 1..Len(new), NEW k \in 1..Len(new), new[j] = new[k], j < k
               PROVE  FALSE
    BY <1>1 DEF Distinct
  <2>1. CASE k < i
    BY <1>1, <1>2, <2>1
  <2>2. CASE j < i /\ k >= i
    BY <1>1, <1>2, <2>2
  <2>3. CASE j >= i
    BY <1>1, <1>2, <2>3
  <2> QED
    BY <2>1, <2>2, <2>3
<1>4. ASSUME NEW records \in Seq(T), Heads(records, list), ~Heads(records, new)
      PROVE  /\ Seen(records, new) \subseteq Range(list)
             /\ \E x \in Range(records) : x \notin Range(new)
  <2> DEFINE n == Len(records)
  <2>1. n \in Nat /\ n <= Len(list) /\ \A k \in 1..n : records[k] = list[k]
    BY <1>4 DEF Heads
  <2>2. i <= n
    <3>1. CASE n = Len(list)
      BY <3>1
    <3>2. CASE n < Len(list)
      <4>1. n <= Len(new)
        BY <1>1, <2>1, <3>2
      <4>2. PICK k \in 1..n : records[k] # new[k]
        BY <1>4, <4>1 DEF Heads
      <4> QED
        BY <1>1, <2>1, <4>1, <4>2
    <3> QED
      BY <2>1, <3>1, <3>2
  <2>3. ASSUME NEW x \in Seen(records, new) PROVE x \in Range(list)
    <3>1. CASE x \in Range(records)
      <4>1. PICK k \in 1..n : x = records[k]
        BY Zenon, <3>1, Members
      <4>2. k \in 1..Len(list) /\ x = list[k]
        BY <2>1, <4>1
      <4> QED
        BY Zenon, <4>2, Members
    <3>2. CASE x \notin Range(records)
      <4>1. PICK k \in (n + 1)..Len(new) : x = new[k]
        BY Zenon, <2>3, <3>2 DEF Seen
      <4>2. k + 1 \in 1..Len(list) /\ x = list[k + 1]
        BY <1>1, <2>1, <2>2, <4>1
      <4> QED
        BY Zenon, <4>2, Members
    <3> QED
      BY <3>1, <3>2
  <2>4. i \in 1..n /\ records[i] = list[i]
    BY <2>1, <2>2
  <2>5. records[i] \in Range(records)
    BY Zenon, <2>4, Members
  <2>6. records[i] \notin Range(new)
    <3> SUFFICES ASSUME NEW x \in Range(new), x = records[i] PROVE FALSE
      BY Zenon
    <3>1. PICK k \in 1..Len(new) : x = new[k]
      <4>1. new \in Seq(T)
        BY <1>1
      <4> QED
        BY Zenon, <4>1, Members
    <3>2. CASE k < i
      <4>1. list[k] = list[i] /\ k \in 1..Len(list)
        BY <1>1, <2>4, <3>1, <3>2
      <4> QED
        BY <1>2, <3>2, <4>1
    <3>3. CASE k >= i
      <4>1. list[k + 1] = list[i] /\ k + 1 \in 1..Len(list)
        BY <1>1, <2>4, <3>1, <3>3
      <4> QED
        BY <1>2, <3>3, <4>1
    <3> QED
      BY <3>2, <3>3
  <2> QED
    BY Zenon, <2>3, <2>5, <2>6
<1> QED
  BY Zenon, <1>3, <1>4 DEF new

\* A page that is collected.
LEMMA Collected ==
    ASSUME NEW T, NEW list \in Seq(T), NEW records \in Seq(T),
           NEW n \in Nat, Len(records) + n <= Len(list)
    PROVE  LET new == records \o SubSeq(list, Len(records) + 1, Len(records) + n)
           IN  /\ new \in Seq(T)
               /\ Range(records) \subseteq Range(new)
               /\ Seen(new, list) = Seen(records, list)
               /\ Heads(records, list) => Heads(new, list)
<1> DEFINE a == Len(records)
           page == SubSeq(list, a + 1, a + n)
           new == records \o page
<1>1. a \in Nat /\ Len(list) \in Nat
  OBVIOUS
<1>2. page \in Seq(T) /\ Len(page) = n /\ \A k \in 1..n : page[k] = list[a + k]
  BY <1>1
<1> HIDE DEF page
<1>3. /\ new \in Seq(T) /\ Len(new) = a + Len(page)
      /\ \A k \in 1..a : new[k] = records[k]
      /\ \A k \in 1..Len(page) : new[a + k] = page[k]
  BY <1>2
<1> HIDE DEF new
<1>4. \A k \in (a + 1)..(a + n) : new[k] = list[k]
  <2> TAKE k \in (a + 1)..(a + n)
  <2>1. k - a \in 1..n /\ a + (k - a) = k
    BY <1>1
  <2> QED
    BY <1>2, <1>3, <2>1
<1>5. Len(new) = a + n
  BY <1>2, <1>3
<1>6. new \in Seq(T)
  BY <1>3
<1>7. ASSUME NEW x \in Range(records) PROVE x \in Range(new)
  <2>1. PICK k \in 1..a : x = records[k]
    BY Zenon, <1>7, Members
  <2>2. k \in 1..Len(new) /\ x = new[k]
    BY <1>1, <1>3, <1>5, <2>1
  <2> QED
    BY Zenon, <1>6, <2>2, Members
<1>8. ASSUME NEW x \in Seen(new, list) PROVE x \in Seen(records, list)
  <2>1. CASE x \in Range(new)
    <3>1. PICK k \in 1..Len(new) : x = new[k]
      BY Zenon, <1>6, <2>1, Members
    <3>2. CASE k <= a
      <4>1. k \in 1..a /\ x = records[k]
        BY <1>1, <1>3, <3>1, <3>2
      <4> QED
        BY Zenon, <4>1, Members DEF Seen
    <3>3. CASE k > a
      <4>1. k \in (a + 1)..Len(list) /\ x = list[k]
        BY <1>1, <1>4, <1>5, <3>1, <3>3
      <4> QED
        BY Zenon, <4>1 DEF Seen
    <3> QED
      BY <1>1, <3>2, <3>3
  <2>2. CASE x \notin Range(new)
    <3>1. PICK k \in (Len(new) + 1)..Len(list) : x = list[k]
      BY Zenon, <1>8, <2>2 DEF Seen
    <3>2. k \in (a + 1)..Len(list)
      BY <1>1, <1>5, <3>1
    <3> QED
      BY Zenon, <3>1, <3>2 DEF Seen
  <2> QED
    BY <2>1, <2>2
<1>9. ASSUME NEW x \in Seen(records, list) PROVE x \in Seen(new, list)
  <2>1. CASE x \in Range(records)
    BY Zenon, <1>7, <2>1 DEF Seen
  <2>2. CASE x \notin Range(records)
    <3>1. PICK k \in (a + 1)..Len(list) : x = list[k]
      BY Zenon, <1>9, <2>2 DEF Seen
    <3>2. CASE k <= a + n
      <4>1. k \in 1..Len(new) /\ x = new[k]
        BY <1>1, <1>4, <1>5, <3>1, <3>2
      <4> QED
        BY Zenon, <1>6, <4>1, Members DEF Seen
    <3>3. CASE k > a + n
      <4>1. k \in (Len(new) + 1)..Len(list)
        BY <1>1, <1>5, <3>1, <3>3
      <4> QED
        BY Zenon, <3>1, <4>1 DEF Seen
    <3> QED
      BY <1>1, <3>2, <3>3
  <2> QED
    BY <2>1, <2>2
<1>10. ASSUME Heads(records, list) PROVE Heads(new, list)
  <2>1. \A k \in 1..a : records[k] = list[k]
    BY <1>10 DEF Heads
  <2> SUFFICES ASSUME NEW k \in 1..Len(new) PROVE new[k] = list[k]
    BY <1>5 DEF Heads
  <2>2. CASE k <= a
    BY <1>1, <1>3, <2>1, <2>2
  <2>3. CASE k > a
    BY <1>1, <1>4, <1>5, <2>3
  <2> QED
    BY <1>1, <2>2, <2>3
<1> QED
  BY Zenon, <1>6, <1>7, <1>8, <1>9, <1>10 DEF new, page

\* At its end a collection sees what it holds, and holds the list if it is what that begins with.
LEMMA CollectedAll ==
    ASSUME NEW T, NEW list \in Seq(T), NEW records \in Seq(T), Len(records) >= Len(list)
    PROVE  /\ Seen(records, list) = Range(records)
           /\ Heads(records, list) => Range(records) = Range(list)
<1>1. Len(records) \in Nat /\ Len(list) \in Nat
  OBVIOUS
<1>2. (Len(records) + 1)..Len(list) = {}
  BY <1>1
<1>3. Seen(records, list) = Range(records)
  BY Zenon, <1>2 DEF Seen
<1>4. ASSUME Heads(records, list) PROVE Range(records) = Range(list)
  <2>1. 1..Len(records) = 1..Len(list) /\ \A k \in 1..Len(records) : records[k] = list[k]
    BY <1>1, <1>4 DEF Heads
  <2>2. ASSUME NEW x PROVE x \in Range(records) <=> x \in Range(list)
    <3>1. x \in Range(records) <=> \E i \in 1..Len(records) : x = records[i]
      BY Zenon, Members
    <3>2. x \in Range(list) <=> \E i \in 1..Len(list) : x = list[i]
      BY Zenon, Members
    <3> QED
      BY Zenon, <2>1, <3>1, <3>2
  <2> QED
    BY Zenon, <2>2
<1> QED
  BY Zenon, <1>3, <1>4

\* Collections that match hold the same records.
LEMMA MatchingSets ==
    ASSUME NEW left \in Seq(Shield), NEW right \in Seq(Shield),
           blocked_shield_sets_match(left, right)
    PROVE  Range(left) = Range(right)
<1> DEFINE At(s, x) == {i \in DOMAIN s : s[i] = x}
<1>1. ASSUME NEW s \in Seq(Shield), NEW x \in Shield
      PROVE  Cardinality(At(s, x)) = 0 <=> x \notin Range(s)
  <2>1. DOMAIN s = 1..Len(s) /\ Len(s) \in Int /\ 1 \in Int
    OBVIOUS
  <2>2. IsFiniteSet(1..Len(s))
    BY Zenon, <2>1, FS_Interval
  <2>3. At(s, x) \subseteq 1..Len(s)
    BY Zenon, <2>1
  <2>4. IsFiniteSet(At(s, x))
    BY Zenon, <2>2, <2>3, FS_Subset
  <2>5. Cardinality(At(s, x)) = 0 <=> At(s, x) = {}
    BY Zenon, <2>4, FS_EmptySet
  <2>6. At(s, x) = {} <=> x \notin Range(s)
    BY Zenon DEF Range
  <2> QED
    BY Zenon, <2>5, <2>6
<1>2. \A x \in Shield : Cardinality(At(left, x)) = Cardinality(At(right, x))
  BY Zenon DEF blocked_shield_sets_match
<1> HIDE DEF At
<1>3. \A x \in Shield : x \in Range(left) <=> x \in Range(right)
  BY Zenon, <1>1, <1>2
<1>4. Range(left) \subseteq Shield /\ Range(right) \subseteq Shield
  BY DEF Range
<1> QED
  BY Zenon, <1>3, <1>4

-----------------------------------------------------------------------------
(* The collections of a worker. *)

ResyncPlace ==
    {"none", "page", "backoff", "compare", "commit", "caught_up", "shutdown", "failed", "exhausted"}

ResyncState ==
    [pc : ResyncPlace, size : Int, successes : Int, attempts : Int,
     first : Seq(Shield), records : Seq(Shield), round : {1, 2}]

\* While the list is read for the first time.  sets are what the list has been since the worker
\* was spawned, one after the other, m of them.
FirstPass(m, sets, list, records) ==
    \/ m >= 3
    \/ Heads(records, list)
    \/ m = 2 /\ (Seen(records, list) \in sets \/ \E x \in Range(records) : x \notin Range(list))

\* Once it has been read.
ReadOnce(m, sets, list, records) ==
    \/ m >= 3
    \/ Range(records) \in sets
    \/ m = 2 /\ \E x \in Range(records) : x \notin Range(list)

\* While it is read again.
SecondPass(m, sets, list, first, records) ==
    \/ m >= 4
    \/ Range(first) \in sets
    \/ Heads(records, list) /\ (m = 3 \/ (m = 2 /\ \E x \in Range(first) : x \notin Range(list)))
    \/ m = 3 /\ \E x \in Range(first) : x \notin Seen(records, list)

\* A worker, against what the list has been and is.
Collects(m, sets, list, w) ==
    /\ w.pc \in {"page", "backoff"} /\ w.round = 1 => FirstPass(m, sets, list, w.records)
    /\ w.pc \in {"page", "backoff"} /\ w.round = 2 => SecondPass(m, sets, list, w.first, w.records)
    /\ w.pc = "compare" => ReadOnce(m, sets, list, w.records)
    /\ w.pc = "commit" => m >= 4 \/ Range(w.records) \in sets

\* The list has been what it is.
Followed(m, sets, list, w) == w.pc # "none" => m >= 1 /\ Range(list) \in sets

\* Lists have no record twice, and a worker's collections are as far from what the list has
\* been as the changes since it was spawned allow.
BlockedInv ==
    /\ blocklist \in [Pair -> Seq(Shield)]
    /\ \A p \in Pair : Distinct(blocklist[p])
    /\ resync \in [Pair -> ResyncState]
    /\ recent \in [Pair -> Seq(SUBSET Shield)]
    /\ \A p \in Pair : Followed(Len(recent[p]), Range(recent[p]), blocklist[p], resync[p])
    /\ \A p \in Pair : Collects(Len(recent[p]), Range(recent[p]), blocklist[p], resync[p])

\* A change of the list leaves a worker's collections where they may be.
LEMMA ChangedUnderWorker ==
    ASSUME NEW m \in Nat, m >= 1, NEW sets, NEW list \in Seq(Shield), Range(list) \in sets,
           NEW w \in ResyncState, Collects(m, sets, list, w),
           NEW new \in Seq(Shield), NEW more, sets \subseteq more,
           \A records \in Seq(Shield) : Heads(records, list) =>
              \/ Heads(records, new)
              \/ Seen(records, new) = Range(list)
              \/ /\ Seen(records, new) \subseteq Range(list)
                 /\ \E x \in Range(records) : x \notin Range(new)
    PROVE  Collects(m + 1, more, new, w)
<1>1. w.records \in Seq(Shield)
  BY DEF ResyncState
<1>2. /\ (m >= 3 => m + 1 >= 3) /\ (m >= 4 => m + 1 >= 4)
      /\ (m = 1 => m + 1 = 2) /\ (m = 2 => m + 1 = 3 /\ m + 1 >= 3) /\ (m = 3 => m + 1 >= 4)
      /\ (m = 1 \/ m = 2 \/ m >= 3)
  OBVIOUS
<1>3. ASSUME FirstPass(m, sets, list, w.records) PROVE FirstPass(m + 1, more, new, w.records)
  <2>1. CASE m >= 2
    BY <2>1 DEF FirstPass
  <2>2. CASE m = 1
    <3>1. Heads(w.records, list)
      BY <1>3, <2>2 DEF FirstPass
    <3>2. \/ Heads(w.records, new)
          \/ Seen(w.records, new) = Range(list)
          \/ \E x \in Range(w.records) : x \notin Range(new)
      BY Zenon, <1>1, <3>1
    <3>3. m + 1 = 2
      BY <2>2
    <3> QED
      BY Zenon, <3>2, <3>3 DEF FirstPass
  <2> QED
    BY <2>1, <2>2
<1>4. ASSUME SecondPass(m, sets, list, w.first, w.records)
      PROVE  SecondPass(m + 1, more, new, w.first, w.records)
  <2>1. CASE m >= 3
    BY <2>1 DEF SecondPass
  <2>2. CASE Range(w.first) \in sets
    BY Zenon, <2>2 DEF SecondPass
  <2>3. CASE m < 3 /\ Range(w.first) \notin sets
    <3>1. /\ m = 2 /\ Heads(w.records, list)
          /\ \E x \in Range(w.first) : x \notin Range(list)
      <4>1. ~(m >= 4) /\ m # 3
        BY <2>3
      <4> QED
        BY Zenon, <1>4, <2>3, <4>1 DEF SecondPass
    <3>2. m + 1 = 3
      BY <3>1
    <3>3. Heads(w.records, new) \/ Seen(w.records, new) \subseteq Range(list)
      BY Zenon, <1>1, <3>1
    <3> QED
      BY Zenon, <3>1, <3>2, <3>3 DEF SecondPass
  <2> QED
    BY <2>1, <2>2, <2>3
<1>5. ASSUME ReadOnce(m, sets, list, w.records) PROVE ReadOnce(m + 1, more, new, w.records)
  <2>1. CASE m >= 2
    BY <2>1 DEF ReadOnce
  <2>2. CASE Range(w.records) \in sets
    BY Zenon, <2>2 DEF ReadOnce
  <2>3. CASE ~(m >= 2) /\ Range(w.records) \notin sets
    <3>1. ~(m >= 3) /\ m # 2
      BY <2>3
    <3> QED
      BY Zenon, <1>5, <2>3, <3>1 DEF ReadOnce
  <2> QED
    BY Zenon, <2>1, <2>2, <2>3
<1> QED
  BY Zenon, <1>2, <1>3, <1>4, <1>5 DEF Collects

\* Retries, finished pages and backoffs leave what a worker has collected alone, and end no
\* collection.
LEMMA ResyncSteps ==
    ASSUME NEW w \in ResyncState
    PROVE  \A v \in {Retry(w), PageDone(w), BackedOff(w)} :
              /\ v \in ResyncState
              /\ v.first = w.first /\ v.records = w.records /\ v.round = w.round
              /\ v.pc \in {"page", "backoff", "exhausted", "shutdown"}
<1> DEFINE Kept(v) ==
              /\ v \in ResyncState
              /\ v.first = w.first /\ v.records = w.records /\ v.round = w.round
<1>1. \A a, b \in Int : Max({a, b}) \in Int /\ Min({a, b}) \in Int
  BY MaxOfTwo, MinOfTwo
<1>2. /\ w.size \in Int /\ w.successes \in Int /\ w.attempts \in Int
      /\ w.size \div 2 \in Int /\ w.size * 2 \in Int
      /\ w.attempts + 1 \in Int /\ w.successes + 1 \in Int /\ 0 \in Int /\ 2 \in Int
  BY DEF ResyncState
<1>3. /\ on_failure(w.size) \in Int /\ Min({w.size * 2, max_size}) \in Int
      /\ Min({w.successes + 1, GROW_AFTER_SUCCESSES}) \in Int
  BY Zenon, <1>1, <1>2, SizesAreNumbers DEF on_failure, GROW_AFTER_SUCCESSES
<1>4. {"page", "backoff", "exhausted", "shutdown"} \subseteq ResyncPlace
  BY DEF ResyncPlace
<1>5. Kept(Retry(w)) /\ Retry(w).pc \in {"page", "backoff", "exhausted"}
  <2>1. CASE w.attempts + 1 < retry_budget
    <3>1. Retry(w) = [w EXCEPT !.pc = "backoff", !.attempts = w.attempts + 1]
      BY Zenon, <2>1 DEF Retry
    <3>2. Retry(w).pc = "backoff"
      BY Zenon, <3>1 DEF ResyncState
    <3> QED
      BY Zenon, <1>2, <1>4, <3>1, <3>2 DEF ResyncState
  <2>2. CASE ~(w.attempts + 1 < retry_budget) /\ on_failure(w.size) = w.size
    <3>1. Retry(w) = [w EXCEPT !.pc = "exhausted", !.successes = 0]
      BY Zenon, <2>2 DEF Retry
    <3>2. Retry(w).pc = "exhausted"
      BY Zenon, <3>1 DEF ResyncState
    <3> QED
      BY Zenon, <1>2, <1>4, <3>1, <3>2 DEF ResyncState
  <2>3. CASE ~(w.attempts + 1 < retry_budget) /\ on_failure(w.size) # w.size
    <3>1. Retry(w) = [w EXCEPT !.pc = "page", !.attempts = 0, !.successes = 0,
                               !.size = on_failure(w.size)]
      BY Zenon, <2>3 DEF Retry
    <3>2. Retry(w).pc = "page"
      BY Zenon, <3>1 DEF ResyncState
    <3> QED
      BY Zenon, <1>2, <1>3, <1>4, <3>1, <3>2 DEF ResyncState
  <2> QED
    BY Zenon, <2>1, <2>2, <2>3
<1>6. Kept(on_success(w))
  <2>1. CASE w.successes + 1 < GROW_AFTER_SUCCESSES \/ w.size = max_size
    <3>1. on_success(w) = [w EXCEPT !.successes = Min({w.successes + 1, GROW_AFTER_SUCCESSES})]
      BY Zenon, <2>1 DEF on_success
    <3> QED
      BY Zenon, <1>2, <1>3, <1>4, <3>1 DEF ResyncState
  <2>2. CASE ~(w.successes + 1 < GROW_AFTER_SUCCESSES \/ w.size = max_size)
    <3>1. on_success(w) = [w EXCEPT !.size = Min({w.size * 2, max_size}), !.successes = 0]
      BY Zenon, <2>2 DEF on_success
    <3> QED
      BY Zenon, <1>2, <1>3, <1>4, <3>1 DEF ResyncState
  <2> QED
    BY Zenon, <2>1, <2>2
<1>7. Kept(PageDone(w)) /\ PageDone(w).pc \in {"page", "shutdown"}
  <2>1. PICK pc \in {"page", "shutdown"} : PageDone(w) = [on_success(w) EXCEPT !.pc = pc, !.attempts = 0]
    BY Zenon DEF PageDone
  <2>2. PageDone(w).pc = pc
    BY Zenon, <1>6, <2>1 DEF ResyncState
  <2> QED
    BY Zenon, <1>2, <1>4, <1>6, <2>1, <2>2 DEF ResyncState
<1>8. Kept(BackedOff(w)) /\ BackedOff(w).pc \in {"page", "shutdown"}
  <2>1. PICK pc \in {"page", "shutdown"} : BackedOff(w) = [w EXCEPT !.pc = pc]
    BY Zenon DEF BackedOff
  <2>2. BackedOff(w).pc = pc
    BY Zenon, <2>1 DEF ResyncState
  <2> QED
    BY Zenon, <1>2, <1>4, <2>1, <2>2 DEF ResyncState
<1> QED
  BY Zenon, <1>5, <1>7, <1>8

\* A step of one worker.
LEMMA ResyncMoves ==
    ASSUME BlockedInv, NEW p \in Pair, resync[p].pc # "none",
           NEW w \in ResyncState, Collects(Len(recent[p]), Range(recent[p]), blocklist[p], w),
           resync' = [resync EXCEPT ![p] = w], UNCHANGED <<blocklist, recent>>
    PROVE  BlockedInv'
<1>1. resync' \in [Pair -> ResyncState] /\ \A q \in Pair : resync'[q] = IF q = p THEN w ELSE resync[q]
  BY Zenon DEF BlockedInv
<1>2. \A q \in Pair : Followed(Len(recent[q]), Range(recent[q]), blocklist[q], resync'[q])
  BY Zenon, <1>1 DEF BlockedInv, Followed
<1>3. \A q \in Pair : Collects(Len(recent[q]), Range(recent[q]), blocklist[q], resync'[q])
  BY Zenon, <1>1 DEF BlockedInv
<1> QED
  BY Zenon, <1>1, <1>2, <1>3 DEF BlockedInv

\* Retries and backoffs.
LEMMA PassGoesOn ==
    ASSUME BlockedInv, NEW p \in Pair, resync[p].pc \in {"page", "backoff"},
           NEW w \in {Retry(resync[p]), BackedOff(resync[p])},
           resync' = [resync EXCEPT ![p] = w], UNCHANGED <<blocklist, recent>>
    PROVE  BlockedInv'
<1>1. resync[p] \in ResyncState /\ resync[p].pc # "none"
  BY DEF BlockedInv
<1>2. /\ w \in ResyncState
      /\ w.first = resync[p].first /\ w.records = resync[p].records /\ w.round = resync[p].round
      /\ w.pc \in {"page", "backoff", "exhausted", "shutdown"}
  <2>1. w \in {Retry(resync[p]), PageDone(resync[p]), BackedOff(resync[p])}
    OBVIOUS
  <2> QED
    BY Zenon, <1>1, <2>1, ResyncSteps
<1>3. w.pc # "compare" /\ w.pc # "commit"
  BY <1>2
<1>4. Collects(Len(recent[p]), Range(recent[p]), blocklist[p], resync[p])
  BY Zenon DEF BlockedInv
<1>5. Collects(Len(recent[p]), Range(recent[p]), blocklist[p], w)
  BY Zenon, <1>2, <1>3, <1>4 DEF Collects
<1> QED
  BY Zenon, <1>1, <1>2, <1>5, ResyncMoves

\* A worker that stops, is done or has failed.
LEMMA PassEnds ==
    ASSUME BlockedInv, NEW p \in Pair, resync[p].pc # "none",
           NEW pc \in {"caught_up", "shutdown", "failed", "exhausted"},
           resync' = [resync EXCEPT ![p].pc = pc], UNCHANGED <<blocklist, recent>>
    PROVE  BlockedInv'
<1> DEFINE w == [resync[p] EXCEPT !.pc = pc]
<1>1. pc \in ResyncPlace /\ pc \notin {"none", "page", "backoff", "compare", "commit"}
  BY DEF ResyncPlace
<1>2. w \in ResyncState /\ w.pc = pc
  BY Zenon, <1>1 DEF BlockedInv, ResyncState
<1>3. resync' = [resync EXCEPT ![p] = w]
  BY Zenon
<1> HIDE DEF w
<1>4. Collects(Len(recent[p]), Range(recent[p]), blocklist[p], w)
  BY Zenon, <1>1, <1>2 DEF Collects
<1> QED
  BY Zenon, <1>2, <1>3, <1>4, ResyncMoves

\* A page is collected.
LEMMA CollectInv ==
    ASSUME BlockedInv, NEW p \in Pair, NEW n \in 1..max_size, CollectPage(p, n)
    PROVE  BlockedInv'
<1> DEFINE w == resync[p]
           list == blocklist[p]
           start == Len(w.records)
           new == w.records \o SubSeq(list, start + 1, start + n)
           v == [PageDone(w) EXCEPT !.records = new]
           m == Len(recent[p])
           sets == Range(recent[p])
<1>1. w \in ResyncState /\ list \in Seq(Shield) /\ Collects(m, sets, list, w)
  BY Zenon DEF BlockedInv
<1>2. /\ w.pc = "page" /\ UNCHANGED <<blocklist, recent>>
      /\ n \in 1..Min({w.size, Len(list) - start})
  BY Zenon DEF CollectPage, MayRequest
<1>3. /\ PageDone(w) \in ResyncState
      /\ PageDone(w).first = w.first /\ PageDone(w).records = w.records /\ PageDone(w).round = w.round
      /\ PageDone(w).pc \in {"page", "backoff", "exhausted", "shutdown"}
  BY Zenon, <1>1, ResyncSteps
<1>4. w.records \in Seq(Shield) /\ w.size \in Int /\ w.round \in {1, 2}
  BY Zenon, <1>1 DEF ResyncState
<1>5. n \in Nat /\ start + n <= Len(list)
  <2>1. Len(list) - start \in Int
    BY <1>1, <1>4
  <2>2. \A a, b \in Int : Min({a, b}) <= b /\ Min({a, b}) \in Int
    BY MinOfTwo
  <2>3. Min({w.size, Len(list) - start}) <= Len(list) - start /\ Min({w.size, Len(list) - start}) \in Int
    BY Zenon, <1>4, <2>1, <2>2
  <2> HIDE DEF w, list
  <2> QED
    BY <1>1, <1>2, <1>4, <2>1, <2>3
<1>6. /\ new \in Seq(Shield)
      /\ Range(w.records) \subseteq Range(new)
      /\ Seen(new, list) = Seen(w.records, list)
      /\ Heads(w.records, list) => Heads(new, list)
  BY Zenon, <1>1, <1>4, <1>5, Collected
<1>7. resync' = [resync EXCEPT ![p] = v]
  BY Zenon DEF CollectPage
<1> HIDE DEF new
<1>8. /\ v \in ResyncState
      /\ v.records = new /\ v.first = w.first /\ v.round = w.round
      /\ v.pc \in {"page", "backoff", "exhausted", "shutdown"}
  BY Zenon, <1>3, <1>6 DEF ResyncState
<1> HIDE DEF v
<1>9. v.pc # "compare" /\ v.pc # "commit" /\ w.pc \in {"page", "backoff"} /\ w.pc # "none"
  BY Zenon, <1>2, <1>8
<1>10. ASSUME FirstPass(m, sets, list, w.records) PROVE FirstPass(m, sets, list, new)
  BY Zenon, <1>6, <1>10 DEF FirstPass
<1>11. ASSUME SecondPass(m, sets, list, w.first, w.records)
       PROVE  SecondPass(m, sets, list, w.first, new)
  BY Zenon, <1>6, <1>11 DEF SecondPass
<1>12. Collects(m, sets, list, v)
  BY Zenon, <1>1, <1>8, <1>9, <1>10, <1>11 DEF Collects
<1> QED
  BY Zenon, <1>2, <1>7, <1>8, <1>9, <1>12, ResyncMoves

\* A collection ends.
LEMMA EndCollectionInv ==
    ASSUME BlockedInv, NEW p \in Pair, EndCollection(p)
    PROVE  BlockedInv'
<1> DEFINE w == resync[p]
           list == blocklist[p]
           m == Len(recent[p])
           sets == Range(recent[p])
<1>1. /\ w \in ResyncState /\ list \in Seq(Shield) /\ Collects(m, sets, list, w)
      /\ Followed(m, sets, list, w)
  BY Zenon DEF BlockedInv
<1>2. /\ w.pc = "page" /\ UNCHANGED <<blocklist, recent>> /\ Len(w.records) >= Len(list)
      /\ resync' = [resync EXCEPT ![p].attempts = 0, ![p].pc =
            IF w.round = 1 THEN "compare"
            ELSE IF blocked_shield_sets_match(w.first, w.records) THEN "commit" ELSE "failed"]
  BY Zenon DEF EndCollection, MayRequest
<1>3. w.first \in Seq(Shield) /\ w.records \in Seq(Shield) /\ w.round \in {1, 2}
  BY Zenon, <1>1 DEF ResyncState
<1>4. PICK pc \in {"compare", "commit", "failed"} :
         /\ resync' = [resync EXCEPT ![p].attempts = 0, ![p].pc = pc]
         /\ pc = "compare" => w.round = 1
         /\ pc = "commit" => w.round = 2 /\ blocked_shield_sets_match(w.first, w.records)
  BY Zenon, <1>2, <1>3
<1> DEFINE v == [w EXCEPT !.attempts = 0, !.pc = pc]
<1>5. resync' = [resync EXCEPT ![p] = v]
  BY Zenon, <1>4 DEF BlockedInv
<1>6. pc \in ResyncPlace /\ 0 \in Int /\ pc \notin {"none", "page", "backoff"}
  BY DEF ResyncPlace
<1>7. v \in ResyncState /\ v.pc = pc /\ v.records = w.records
  BY Zenon, <1>1, <1>6 DEF ResyncState
<1> HIDE DEF v
<1>8. /\ Seen(w.records, list) = Range(w.records)
      /\ Heads(w.records, list) => Range(w.records) = Range(list)
  BY Zenon, <1>1, <1>2, <1>3, CollectedAll
<1>9. Range(list) \in sets /\ w.pc # "none"
  BY Zenon, <1>1, <1>2 DEF Followed
<1>10. ASSUME pc = "compare" PROVE ReadOnce(m, sets, list, w.records)
  <2>1. FirstPass(m, sets, list, w.records)
    BY Zenon, <1>1, <1>2, <1>4, <1>10 DEF Collects
  <2> QED
    BY Zenon, <1>8, <1>9, <2>1 DEF FirstPass, ReadOnce
<1>11. ASSUME pc = "commit" PROVE m >= 4 \/ Range(w.records) \in sets
  <2>1. SecondPass(m, sets, list, w.first, w.records)
    BY Zenon, <1>1, <1>2, <1>4, <1>11 DEF Collects
  <2>2. Range(w.first) = Range(w.records)
    BY Zenon, <1>3, <1>4, <1>11, MatchingSets
  <2> QED
    BY Zenon, <1>8, <1>9, <2>1, <2>2 DEF SecondPass
<1>12. Collects(m, sets, list, v)
  BY Zenon, <1>6, <1>7, <1>10, <1>11 DEF Collects
<1> QED
  BY Zenon, <1>2, <1>5, <1>7, <1>9, <1>12, ResyncMoves

\* The first collection is compared with the table.
LEMMA CompareInv ==
    ASSUME BlockedInv, NEW p \in Pair, CompareLocal(p)
    PROVE  BlockedInv'
<1> DEFINE w == resync[p]
           list == blocklist[p]
           m == Len(recent[p])
           sets == Range(recent[p])
<1>1. w \in ResyncState /\ list \in Seq(Shield) /\ Collects(m, sets, list, w)
  BY Zenon DEF BlockedInv
<1>2. w.pc = "compare" /\ w.pc # "none" /\ UNCHANGED <<blocklist, recent>>
  BY Zenon DEF CompareLocal
<1>3. CASE blocked_shield_sets_match(w.records, Listing(blocked_shields[p]))
  <2>1. resync' = [resync EXCEPT ![p].pc = "caught_up"]
    BY Zenon, <1>3 DEF CompareLocal
  <2> QED
    BY Zenon, <1>2, <2>1, PassEnds
<1>4. CASE ~blocked_shield_sets_match(w.records, Listing(blocked_shields[p]))
  <2>1. PICK pc \in {"page", "shutdown"} :
           resync' = [resync EXCEPT ![p] = [w EXCEPT !.first = w.records, !.records = <<>>,
                                                     !.round = 2, !.pc = pc]]
    BY Zenon, <1>4 DEF CompareLocal
  <2> DEFINE v == [w EXCEPT !.first = w.records, !.records = <<>>, !.round = 2, !.pc = pc]
  <2>2. pc \in ResyncPlace /\ <<>> \in Seq(Shield) /\ 2 \in {1, 2} /\ w.records \in Seq(Shield)
    BY <1>1 DEF ResyncPlace, ResyncState
  <2>3. /\ v \in ResyncState /\ v.pc = pc /\ v.round = 2
        /\ v.first = w.records /\ v.records = <<>>
    BY Zenon, <1>1, <2>2 DEF ResyncState
  <2> HIDE DEF v
  <2>4. Heads(<<>>, list)
    BY <1>1 DEF Heads
  <2>5. ReadOnce(m, sets, list, w.records)
    BY Zenon, <1>1, <1>2 DEF Collects
  <2>6. m >= 3 => m >= 4 \/ m = 3
    <3>1. m \in Nat
      BY DEF BlockedInv
    <3> HIDE DEF m
    <3> QED
      BY <3>1
  <2>7. SecondPass(m, sets, list, w.records, <<>>)
    BY Zenon, <2>4, <2>5, <2>6 DEF ReadOnce, SecondPass
  <2>8. v.round # 1 /\ v.pc # "compare" /\ v.pc # "commit"
    BY <2>3
  <2>9. Collects(m, sets, list, v)
    BY Zenon, <2>3, <2>7, <2>8 DEF Collects
  <2> QED
    BY Zenon, <1>2, <2>1, <2>3, <2>9, ResyncMoves DEF v
<1> QED
  BY Zenon, <1>3, <1>4

\* The upstream's list changes.
LEMMA ChangeInv ==
    ASSUME BlockedInv, NEW p \in Pair, NEW new \in Seq(Shield), Distinct(new), Change(p, new),
           \A records \in Seq(Shield) : Heads(records, blocklist[p]) =>
              \/ Heads(records, new)
              \/ Seen(records, new) = Range(blocklist[p])
              \/ /\ Seen(records, new) \subseteq Range(blocklist[p])
                 /\ \E x \in Range(records) : x \notin Range(new)
    PROVE  BlockedInv'
<1> DEFINE past == IF resync[p].pc = "none" THEN recent[p] ELSE Append(recent[p], Range(new))
<1>1. /\ blocklist' = [blocklist EXCEPT ![p] = new] /\ recent' = [recent EXCEPT ![p] = past]
      /\ resync' = resync
  BY Zenon DEF Change
<1>2. Range(new) \in SUBSET Shield
  BY DEF Range
<1>3. recent[p] \in Seq(SUBSET Shield) /\ resync[p] \in ResyncState /\ blocklist[p] \in Seq(Shield)
  BY Zenon DEF BlockedInv
<1>4. past \in Seq(SUBSET Shield)
  BY <1>2, <1>3
<1>5. /\ Followed(Len(past), Range(past), new, resync[p])
      /\ Collects(Len(past), Range(past), new, resync[p])
  <2>1. CASE resync[p].pc = "none"
    <3>1. resync[p].pc \notin {"page", "backoff", "compare", "commit"}
      BY <2>1
    <3> QED
      BY Zenon, <2>1, <3>1 DEF Followed, Collects
  <2>2. CASE resync[p].pc # "none"
    <3>1. past = Append(recent[p], Range(new))
      BY Zenon, <2>2
    <3> HIDE DEF past
    <3>2. /\ Len(past) = Len(recent[p]) + 1 /\ past[Len(past)] = Range(new)
          /\ \A k \in 1..Len(recent[p]) : k \in 1..Len(past) /\ past[k] = recent[p][k]
          /\ Len(past) \in 1..Len(past) /\ Len(recent[p]) \in Nat
      BY <1>2, <1>3, <3>1
    <3>3. ASSUME NEW x \in Range(recent[p]) PROVE x \in Range(past)
      <4>1. PICK k \in 1..Len(recent[p]) : x = recent[p][k]
        BY Zenon, <1>3, <3>3, Members
      <4>2. k \in 1..Len(past) /\ x = past[k]
        BY Zenon, <3>2, <4>1
      <4> QED
        BY Zenon, <1>4, <4>2, Members
    <3>4. Range(new) \in Range(past)
      BY Zenon, <1>4, <3>2, Members
    <3>5. Len(recent[p]) >= 1 /\ Range(blocklist[p]) \in Range(recent[p])
      BY Zenon, <2>2 DEF BlockedInv, Followed
    <3>6. Len(past) >= 1
      BY <3>2
    <3>7. Collects(Len(recent[p]), Range(recent[p]), blocklist[p], resync[p])
      BY Zenon DEF BlockedInv
    <3>8. Collects(Len(recent[p]) + 1, Range(past), new, resync[p])
      BY Zenon, <1>3, <3>2, <3>3, <3>5, <3>7, ChangedUnderWorker
    <3> QED
      BY Zenon, <3>2, <3>4, <3>6, <3>8 DEF Followed
  <2> QED
    BY Zenon, <2>1, <2>2
<1> HIDE DEF past
<1>6. /\ blocklist' \in [Pair -> Seq(Shield)] /\ recent' \in [Pair -> Seq(SUBSET Shield)]
      /\ blocklist'[p] = new /\ recent'[p] = past
      /\ \A q \in Pair : q # p => blocklist'[q] = blocklist[q] /\ recent'[q] = recent[q]
  BY Zenon, <1>1, <1>4 DEF BlockedInv
<1>7. ASSUME NEW q \in Pair
      PROVE  /\ Distinct(blocklist'[q])
             /\ Followed(Len(recent'[q]), Range(recent'[q]), blocklist'[q], resync[q])
             /\ Collects(Len(recent'[q]), Range(recent'[q]), blocklist'[q], resync[q])
  <2>1. CASE q = p
    BY Zenon, <1>5, <1>6, <2>1
  <2>2. CASE q # p
    BY Zenon, <1>6, <2>2 DEF BlockedInv
  <2> QED
    BY Zenon, <2>1, <2>2
<1> QED
  BY Zenon, <1>1, <1>6, <1>7 DEF BlockedInv

\* A shield is blocked.
LEMMA BlockInv ==
    ASSUME BlockedInv, NEW p \in Pair, NEW s \in Shields[p], NEW i \in 1..(Len(blocklist[p]) + 1),
           Block(p, s, i)
    PROVE  BlockedInv'
<1>1. blocklist[p] \in Seq(Shield) /\ Distinct(blocklist[p]) /\ s \in Shield /\ s \notin Range(blocklist[p])
  BY Zenon DEF BlockedInv, Block, Shield
<1> DEFINE new == Inserted(blocklist[p], i, s)
<1>2. new \in Seq(Shield)
  BY <1>1, InsertedList
<1>3. /\ Distinct(new)
      /\ \A records \in Seq(Shield) :
            Heads(records, blocklist[p]) => Heads(records, new) \/ Seen(records, new) = Range(blocklist[p])
  BY Zenon, <1>1, PutIn
<1>4. Change(p, new)
  BY Zenon DEF Block
<1> HIDE DEF new
<1> QED
  BY Zenon, <1>2, <1>3, <1>4, ChangeInv

\* A shield is unblocked.
LEMMA UnblockInv ==
    ASSUME BlockedInv, NEW p \in Pair, NEW i \in DOMAIN blocklist[p], Unblock(p, i)
    PROVE  BlockedInv'
<1>1. blocklist[p] \in Seq(Shield) /\ Distinct(blocklist[p])
  BY Zenon DEF BlockedInv
<1>2. i \in 1..Len(blocklist[p])
  BY <1>1
<1> DEFINE new == Removed(blocklist[p], i)
<1>3. new \in Seq(Shield)
  BY Zenon, <1>1, <1>2, RemovedList
<1>4. /\ Distinct(new)
      /\ \A records \in Seq(Shield) :
            Heads(records, blocklist[p]) =>
               \/ Heads(records, new)
               \/ /\ Seen(records, new) \subseteq Range(blocklist[p])
                  /\ \E x \in Range(records) : x \notin Range(new)
  BY Zenon, <1>1, <1>2, TakenOut
<1>5. Change(p, new)
  BY Zenon DEF Unblock
<1> HIDE DEF new
<1> QED
  BY Zenon, <1>3, <1>4, <1>5, ChangeInv

\* A worker that was spawned has collected nothing, and has seen the list it starts from.
LEMMA SpawnedInv ==
    ASSUME blocklist \in [Pair -> Seq(Shield)], \A p \in Pair : Distinct(blocklist[p]),
           UNCHANGED blocklist, EndResyncs \/ \E k : SpawnResyncs(k)
    PROVE  BlockedInv'
<1> DEFINE Spawned == [NoResync EXCEPT !.pc = "page"]
<1>1. /\ NoResync \in ResyncState /\ Spawned \in ResyncState
      /\ NoResync.pc = "none" /\ Spawned.pc = "page" /\ Spawned.round = 1 /\ Spawned.records = <<>>
  <2>1. max_size \in Int /\ 0 \in Int /\ <<>> \in Seq(Shield) /\ 1 \in {1, 2}
        /\ "none" \in ResyncPlace /\ "page" \in ResyncPlace
    BY SizesAreNumbers DEF ResyncPlace
  <2> QED
    BY Zenon, <2>1 DEF NoResync, ResyncState
<1> HIDE DEF Spawned
<1>2. ASSUME NEW p \in Pair
      PROVE  \/ resync'[p] = NoResync /\ recent'[p] = <<>>
             \/ resync'[p] = Spawned /\ recent'[p] = <<Range(blocklist[p])>>
  BY Zenon, <1>2 DEF SpawnResyncs, EndResyncs, NoResyncs, Spawned
<1>3. /\ resync' = [p \in Pair |-> resync'[p]] /\ recent' = [p \in Pair |-> recent'[p]]
  BY Zenon DEF SpawnResyncs, EndResyncs, NoResyncs
<1>4. ASSUME NEW p \in Pair
      PROVE  /\ resync'[p] \in ResyncState /\ recent'[p] \in Seq(SUBSET Shield)
             /\ Followed(Len(recent'[p]), Range(recent'[p]), blocklist[p], resync'[p])
             /\ Collects(Len(recent'[p]), Range(recent'[p]), blocklist[p], resync'[p])
  <2>1. CASE resync'[p] = NoResync /\ recent'[p] = <<>>
    <3>1. recent'[p] \in Seq(SUBSET Shield)
      BY <2>1
    <3>2. resync'[p].pc = "none" /\ resync'[p].pc \notin {"page", "backoff", "compare", "commit"}
      BY <1>1, <2>1
    <3> QED
      BY Zenon, <1>1, <2>1, <3>1, <3>2 DEF Followed, Collects
  <2>2. CASE resync'[p] = Spawned /\ recent'[p] = <<Range(blocklist[p])>>
    <3> DEFINE set == Range(blocklist[p])
    <3>1. blocklist[p] \in Seq(Shield)
      BY Zenon
    <3>2. set \in SUBSET Shield
      BY <3>1 DEF Range
    <3>3. Heads(<<>>, blocklist[p])
      BY <3>1 DEF Heads
    <3> HIDE DEF set
    <3>4. <<set>> \in Seq(SUBSET Shield) /\ Len(<<set>>) = 1 /\ 1 >= 1 /\ 1 \in 1..Len(<<set>>) /\ <<set>>[1] = set
      BY <3>2
    <3>5. set \in Range(<<set>>)
      BY Zenon, <3>4, Members
    <3>6. recent'[p] = <<set>>
      BY Zenon, <2>2 DEF set
    <3>7. resync'[p].pc # "compare" /\ resync'[p].pc # "commit" /\ resync'[p].round # 2
      BY <1>1, <2>2
    <3>8. Collects(Len(recent'[p]), Range(recent'[p]), blocklist[p], resync'[p])
      BY Zenon, <1>1, <2>2, <3>3, <3>7 DEF Collects, FirstPass
    <3>9. Followed(Len(recent'[p]), Range(recent'[p]), blocklist[p], resync'[p])
      BY Zenon, <3>4, <3>5, <3>6 DEF Followed, set
    <3> QED
      BY Zenon, <1>1, <2>2, <3>4, <3>6, <3>8, <3>9
  <2> QED
    BY Zenon, <1>2, <2>1, <2>2
<1>5. resync' \in [Pair -> ResyncState] /\ recent' \in [Pair -> Seq(SUBSET Shield)]
  BY Zenon, <1>3, <1>4
<1> QED
  BY Zenon, <1>4, <1>5 DEF BlockedInv

\* The lists the upstream starts with have no record twice, and no worker runs.
LEMMA BlockedStart == Init => BlockedInv
<1> SUFFICES ASSUME Init PROVE BlockedInv
  OBVIOUS
<1>1. ASSUME NEW p \in Pair PROVE blocklist[p] \in Seq(Shield) /\ Distinct(blocklist[p])
  <2> DEFINE S == Shields[p]
             n == Cardinality(S)
  <2>1. blocklist[p] = Listing(S)
    BY Zenon DEF Init, BlockedInit
  <2>2. IsFiniteSet(S)
    BY Zenon, ShieldsAssumption
  <2>3. n \in Nat
    BY Zenon, <2>2, FS_CardinalityType
  <2>4. Bijection(1..n, S) # {}
    BY Zenon, <2>2, FS_CardinalityType DEF ExistsBijection
  <2> DEFINE g == CHOOSE f \in Bijection(1..n, S) : TRUE
  <2>5. g \in [1..n -> S] /\ IsInjective(g)
    <3>1. g \in Bijection(1..n, S)
      BY Zenon, <2>4
    <3> HIDE DEF g
    <3>2. g \in Injection(1..n, S)
      BY Zenon, <3>1 DEF Bijection
    <3> QED
      BY Zenon, <3>2 DEF Injection
  <2>6. blocklist[p] = g
    BY Zenon, <2>1 DEF Listing
  <2> HIDE DEF g, n
  <2>7. g \in [1..n -> Shield]
    BY Zenon, <2>5 DEF Shield
  <2>8. g \in Seq(Shield) /\ Len(g) = n
    BY Zenon, <2>3, <2>7, FunctionIsSequence
  <2>9. \A a, b \in 1..n : g[a] = g[b] => a = b
    BY Zenon, <2>5 DEF IsInjective
  <2> QED
    BY Zenon, <2>6, <2>8, <2>9 DEF Distinct
<1>2. blocklist \in [Pair -> Seq(Shield)]
  <2>1. blocklist = [p \in Pair |-> blocklist[p]]
    BY Zenon DEF Init, BlockedInit
  <2> QED
    BY Zenon, <1>1, <2>1
<1>3. NoResync \in ResyncState /\ NoResync.pc = "none"
  <2>1. max_size \in Int /\ 0 \in Int /\ <<>> \in Seq(Shield) /\ 1 \in {1, 2} /\ "none" \in ResyncPlace
    BY SizesAreNumbers DEF ResyncPlace
  <2> QED
    BY Zenon, <2>1 DEF NoResync, ResyncState
<1>4. /\ resync = [p \in Pair |-> NoResync] /\ recent = [p \in Pair |-> <<>>]
      /\ <<>> \in Seq(SUBSET Shield)
  BY DEF Init, BlockedInit, NoResyncs
<1>5. /\ resync \in [Pair -> ResyncState] /\ recent \in [Pair -> Seq(SUBSET Shield)]
      /\ \A p \in Pair : resync[p].pc = "none"
  BY Zenon, <1>3, <1>4
<1>6. \A p \in Pair : resync[p].pc \notin {"page", "backoff", "compare", "commit"}
  BY <1>5
<1> QED
  BY Zenon, <1>1, <1>2, <1>5, <1>6 DEF BlockedInv, Followed, Collects

\* Every step keeps the collections of the workers where they may be.
LEMMA BlockedStep == BlockedInv /\ [Next]_vars => BlockedInv'
<1> SUFFICES ASSUME BlockedInv, [Next]_vars PROVE BlockedInv'
  OBVIOUS
<1>1. ASSUME UNCHANGED <<blocklist, resync, recent>> PROVE BlockedInv'
  BY Zenon, <1>1 DEF BlockedInv
<1>2. ASSUME UNCHANGED blocklist, EndResyncs \/ \E k : SpawnResyncs(k) PROVE BlockedInv'
  BY Zenon, <1>2, SpawnedInv DEF BlockedInv
<1>3. CASE Crash
  BY Zenon, <1>2, <1>3 DEF Crash
<1>4. CASE BlockedNext
  <2>1. CASE ResyncNext
    <3>1. UNCHANGED blocklist /\ (EndResyncs \/ \E k : SpawnResyncs(k))
      BY Zenon, <2>1 DEF ResyncNext, StartResync, JoinResync, AbortResync
    <3> QED
      BY Zenon, <1>2, <3>1
  <2>2. ASSUME NEW p \in Pair, ResyncWorkerNext(p) PROVE BlockedInv'
    <3>1. ASSUME ResyncTimesOut(p) PROVE BlockedInv'
      <4>1. /\ resync[p].pc \in {"page", "backoff"} /\ UNCHANGED <<blocklist, recent>>
            /\ resync' = [resync EXCEPT ![p] = Retry(resync[p])]
        BY Zenon, <3>1 DEF ResyncTimesOut, MayRequest
      <4> QED
        BY Zenon, <4>1, PassGoesOn
    <3>2. ASSUME ResyncBackedOff(p) PROVE BlockedInv'
      <4>1. /\ resync[p].pc \in {"page", "backoff"} /\ UNCHANGED <<blocklist, recent>>
            /\ resync' = [resync EXCEPT ![p] = BackedOff(resync[p])]
        BY Zenon, <3>2 DEF ResyncBackedOff
      <4> QED
        BY Zenon, <4>1, PassGoesOn
    <3>3. ASSUME CommitReplace(p) \/ StopResync(p) \/ FailResync(p) PROVE BlockedInv'
      <4>1. /\ resync[p].pc # "none" /\ UNCHANGED <<blocklist, recent>>
            /\ \E pc \in {"caught_up", "shutdown", "failed", "exhausted"} :
                  resync' = [resync EXCEPT ![p].pc = pc]
        BY Zenon, <3>3 DEF CommitReplace, StopResync, FailResync
      <4> QED
        BY Zenon, <4>1, PassEnds
    <3> QED
      BY Zenon, <2>2, <3>1, <3>2, <3>3, CollectInv, EndCollectionInv, CompareInv DEF ResyncWorkerNext
  <2> QED
    BY Zenon, <1>4, <2>1, <2>2, BlockInv, UnblockInv DEF BlockedNext
<1>5. CASE ~BlockedNext /\ ~Crash
  <2>1. UNCHANGED blockedVars
    BY Zenon, <1>5 DEF Next, vars, Start, Adopt, Signal, Exit, Outage
  <2> QED
    BY Zenon, <1>1, <2>1 DEF blockedVars
<1> QED
  BY Zenon, <1>3, <1>4, <1>5

\* What is stored is what a worker that ends its second collection holds.
LEMMA StoredIsCollected ==
    ASSUME [Next]_vars, NEW p \in Pair, blocked_shields'[p] # blocked_shields[p]
    PROVE  resync[p].pc = "commit" /\ blocked_shields'[p] = Range(resync[p].records)
<1>1. \E ps \in SUBSET Replacing : ReplaceBlocked(ps)
  <2>1. ASSUME NEW q \in Pair, CommitReplace(q) \/ FailResync(q)
        PROVE  \E ps \in SUBSET Replacing : ReplaceBlocked(ps)
    <3>1. CASE CommitReplace(q)
      BY Zenon, <3>1 DEF CommitReplace, Replacing
    <3>2. CASE FailResync(q)
      BY Zenon, <3>2 DEF FailResync, Replacing
    <3> QED
      BY Zenon, <2>1, <3>1, <3>2
  <2>2. CASE AbortResync \/ Crash
    BY Zenon, <2>2 DEF AbortResync, Crash
  <2>3. CASE BlockedNext /\ ~AbortResync /\ ~\E q \in Pair : CommitReplace(q) \/ FailResync(q)
    <3>1. blocked_shields' = blocked_shields
      BY Zenon, <2>3 DEF BlockedNext, ResyncNext, ResyncWorkerNext, Block, Unblock, Change,
         CollectPage, EndCollection, CompareLocal, ResyncTimesOut, ResyncBackedOff, StopResync,
         StartResync, JoinResync
    <3> QED
      BY Zenon, <3>1
  <2>4. CASE ~BlockedNext /\ ~Crash
    <3>1. UNCHANGED blockedVars
      BY Zenon, <2>4 DEF Next, vars, Start, Adopt, Signal, Exit, Outage
    <3> QED
      BY Zenon, <3>1 DEF blockedVars
  <2> QED
    BY Zenon, <2>1, <2>2, <2>3, <2>4
<1>2. PICK ps \in SUBSET Replacing : ReplaceBlocked(ps)
  BY Zenon, <1>1
<1>3. p \in ps /\ blocked_shields'[p] = Range(resync[p].records)
  BY Zenon, <1>2 DEF ReplaceBlocked
<1> QED
  BY Zenon, <1>2, <1>3 DEF Replacing

\* Whatever the page sizes, faults and changes of the lists, a set is stored only if the
\* upstream's list was that set while the worker ran, so long as the list changed at most twice
\* meanwhile.
THEOREM StoredAsServed == Spec => StoredSetWasServed
<1> DEFINE Stores == \A p \in Pair : blocked_shields'[p] # blocked_shields[p] /\ Len(recent[p]) <= 3
                                       => blocked_shields'[p] \in Range(recent[p])
<1>1. BlockedInv /\ [Next]_vars => [Stores]_blockedVars
  <2> SUFFICES ASSUME BlockedInv, [Next]_vars, NEW p \in Pair,
                      blocked_shields'[p] # blocked_shields[p], Len(recent[p]) <= 3
               PROVE  blocked_shields'[p] \in Range(recent[p])
    BY Zenon
  <2>1. resync[p].pc = "commit" /\ blocked_shields'[p] = Range(resync[p].records)
    BY Zenon, StoredIsCollected
  <2>2. Len(recent[p]) >= 4 \/ Range(resync[p].records) \in Range(recent[p])
    BY Zenon, <2>1 DEF BlockedInv, Collects
  <2>3. ~(Len(recent[p]) >= 4)
    <3>1. Len(recent[p]) \in Nat
      BY DEF BlockedInv
    <3> QED
      BY <3>1
  <2> QED
    BY Zenon, <2>1, <2>2, <2>3
<1>2. Spec => []BlockedInv
  BY BlockedStart, BlockedStep, PTL DEF Spec
<1>3. Spec => [][Stores]_blockedVars
  BY <1>1, <1>2, PTL DEF Spec
<1> QED
  BY Zenon, <1>3 DEF StoredSetWasServed

=============================================================================
