------------------------- MODULE PrintPreviewProofs -------------------------
(***************************************************************************)
(* Every safety property of PrintPreview, for any number of requests, lists *)
(* of pages and documents.  The invariant relates the helper, its context   *)
(* and the dialog: while a document is rendered, what the metafile holds    *)
(* and what the dialog was shown are the pages rendered so far; while a     *)
(* frame is prepared, nothing was made for that request yet; and the        *)
(* renderer is only idle when the dialog was told how its request ended.    *)
(***************************************************************************)
EXTENDS PrintPreview, FiniteSetTheorems, SequenceTheorems, TLAPS

(***************************************************************************)
(* The order of the pages.                                                 *)
(***************************************************************************)
Rank(S, p) == Cardinality({q \in S : q < p})

\* In a finite set of numbers a smaller one has a smaller rank, so every rank
\* below the size of the set is one element's.
LEMMA Ranks ==
  ASSUME NEW n \in Nat, NEW S \in SUBSET (0..n)
  PROVE  /\ IsFiniteSet(S) /\ Cardinality(S) \in Nat
         /\ \A p \in S : Rank(S, p) \in 0..(Cardinality(S) - 1)
         /\ \A p, q \in S : Rank(S, p) < Rank(S, q) <=> p < q
         /\ \A k \in 0..(Cardinality(S) - 1) : \E p \in S : Rank(S, p) = k
<1>1. /\ IsFiniteSet(S) /\ Cardinality(S) \in Nat
      /\ \A p \in S : p \in Int
  <2>1. IsFiniteSet(0..n)
    BY FS_Interval
  <2>2. IsFiniteSet(S)
    BY <2>1, FS_Subset
  <2> QED
    BY <2>2, FS_CardinalityType
<1>2. \A p : /\ IsFiniteSet({q \in S : q < p})
             /\ Rank(S, p) \in Nat
  <2>1. SUFFICES ASSUME NEW p PROVE IsFiniteSet({q \in S : q < p}) /\ Rank(S, p) \in Nat
    OBVIOUS
  <2>2. {q \in S : q < p} \in SUBSET S
    OBVIOUS
  <2>3. IsFiniteSet({q \in S : q < p})
    BY <1>1, <2>2, FS_Subset
  <2> QED
    BY <2>3, FS_CardinalityType DEF Rank
<1>3. ASSUME NEW p \in S, NEW q \in S, p < q
      PROVE  Rank(S, p) < Rank(S, q)
  <2> DEFINE A == {x \in S : x < p}  B == {x \in S : x < q}
  <2>1. A \in SUBSET B /\ p \in B /\ p \notin A
    <3>1. \A x \in S : x < p => x < q
      BY <1>1, <1>3
    <3>2. p \in Int /\ ~(p < p)
      BY <1>1
    <3> QED
      BY <1>3, <3>1, <3>2
  <2>2. Cardinality(A) <= Cardinality(B) /\ (Cardinality(A) = Cardinality(B) => A = B)
    BY <1>2, <2>1, FS_Subset
  <2>3. Cardinality(A) = Rank(S, p) /\ Cardinality(B) = Rank(S, q)
    BY DEF Rank
  <2> QED
    BY <1>2, <2>1, <2>2, <2>3
<1>4. \A p, q \in S : Rank(S, p) < Rank(S, q) <=> p < q
  <2>1. SUFFICES ASSUME NEW p \in S, NEW q \in S PROVE Rank(S, p) < Rank(S, q) <=> p < q
    OBVIOUS
  <2>2. p \in Int /\ q \in Int /\ Rank(S, p) \in Nat /\ Rank(S, q) \in Nat
    BY <1>1, <1>2
  <2>3. CASE p < q
    BY <1>3, <2>3
  <2>4. CASE q < p
    BY <1>3, <2>2, <2>4
  <2>5. CASE p = q
    BY <2>2, <2>5
  <2> QED
    BY <2>2, <2>3, <2>4, <2>5
<1>5. ASSUME NEW p \in S
      PROVE  Rank(S, p) \in 0..(Cardinality(S) - 1)
  <2> DEFINE A == {x \in S : x < p}
  <2>1. A \in SUBSET S /\ p \in S /\ p \notin A
    BY <1>1, <1>5
  <2>2. Cardinality(A) <= Cardinality(S) /\ (Cardinality(S) = Cardinality(A) => S = A)
    BY <1>1, <2>1, FS_Subset
  <2> QED
    BY <1>1, <1>2, <2>1, <2>2 DEF Rank
<1>6. \A k \in 0..(Cardinality(S) - 1) : \E p \in S : Rank(S, p) = k
  <2> DEFINE T == 0..(Cardinality(S) - 1)
             f == [p \in S |-> Rank(S, p)]
  <2>1. f \in [S -> T]
    BY <1>5
  <2>2. \A p, q \in S : f[p] = f[q] => p = q
    BY <1>2, <1>4
  <2>3. f \in Injection(S, T)
    BY <2>1, <2>2 DEF Injection, IsInjective
  <2>4. IsFiniteSet(T) /\ Cardinality(T) = Cardinality(S)
    BY <1>1, FS_Interval
  <2>5. f \in Surjection(S, T)
    BY <2>3, <2>4, FS_Injection
  <2> QED
    BY <2>5 DEF Surjection
<1> QED
  BY <1>1, <1>4, <1>5, <1>6

LEMMA EmptyRange ==
  ASSUME NEW S, NEW s \in Seq(S)
  PROVE  s = <<>> <=> Range(s) = {}
<1>1. s = <<>> => Range(s) = {}
  BY DEF Range
<1>2. s # <<>> => 1 \in DOMAIN s
  OBVIOUS
<1>3. s # <<>> => Range(s) # {}
  BY <1>2 DEF Range
<1> QED
  BY <1>1, <1>3

LEMMA Sorting ==
  ASSUME NEW n \in Nat, NEW S \in SUBSET (0..n), NEW s, s = Ascending(S)
  PROVE  /\ s \in Seq(Nat) /\ s \in Seq(S)
         /\ Len(s) = Cardinality(S) /\ Range(s) = S
         /\ s = <<>> <=> S = {}
         /\ \A i, j \in DOMAIN s : i < j <=> s[i] < s[j]
<1>0. \A x \in S : x \in Int
  OBVIOUS
<1>1. Cardinality(S) \in Nat /\ DOMAIN s = 1..Cardinality(S)
  BY Ranks DEF Ascending
<1>2. ASSUME NEW i \in 1..Cardinality(S)
      PROVE  s[i] \in S /\ Rank(S, s[i]) = i - 1
  <2>1. i - 1 \in 0..(Cardinality(S) - 1)
    BY <1>1
  <2>2. PICK p \in S : Rank(S, p) = i - 1
    BY <2>1, Ranks
  <2>3. s[i] = CHOOSE q \in S : Rank(S, q) = i - 1
    BY DEF Ascending, Rank
  <2> QED
    BY <2>2, <2>3
<1>3. s \in Seq(S) /\ Len(s) = Cardinality(S)
  <2> DEFINE e(i) == CHOOSE p \in S : Cardinality({q \in S : q < p}) = i - 1
  <2>1. s = [i \in 1..Cardinality(S) |-> e(i)]
    BY DEF Ascending
  <2>2. \A i \in 1..Cardinality(S) : s[i] = e(i)
    BY <2>1
  <2> HIDE DEF e
  <2>3. s \in [1..Cardinality(S) -> S]
    BY <1>2, <2>1, <2>2
  <2> QED
    BY <1>1, <2>3
<1>4. \A i, j \in DOMAIN s : i < j <=> s[i] < s[j]
  <2>1. SUFFICES ASSUME NEW i \in 1..Cardinality(S), NEW j \in 1..Cardinality(S)
                 PROVE  i < j <=> s[i] < s[j]
    BY <1>1
  <2>2. Rank(S, s[i]) < Rank(S, s[j]) <=> s[i] < s[j]
    BY <1>2, Ranks
  <2>3. Rank(S, s[i]) = i - 1 /\ Rank(S, s[j]) = j - 1
    BY <1>2
  <2> QED
    BY <1>1, <2>2, <2>3
<1>5. Range(s) = S
  <2>1. Range(s) \subseteq S
    BY <1>1, <1>2 DEF Range
  <2>2. ASSUME NEW p \in S PROVE p \in Range(s)
    <3>1. Rank(S, p) \in 0..(Cardinality(S) - 1)
      BY Ranks
    <3>2. PICK i \in 1..Cardinality(S) : i - 1 = Rank(S, p)
      <4>1. Rank(S, p) + 1 \in 1..Cardinality(S) /\ (Rank(S, p) + 1) - 1 = Rank(S, p)
        BY <1>1, <3>1
      <4> QED
        BY <4>1
    <3>3. s[i] \in S /\ Rank(S, s[i]) = Rank(S, p)
      BY <1>2, <3>2
    <3>4. /\ Rank(S, s[i]) < Rank(S, p) <=> s[i] < p
          /\ Rank(S, p) < Rank(S, s[i]) <=> p < s[i]
      BY <3>3, Ranks
    <3>5. s[i] = p
      <4>1. s[i] \in Int /\ p \in Int
        BY <1>0, <3>3
      <4>2. ~(Rank(S, s[i]) < Rank(S, p)) /\ ~(Rank(S, p) < Rank(S, s[i]))
        BY <1>1, <3>1, <3>3
      <4> QED
        BY <3>4, <4>1, <4>2
    <3> QED
      BY <1>1, <3>5 DEF Range
  <2> QED
    BY <2>1, <2>2
<1>6. s \in Seq(Nat)
  <2>1. S \subseteq Nat
    OBVIOUS
  <2> QED
    BY <1>3, <2>1, SeqMonotonic
<1>7. s = <<>> <=> S = {}
  BY <1>3, <1>5, EmptyRange
<1> QED
  BY <1>3, <1>4, <1>5, <1>6, <1>7

\* Pages rs, the first n of them print-ready, for a request of the pages asked.
Exactly(rs, n, asked, total, drafts) ==
  /\ rs \in Seq(Nat) /\ n \in 1..Len(rs)
  /\ \A i, j \in 1..Len(rs) : i # j => rs[i] # rs[j]
  /\ \A i, j \in 1..n : i < j => rs[i] < rs[j]
  /\ {rs[i] : i \in 1..n} = Wanted(asked, total)
  /\ drafts => {rs[i] : i \in 1..Len(rs)} = 0..(total - 1)

LEMMA PagesAreExact ==
  ASSUME NEW asked \in Seq(Nat), NEW total \in Nat \ {0}, NEW drafts \in BOOLEAN
  PROVE  Exactly(PagesToRender(asked, total, drafts), ReadyCount(asked, total),
                 asked, total, drafts)
<1> DEFINE S == {p \in Range(asked) : p < total}
           v == Valid(asked, total)
           all == All(total)
           rest == Ascending(Range(all) \ Range(v))
<1>1. S \in SUBSET (0..total)
  BY RangeOfSeq
<1>2. /\ v \in Seq(Nat) /\ v \in Seq(S) /\ Range(v) = S
      /\ v = <<>> <=> S = {}
      /\ \A i, j \in DOMAIN v : i < j <=> v[i] < v[j]
  <2>1. v = Ascending(S)
    BY DEF Valid
  <2> HIDE DEF v, S
  <2>2. /\ v \in Seq(Nat) /\ v \in Seq(S) /\ Range(v) = S
        /\ \A i, j \in DOMAIN v : i < j <=> v[i] < v[j]
    BY <1>1, <2>1, Sorting
  <2>3. v = <<>> <=> S = {}
    BY <2>2, EmptyRange
  <2> QED
    BY <2>2, <2>3
<1>3. /\ all \in Seq(Nat) /\ Len(all) = total /\ \A i \in 1..total : all[i] = i - 1
      /\ Range(all) = 0..(total - 1)
  <2>1. all = [i \in 1..total |-> i - 1]
    BY DEF All
  <2>2. \A i \in 1..total : i - 1 \in Nat
    OBVIOUS
  <2>3. all \in Seq(Nat) /\ Len(all) = total /\ DOMAIN all = 1..total
    BY <2>1, <2>2
  <2>4. \A i \in 1..total : all[i] = i - 1
    BY <2>1
  <2>5. Range(all) = {i - 1 : i \in 1..total}
    BY <2>3, <2>4 DEF Range
  <2>6. ASSUME NEW x \in 0..(total - 1) PROVE x \in Range(all)
    <3>1. x + 1 \in 1..total /\ (x + 1) - 1 = x
      OBVIOUS
    <3> QED
      BY <2>5, <3>1
  <2>7. Range(all) \subseteq 0..(total - 1)
    BY <2>5
  <2> QED
    BY <2>3, <2>4, <2>6, <2>7
<1>4. Wanted(asked, total) = IF S = {} THEN 0..(total - 1) ELSE S
  BY DEF Wanted
<1>5. /\ ReadyCount(asked, total) = IF v = <<>> THEN total ELSE Len(v)
      /\ PagesToRender(asked, total, drafts) =
           IF v = <<>> THEN all ELSE IF drafts THEN v \o rest ELSE v
  BY DEF ReadyCount, PagesToRender
<1>6. {all[i] : i \in 1..total} = 0..(total - 1)
  BY <1>3 DEF Range
<1>7. /\ rest \in Seq(Nat) /\ Range(rest) = (0..(total - 1)) \ S
      /\ \A i, j \in DOMAIN rest : i < j <=> rest[i] < rest[j]
  <2>1. (0..(total - 1)) \ S \in SUBSET (0..total)
    OBVIOUS
  <2>2. rest = Ascending((0..(total - 1)) \ S)
    BY <1>2, <1>3
  <2> HIDE DEF rest, S, all, v
  <2> DEFINE R == (0..(total - 1)) \ S
  <2> HIDE DEF R
  <2>3. R \in SUBSET (0..total) /\ rest = Ascending(R)
    BY <2>1, <2>2 DEF R
  <2>4. /\ rest \in Seq(Nat) /\ Range(rest) = R
        /\ \A i, j \in DOMAIN rest : i < j <=> rest[i] < rest[j]
    BY <2>3, Sorting
  <2> QED
    BY <2>4 DEF R
<1> HIDE DEF S, v, all, rest
<1>8. CASE v = <<>>
  <2>1. Exactly(all, total, asked, total, drafts)
    <3>1. \A i, j \in 1..Len(all) : i # j => all[i] # all[j]
      BY <1>3
    <3>2. \A i, j \in 1..total : i < j => all[i] < all[j]
      BY <1>3
    <3>3. Wanted(asked, total) = 0..(total - 1)
      BY <1>2, <1>4, <1>8
    <3> QED
      BY <1>3, <1>6, <3>1, <3>2, <3>3 DEF Exactly
  <2> QED
    BY <1>5, <1>8, <2>1
<1>9. ASSUME v # <<>>
      PROVE  /\ Len(v) \in Nat \ {0} /\ DOMAIN v = 1..Len(v)
             /\ {v[i] : i \in 1..Len(v)} = Wanted(asked, total) /\ Wanted(asked, total) = S
             /\ \A i, j \in 1..Len(v) : i # j => v[i] # v[j]
             /\ \A i, j \in 1..Len(v) : i < j => v[i] < v[j]
  <2>1. Len(v) \in Nat \ {0} /\ DOMAIN v = 1..Len(v)
    BY <1>2, <1>9
  <2>2. {v[i] : i \in 1..Len(v)} = S /\ Wanted(asked, total) = S
    BY <1>2, <1>4, <1>9, <2>1 DEF Range
  <2>3. \A i, j \in 1..Len(v) : i < j => v[i] < v[j]
    BY <1>2, <2>1
  <2>4. \A i \in 1..Len(v) : v[i] \in Nat
    BY <1>2, <2>1
  <2>5. \A i, j \in 1..Len(v) : i # j => v[i] # v[j]
    BY <2>1, <2>3, <2>4
  <2> QED
    BY <2>1, <2>2, <2>3, <2>5
<1>10. CASE v # <<>> /\ ~drafts
  <2>1. Exactly(v, Len(v), asked, total, drafts)
    BY <1>2, <1>9, <1>10 DEF Exactly
  <2> QED
    BY <1>5, <1>10, <2>1
<1>11. CASE v # <<>> /\ drafts
  <2> DEFINE rs == v \o rest
  <2>1. /\ rs \in Seq(Nat) /\ Len(rs) = Len(v) + Len(rest)
        /\ \A i \in 1..Len(v) + Len(rest) : rs[i] = IF i <= Len(v) THEN v[i] ELSE rest[i - Len(v)]
    BY <1>2, <1>7, ConcatProperties
  <2>2. /\ Len(rest) \in Nat /\ DOMAIN rest = 1..Len(rest)
        /\ \A i \in 1..Len(rest) : rest[i] \in Nat /\ rest[i] \notin S
        /\ \A i, j \in 1..Len(rest) : i # j => rest[i] # rest[j]
    <3>1. Len(rest) \in Nat /\ DOMAIN rest = 1..Len(rest)
      BY <1>7
    <3>2. \A i \in 1..Len(rest) : rest[i] \in Nat /\ rest[i] \in Range(rest)
      BY <1>7, <3>1 DEF Range
    <3>3. \A i \in 1..Len(rest) : rest[i] \notin S
      BY <1>7, <3>2
    <3>4. \A i, j \in 1..Len(rest) : i # j => rest[i] # rest[j]
      BY <1>7, <3>1, <3>2
    <3> QED
      BY <3>1, <3>2, <3>3, <3>4
  <2>3. Range(rs) = 0..(total - 1)
    <3>1. Range(rs) = Range(v) \cup Range(rest)
      BY <1>2, <1>7, RangeConcatenation
    <3>2. S \subseteq 0..(total - 1)
      BY <1>1 DEF S
    <3> QED
      BY <1>2, <1>7, <3>1, <3>2
  <2>4. \A i \in 1..Len(v) : rs[i] = v[i] /\ i \in 1..Len(rs)
    BY <1>9, <1>11, <2>1, <2>2
  <2>5. \A i \in 1..Len(rs) : \/ i \in 1..Len(v) /\ rs[i] = v[i] /\ rs[i] \in S
                              \/ i - Len(v) \in 1..Len(rest) /\ rs[i] = rest[i - Len(v)]
                                 /\ rs[i] \notin S
    BY <1>9, <1>11, <2>1, <2>2
  <2> HIDE DEF rs
  <2>6. \A i, j \in 1..Len(rs) : i # j => rs[i] # rs[j]
    <3>1. SUFFICES ASSUME NEW i \in 1..Len(rs), NEW j \in 1..Len(rs), rs[i] = rs[j]
                   PROVE  i = j
      OBVIOUS
    <3>2. CASE rs[i] \in S
      BY <1>9, <1>11, <2>5, <3>1, <3>2
    <3>3. CASE rs[i] \notin S
      <4>1. i - Len(v) = j - Len(v)
        BY <2>2, <2>5, <3>1, <3>3
      <4> QED
        BY <1>9, <1>11, <4>1
    <3> QED
      BY <3>2, <3>3
  <2>7. \A i, j \in 1..Len(v) : i < j => rs[i] < rs[j]
    BY <1>9, <1>11, <2>4
  <2>8. {rs[i] : i \in 1..Len(v)} = Wanted(asked, total)
    BY <1>9, <1>11, <2>4
  <2>9. {rs[i] : i \in 1..Len(rs)} = 0..(total - 1)
    <3>1. DOMAIN rs = 1..Len(rs)
      BY <2>1
    <3> QED
      BY <2>3, <3>1 DEF Range
  <2>10. Exactly(rs, Len(v), asked, total, drafts)
    BY <1>9, <1>11, <2>1, <2>2, <2>6, <2>7, <2>8, <2>9 DEF Exactly
  <2> QED
    BY <1>5, <1>11, <2>10 DEF rs
<1> QED
  BY <1>8, <1>10, <1>11

(***************************************************************************)
(* The invariant, of a helper h, a context c and a browser w.              *)
(***************************************************************************)
Helpers == [params : Requests, prep : {"none", "loading", "loaded", "ready"}, for : 0..MaxRequests,
            reset : BOOLEAN, sent : BOOLEAN, loading : BOOLEAN,
            closure : {"none", "show", "request"}, delayed : BOOLEAN, waits : BOOLEAN,
            at : {"idle", "create", "render", "check", "crashed"}]
Contexts == [state : {"uninitialized", "initialized", "rendering"}, frame : BOOLEAN,
             source : Sources, drafts : BOOLEAN, pages : Seq(Nat), index : Nat, ready : Nat,
             total : Nat, metafile : Seq(Nat)]
Answers == {"none", "ready", "failed", "cancelled", "dropped"}
Browsers == [open : BOOLEAN, modifiable : BOOLEAN, latest : Nat, shows : Nat, asked : BOOLEAN,
             answer : Answers, ready : [pages : Seq(Nat), asked : Seq(Nat), total : Nat],
             shown : Seq(Nat), all : BOOLEAN]

Types(h, c, w) ==
  h \in Helpers /\ c \in Contexts /\ w \in Browsers /\ c.index \in 0..Len(c.pages)

\* What DocumentIsExact says of the dialog.
Exact(w) ==
  LET ready == w.ready  shown == w.shown IN
  /\ Range(ready.pages) = Wanted(ready.asked, ready.total)
  /\ \A i, j \in DOMAIN ready.pages : i < j => ready.pages[i] < ready.pages[j]
  /\ Cardinality(Range(shown)) = Len(shown)
  /\ shown # <<>> /\ ready.total > 0 => IsPrefix(ready.pages, shown)
  /\ shown # <<>> /\ w.all => Range(shown) = 0..(ready.total - 1)

\* Nothing has been made for the present request.
Fresh(h, c, w) ==
  ~h.sent /\ c.metafile = <<>> /\ w.shown = <<>> /\ w.ready = NotReady /\ ~w.all

\* In the loop of CreatePreviewDocument: the metafile and what the dialog was shown
\* are the pages rendered so far.
Rendering(h, c, w) ==
  /\ Exactly(c.pages, c.ready, h.params.pages, c.total, c.drafts)
  /\ c.total > 0
  /\ h.at = "render" => c.index < Len(c.pages)
  /\ h.sent <=> c.index > c.ready \/ (c.index = c.ready /\ h.at = "render")
  /\ ~h.sent => c.metafile = SubSeq(c.pages, 1, c.index) /\ w.ready = NotReady
  /\ h.sent => /\ w.ready = [pages |-> SubSeq(c.pages, 1, c.ready), asked |-> h.params.pages,
                            total |-> c.total]
               /\ w.answer # "none"
  /\ w.shown = IF c.source = "page" /\ c.drafts THEN SubSeq(c.pages, 1, c.index) ELSE <<>>
  /\ ~w.all

\* A script's preview that is still to be shown belongs to the script that waits.
Delayed(h, w) == h.delayed => h.waits /\ w.shows = 0

Consistent(h, c, w) ==
  /\ Types(h, c, w)
  /\ c.state = "rendering" <=> h.at \in {"render", "check"}
  /\ h.at \in {"render", "check"} => h.prep = "none" /\ Rendering(h, c, w)
  /\ h.prep # "none" => Fresh(h, c, w)
  /\ h.at = "create" => h.prep # "none" /\ h.for = h.params.id
  /\ h.prep \in {"loading", "loaded"} /\ ~h.reset => h.for = h.params.id
  /\ h.at = "idle" /\ h.prep = "none" => w.answer # "none"
  /\ Delayed(h, w)
  /\ Exact(w)

Counts ==
  /\ loops \in [inbox : Seq(Requests), posted : 0..MaxStarts]
  /\ used \in [requests : 0..MaxRequests, starts : 0..MaxStarts, loads : Nat, faults : Nat]
  /\ loops.posted <= used.starts

IInv == Consistent(helper, context, browser) /\ Counts

Holds(b) == Consistent(b.helper, b.context, b.browser)

(***************************************************************************)
(* What the helpers of the module leave behind.                            *)
(***************************************************************************)
LEMMA RequestTypes ==
  /\ NoRequest \in Requests
  /\ \A r \in Requests : r.id \in 0..MaxRequests /\ r.pages \in Seq(Nat) /\ r.drafts \in BOOLEAN
<1>1. 0 \in 0..MaxRequests /\ <<>> \in Seq(Nat)
  BY PreviewAssumption
<1> QED
  BY <1>1, PreviewAssumption DEF Requests, NoRequest

LEMMA NothingIsExact ==
  ASSUME NEW w, w.ready = NotReady, w.shown = <<>>
  PROVE  Exact(w)
<1>1. w.ready.pages = <<>> /\ w.ready.asked = <<>> /\ w.ready.total = 0
  BY DEF NotReady
<1>2. Range(<<>>) = {}
  BY DEF Range
<1>3. Wanted(<<>>, 0) = {}
  BY <1>2 DEF Wanted
<1>4. Cardinality({}) = 0 /\ Len(<<>>) = 0
  BY FS_EmptySet
<1> QED
  BY <1>1, <1>2, <1>3, <1>4 DEF Exact

\* The end of a preview, whatever it was about.
LEMMA EndHolds ==
  ASSUME NEW h, NEW c, NEW w, Types(h, c, w), Delayed(h, w), Exact(w),
         NEW b, b.helper = h, b.context = c, b.browser = w,
         NEW answer \in Answers \ {"none"}, NEW e, e = EndPreview(b, answer)
  PROVE  Holds(e) /\ e.browser.shows = w.shows
<1>1. /\ e.helper = Released(h) /\ e.context = Cleared(c)
      /\ e.browser = [w EXCEPT !.answer = answer]
  BY DEF EndPreview
<1>2. Released(h) = [h EXCEPT !.params = NoRequest, !.prep = "none", !.for = 0, !.at = "idle"]
  BY DEF Released
<1>3. /\ e.helper \in Helpers /\ e.helper.at = "idle" /\ e.helper.prep = "none"
      /\ e.helper.delayed = h.delayed /\ e.helper.waits = h.waits
  <2>1. 0 \in 0..MaxRequests
    BY PreviewAssumption
  <2>2. h \in Helpers /\ NoRequest \in Requests
    BY RequestTypes DEF Types
  <2>3. Released(h) \in Helpers
    BY <1>2, <2>1, <2>2 DEF Helpers
  <2>4. /\ Released(h).at = "idle" /\ Released(h).prep = "none"
        /\ Released(h).delayed = h.delayed /\ Released(h).waits = h.waits
    BY <1>2, <2>2 DEF Helpers
  <2> QED
    BY <1>1, <2>3, <2>4
<1>4. /\ e.context \in Contexts /\ e.context.state = "initialized"
      /\ e.context.index = 0 /\ e.context.pages = <<>>
  <2>1. <<>> \in Seq(Nat)
    OBVIOUS
  <2>2. c \in Contexts
    BY DEF Types
  <2>3. /\ Cleared(c) \in Contexts /\ Cleared(c).state = "initialized"
        /\ Cleared(c).index = 0 /\ Cleared(c).pages = <<>>
    BY <2>1, <2>2 DEF Cleared, Contexts
  <2> QED
    BY <1>1, <2>3
<1>5. /\ e.browser \in Browsers /\ e.browser.answer # "none" /\ e.browser.shows = w.shows
      /\ e.browser.ready = w.ready /\ e.browser.shown = w.shown /\ e.browser.all = w.all
  BY <1>1 DEF Types, Browsers
<1>6. Exact(e.browser)
  BY <1>5 DEF Exact
<1>7. 0 \in 0..Len(<<>>)
  OBVIOUS
<1>8. Types(e.helper, e.context, e.browser)
  BY <1>3, <1>4, <1>5, <1>7 DEF Types
<1>9. Delayed(e.helper, e.browser)
  BY <1>3, <1>5 DEF Delayed
<1> QED
  BY <1>3, <1>4, <1>5, <1>6, <1>8, <1>9 DEF Holds, Consistent

\* The render thread has taken up a request, and nothing is made for it yet.
Taken(h, c, w) ==
  /\ Types(h, c, w) /\ Delayed(h, w) /\ Fresh(h, c, w)
  /\ h.at = "idle" /\ c.state # "rendering"

LEMMA PrepareHolds ==
  ASSUME NEW h, NEW c, NEW w, Taken(h, c, w),
         NEW b, DOMAIN b = {"helper", "context", "browser"},
         b.helper = h, b.context = c, b.browser = w, NEW e, e = PrepareFrame(b)
  PROVE  Holds(e) /\ e.browser.shows = w.shows
<1> DEFINE r == h.params
<1>1. b.helper = h /\ b.context = c /\ b.browser = w /\ b.helper.params = r
  OBVIOUS
<1>2. r \in Requests /\ r.id \in 0..MaxRequests /\ Exact(w)
  BY NothingIsExact, RequestTypes DEF Taken, Types, Helpers, Fresh
<1>3. CASE CheckForCancel(r)
  <2> DEFINE h1 == [h EXCEPT !.reset = FALSE]
           b1 == [b EXCEPT !.helper.reset = FALSE]
  <2>1. b1.helper = h1 /\ b1.context = c /\ b1.browser = w
    OBVIOUS
  <2>2. e = EndPreview(b1, "cancelled")
    BY <1>1, <1>3 DEF PrepareFrame, Canceled
  <2>3. Types(h1, c, w) /\ Delayed(h1, w)
    BY DEF Taken, Types, Helpers, Delayed
  <2>4. "cancelled" \in Answers \ {"none"}
    BY DEF Answers
  <2> HIDE DEF b1, h1
  <2> QED
    BY <1>2, <2>1, <2>2, <2>3, <2>4, EndHolds
<1>4. CASE ~CheckForCancel(r) /\ h.prep = "loading"
  <2> DEFINE h1 == [h EXCEPT !.reset = TRUE]
  <2>1. e = [b EXCEPT !.helper.reset = TRUE]
    BY <1>1, <1>4 DEF PrepareFrame
  <2>2. e.helper = h1 /\ e.context = c /\ e.browser = w
    BY <2>1
  <2>3. Types(h1, c, w) /\ Delayed(h1, w) /\ Fresh(h1, c, w) /\ h1.prep = "loading" /\ h1.at = "idle" /\ h1.reset
    BY <1>4 DEF Taken, Types, Helpers, Delayed, Fresh
  <2> QED
    BY <1>2, <2>2, <2>3 DEF Holds, Consistent, Taken
<1>5. CASE ~CheckForCancel(r) /\ h.prep # "loading"
  <2> DEFINE h1 == [h EXCEPT !.reset = FALSE, !.for = r.id,
                             !.prep = IF r.selection THEN "loading" ELSE "ready",
                             !.at = IF r.selection THEN "idle" ELSE "create"]
  <2>1. e = [b EXCEPT !.helper.reset = FALSE, !.helper.for = r.id,
                      !.helper.prep = IF r.selection THEN "loading" ELSE "ready",
                      !.helper.at = IF r.selection THEN "idle" ELSE "create"]
    BY <1>1, <1>5 DEF PrepareFrame
  <2>2. e.helper = h1 /\ e.context = c /\ e.browser = w
    BY <2>1
  <2>3. /\ Types(h1, c, w) /\ Delayed(h1, w) /\ Fresh(h1, c, w) /\ h1.prep # "none"
        /\ h1.at \in {"idle", "create"} /\ h1.for = h1.params.id
    BY <1>2 DEF Taken, Types, Helpers, Delayed, Fresh
  <2> QED
    BY <1>2, <2>2, <2>3 DEF Holds, Consistent, Taken
<1> QED
  BY <1>3, <1>4, <1>5

(***************************************************************************)
(* The rendered pages.                                                     *)
(***************************************************************************)
LEMMA FirstPages ==
  ASSUME NEW rs \in Seq(Nat), NEW k \in 0..Len(rs), NEW s, s = SubSeq(rs, 1, k)
  PROVE  /\ s \in Seq(Nat) /\ Len(s) = k /\ DOMAIN s = 1..k
         /\ \A i \in 1..k : s[i] = rs[i]
         /\ Range(s) = {rs[i] : i \in 1..k}
<1>1. k \in Int /\ \A i \in 1..k : rs[i] \in Nat
  OBVIOUS
<1>2. /\ s \in Seq(Nat) /\ Len(s) = IF 1 <= k THEN k - 1 + 1 ELSE 0
      /\ \A i \in 1..(k - 1 + 1) : s[i] = rs[1 + i - 1]
  BY <1>1, SubSeqProperties
<1>3. s \in Seq(Nat) /\ Len(s) = k /\ DOMAIN s = 1..k /\ \A i \in 1..k : s[i] = rs[i]
  BY <1>1, <1>2
<1> QED
  BY <1>3 DEF Range

LEMMA OneMorePage ==
  ASSUME NEW rs \in Seq(Nat), NEW k \in 0..Len(rs), k < Len(rs)
  PROVE  /\ k + 1 \in 1..Len(rs) /\ rs[k + 1] \in Nat
         /\ SubSeq(rs, 1, k + 1) = Append(SubSeq(rs, 1, k), rs[k + 1])
<1> DEFINE s == SubSeq(rs, 1, k)  t == SubSeq(rs, 1, k + 1)
<1>1. k + 1 \in 1..Len(rs) /\ k + 1 \in 0..Len(rs) /\ rs[k + 1] \in Nat
  OBVIOUS
<1>2. s \in Seq(Nat) /\ Len(s) = k /\ \A i \in 1..k : s[i] = rs[i]
  BY FirstPages
<1>3. t \in Seq(Nat) /\ Len(t) = k + 1 /\ \A i \in 1..(k + 1) : t[i] = rs[i]
  BY <1>1, FirstPages
<1> HIDE DEF s, t
<1>4. t = Append(s, rs[k + 1])
  <2> DEFINE a == Append(s, rs[k + 1])
  <2>1. /\ a \in Seq(Nat) /\ Len(a) = k + 1
        /\ \A i \in 1..k : a[i] = rs[i]
        /\ a[k + 1] = rs[k + 1]
    BY <1>1, <1>2, AppendProperties
  <2>2. \A i \in 1..(k + 1) : i \in 1..k \/ i = k + 1
    OBVIOUS
  <2> HIDE DEF a
  <2>3. \A i \in 1..Len(t) : t[i] = a[i]
    BY <1>3, <2>1, <2>2
  <2>4. t = a
    BY <1>3, <2>1, <2>3, SeqEqual
  <2> QED
    BY <2>4 DEF a
<1> QED
  BY <1>1, <1>4 DEF s, t

\* At any point of the rendering the dialog's documents are exact.
LEMMA RenderedIsExact ==
  ASSUME NEW rs, NEW n, NEW asked, NEW total \in Nat, total > 0, NEW drafts,
         Exactly(rs, n, asked, total, drafts), NEW k \in 0..Len(rs), NEW w,
         w.shown = <<>> \/ (drafts /\ w.shown = SubSeq(rs, 1, k)),
         \/ w.ready = NotReady /\ ~w.all
         \/ /\ w.ready = [pages |-> SubSeq(rs, 1, n), asked |-> asked, total |-> total]
            /\ n <= k /\ (w.all => k = Len(rs))
  PROVE  Exact(w)
<1>1. /\ rs \in Seq(Nat) /\ Len(rs) \in Nat /\ n \in 0..Len(rs) /\ n \in 1..Len(rs)
      /\ \A i, j \in 1..Len(rs) : i # j => rs[i] # rs[j]
      /\ \A i \in 1..k : i \in 1..Len(rs)
      /\ n <= k => \A i \in 1..n : i \in 1..k
  <2>1. rs \in Seq(Nat) /\ n \in 1..Len(rs) /\ \A i, j \in 1..Len(rs) : i # j => rs[i] # rs[j]
    BY DEF Exactly
  <2>2. Len(rs) \in Nat
    BY <2>1
  <2> QED
    BY <2>1, <2>2
<1> DEFINE r == SubSeq(rs, 1, n)  s == SubSeq(rs, 1, k)
<1>2. /\ r \in Seq(Nat) /\ Len(r) = n /\ DOMAIN r = 1..n /\ \A i \in 1..n : r[i] = rs[i]
      /\ Range(r) = {rs[i] : i \in 1..n}
  <2>1. r = SubSeq(rs, 1, n) /\ rs \in Seq(Nat) /\ n \in 0..Len(rs)
    BY <1>1
  <2> HIDE DEF r
  <2>2. r \in Seq(Nat) /\ Len(r) = n /\ DOMAIN r = 1..n /\ \A i \in 1..n : r[i] = rs[i]
    BY ONLY <2>1, FirstPages
  <2>3. Range(r) = {rs[i] : i \in 1..n}
    BY ONLY <2>2 DEF Range
  <2> QED
    BY <2>2, <2>3
<1>3. /\ s \in Seq(Nat) /\ Len(s) = k /\ DOMAIN s = 1..k /\ \A i \in 1..k : s[i] = rs[i]
      /\ Range(s) = {rs[i] : i \in 1..k}
  <2>1. s = SubSeq(rs, 1, k) /\ rs \in Seq(Nat) /\ k \in 0..Len(rs)
    BY <1>1
  <2> HIDE DEF s
  <2>2. s \in Seq(Nat) /\ Len(s) = k /\ DOMAIN s = 1..k /\ \A i \in 1..k : s[i] = rs[i]
    BY ONLY <2>1, FirstPages
  <2>3. Range(s) = {rs[i] : i \in 1..k}
    BY ONLY <2>2 DEF Range
  <2> QED
    BY <2>2, <2>3
<1>4. /\ Range(r) = Wanted(asked, total)
      /\ \A i, j \in DOMAIN r : i < j => r[i] < r[j]
  <2>1. /\ \A i, j \in 1..n : i < j => rs[i] < rs[j]
        /\ {rs[i] : i \in 1..n} = Wanted(asked, total)
    BY DEF Exactly
  <2> HIDE DEF r
  <2> QED
    BY <1>2, <2>1
<1>5. Cardinality(Range(s)) = Len(s)
  <2> HIDE DEF s
  <2>1. s \in [1..k -> Range(s)]
    BY <1>3 DEF Range
  <2>2. \A i, j \in 1..k : s[i] = s[j] => i = j
    BY <1>1, <1>3
  <2>3. s \in Injection(1..k, Range(s))
    BY <2>1, <2>2 DEF Injection, IsInjective
  <2>4. s \in Surjection(1..k, Range(s))
    BY <1>3, <2>1 DEF Surjection, Range
  <2>5. ExistsBijection(1..k, Range(s))
    BY <2>3, <2>4 DEF ExistsBijection, Bijection
  <2>6. IsFiniteSet(1..k) /\ Cardinality(1..k) = k
    BY FS_Interval
  <2> QED
    BY <1>3, <2>5, <2>6, FS_Bijection
<1>6. n <= k => IsPrefix(r, s)
  <2>1. SUFFICES ASSUME n <= k PROVE IsPrefix(r, s)
    OBVIOUS
  <2> HIDE DEF r, s
  <2>2. n \in 0..Len(s) /\ n \in 0..Len(r)
    BY <1>1, <1>2, <1>3, <2>1
  <2> DEFINE u == SubSeq(r, 1, n)  v == SubSeq(s, 1, n)
  <2>3. u \in Seq(Nat) /\ Len(u) = n /\ \A i \in 1..n : u[i] = r[i]
    BY <1>2, <2>2, FirstPages
  <2>4. v \in Seq(Nat) /\ Len(v) = n /\ \A i \in 1..n : v[i] = s[i]
    BY <1>3, <2>2, FirstPages
  <2>5. \A i \in 1..n : r[i] = s[i]
    BY <1>1, <1>2, <1>3, <2>1
  <2> HIDE DEF u, v
  <2>6. u = v
    BY <2>3, <2>4, <2>5, SeqEqual
  <2> QED
    BY <1>2, <1>3, <2>1, <2>6 DEF IsPrefix, u, v
<1>7. drafts /\ k = Len(rs) => Range(s) = 0..(total - 1)
  BY <1>3 DEF Exactly
<1> HIDE DEF r, s
<1>8. /\ w.shown = <<>> \/ (drafts /\ w.shown = s)
      /\ \/ w.ready = NotReady /\ ~w.all
         \/ /\ w.ready = [pages |-> r, asked |-> asked, total |-> total]
            /\ n <= k /\ (w.all => k = Len(rs))
  BY DEF r, s
<1>9. Cardinality(Range(w.shown)) = Len(w.shown)
  <2>1. Range(<<>>) = {} /\ Len(<<>>) = 0
    BY DEF Range
  <2> QED
    BY <1>5, <1>8, <2>1, FS_EmptySet
<1>10. CASE w.ready = NotReady /\ ~w.all
  <2>1. Exact([ready |-> NotReady, shown |-> <<>>])
    BY NothingIsExact
  <2>2. w.ready.total = 0
    BY <1>10 DEF NotReady
  <2> QED
    BY <1>9, <1>10, <2>1, <2>2 DEF Exact
<1>11. CASE /\ w.ready = [pages |-> r, asked |-> asked, total |-> total]
            /\ n <= k /\ (w.all => k = Len(rs))
  <2>1. w.ready.pages = r /\ w.ready.asked = asked /\ w.ready.total = total
    BY <1>11
  <2>2. w.shown # <<>> => w.shown = s /\ drafts
    BY <1>8
  <2> QED
    BY <1>4, <1>6, <1>7, <1>9, <1>11, <2>1, <2>2 DEF Exact
<1> QED
  BY <1>8, <1>10, <1>11

(***************************************************************************)
(* The actions.  Waiting is what ShownToWaiting says of a step.            *)
(***************************************************************************)
Waiting == browser'.shows > browser.shows => helper.waits /\ browser.shows = 0

Stays == browser'.shows = browser.shows

LEMMA StaysWaiting == IInv /\ Stays => Waiting
  BY DEF IInv, Consistent, Types, Browsers, Stays, Waiting

\* A step that leaves alone what the document is about.
LEMMA Unaffected ==
  ASSUME NEW h, NEW c, NEW w, Consistent(h, c, w), NEW g, NEW d, NEW v, Types(g, d, v),
         \A f \in {"params", "prep", "for", "reset", "sent", "at"} : g[f] = h[f],
         \A f \in {"answer", "ready", "shown", "all"} : v[f] = w[f],
         d = c \/ (h.at = "idle" /\ d.state # "rendering" /\ d.metafile = c.metafile),
         Delayed(g, v)
  PROVE  Consistent(g, d, v)
<1>1. /\ g.params = h.params /\ g.prep = h.prep /\ g.for = h.for /\ g.reset = h.reset
      /\ g.sent = h.sent /\ g.at = h.at
      /\ v.answer = w.answer /\ v.ready = w.ready /\ v.shown = w.shown /\ v.all = w.all
  OBVIOUS
<1>2. Exact(v)
  BY <1>1 DEF Consistent, Exact
<1>3. Fresh(h, c, w) => Fresh(g, d, v)
  BY <1>1 DEF Fresh
<1>4. h.at # "idle" /\ Rendering(h, c, w) => Rendering(g, d, v)
  BY <1>1 DEF Rendering
<1> QED
  BY <1>1, <1>2, <1>3, <1>4 DEF Consistent

\* The renderer dies with what it had.
LEMMA DeadIsConsistent ==
  ASSUME NEW h, NEW c, NEW w, Consistent(h, c, w), h.at \in {"idle", "create"},
         NEW g, g = [h EXCEPT !.at = "crashed"]
  PROVE  Consistent(g, c, w)
<1>1. /\ g \in Helpers /\ g.at = "crashed" /\ g.prep = h.prep /\ g.for = h.for
      /\ g.params = h.params /\ g.reset = h.reset /\ g.sent = h.sent
      /\ g.delayed = h.delayed /\ g.waits = h.waits
  BY DEF Consistent, Types, Helpers
<1> QED
  BY <1>1 DEF Consistent, Types, Delayed, Fresh

\* The typed parts of the state.
LEMMA Parts ==
  ASSUME IInv
  PROVE  /\ helper \in Helpers /\ context \in Contexts /\ browser \in Browsers
         /\ Consistent(helper, context, browser) /\ Delayed(helper, browser)
         /\ Types(helper, context, browser)
  BY DEF IInv, Consistent, Types

LEMMA DialogKeeps == IInv /\ (SendPrintPreview \/ Close) => IInv' /\ Waiting
<1> SUFFICES ASSUME IInv, SendPrintPreview \/ Close PROVE IInv' /\ Waiting
  OBVIOUS
<1>1. /\ helper' = helper /\ context' = context
      /\ browser' \in Browsers
      /\ \A f \in {"answer", "ready", "shown", "all", "shows"} : browser'[f] = browser[f]
  <2>1. CASE Close
    <3>1. /\ browser' = [browser EXCEPT !.open = FALSE, !.latest = 0]
          /\ helper' = helper /\ context' = context
      BY <2>1 DEF Close
    <3>2. browser \in Browsers
      BY Parts
    <3>3. browser' \in Browsers
      BY <3>1, <3>2 DEF Browsers
    <3>4. \A f \in {"answer", "ready", "shown", "all", "shows"} : browser'[f] = browser[f]
      BY <3>1, <3>2 DEF Browsers
    <3> QED
      BY <3>1, <3>3, <3>4
  <2>2. CASE SendPrintPreview
    <3>1. /\ browser' = [browser EXCEPT !.latest = used.requests + 1] /\ used.requests + 1 \in Nat
          /\ helper' = helper /\ context' = context
      BY <2>2 DEF SendPrintPreview, IInv, Counts
    <3>2. browser \in Browsers
      BY Parts
    <3>3. browser' \in Browsers
      BY <3>1, <3>2 DEF Browsers
    <3>4. \A f \in {"answer", "ready", "shown", "all", "shows"} : browser'[f] = browser[f]
      BY <3>1, <3>2 DEF Browsers
    <3> QED
      BY <3>1, <3>3, <3>4
  <2> QED
    BY <2>1, <2>2
<1>2. Types(helper, context, browser') /\ Delayed(helper, browser')
  BY <1>1, Parts DEF Types, Delayed
<1>3. Consistent(helper', context', browser')
  BY <1>1, <1>2, Parts, Unaffected
<1>4. Counts'
  <2>1. CASE Close
    BY <2>1 DEF Close, IInv, Counts
  <2>2. CASE SendPrintPreview
    <3>1. PICK t \in Settings :
            loops' = [loops EXCEPT !.inbox = Append(@,
               [id |-> used.requests + 1, kind |-> t.kind, pages |-> t.pages,
                drafts |-> t.drafts, selection |-> t.selection])]
      BY <2>2 DEF SendPrintPreview
    <3>2. /\ used.requests < MaxRequests /\ used' = [used EXCEPT !.requests = @ + 1]
      BY <2>2 DEF SendPrintPreview
    <3> DEFINE q == [id |-> used.requests + 1, kind |-> t.kind, pages |-> t.pages,
                     drafts |-> t.drafts, selection |-> t.selection]
    <3>3. used.requests + 1 \in 0..MaxRequests
      BY <3>2, PreviewAssumption DEF IInv, Counts
    <3>4. q \in Requests
      BY <3>3 DEF Settings, Requests
    <3> HIDE DEF q
    <3>5. loops.inbox \in Seq(Requests) /\ Append(loops.inbox, q) \in Seq(Requests)
      BY <3>4 DEF IInv, Counts
    <3>6. loops' = [loops EXCEPT !.inbox = Append(loops.inbox, q)]
      BY <3>1 DEF q
    <3> QED
      BY <3>2, <3>3, <3>5, <3>6 DEF IInv, Counts
  <2> QED
    BY <2>1, <2>2
<1> QED
  BY <1>1, <1>3, <1>4, StaysWaiting DEF IInv, Stays

LEMMA Starting ==
  ASSUME IInv, NEW source \in Sources, NEW d, d = InitWith(source), Idle
  PROVE  /\ d \in Contexts /\ d.state = "initialized" /\ d.metafile = context.metafile
         /\ d.index \in 0..Len(d.pages)
<1>1. context \in Contexts /\ context.index \in 0..Len(context.pages)
  BY Parts DEF Types
<1> QED
  BY <1>1 DEF InitWith, Contexts

LEMMA ShowKeeps ==
  ASSUME IInv, Idle, NEW h \in Helpers, Show(h), context' = context,
         \A f \in {"params", "prep", "for", "reset", "sent", "at", "delayed", "waits"} :
            h[f] = helper[f]
  PROVE  Consistent(helper', context', browser') /\ Waiting
<1>1. /\ helper \in Helpers /\ context \in Contexts /\ browser \in Browsers
      /\ Consistent(helper, context, browser) /\ Delayed(helper, browser)
      /\ context.index \in 0..Len(context.pages)
      /\ helper.at = "idle" /\ browser.shows \in Nat
  BY Parts DEF Types, Idle, Browsers
<1>2. CASE h.delayed /\ SourceGone
  <2>1. helper' = [helper EXCEPT !.at = "crashed"] /\ browser' = browser
    BY <1>2 DEF Show, Dies
  <2> QED
    BY <1>1, <2>1, DeadIsConsistent DEF Waiting
<1>3. CASE ~(h.delayed /\ SourceGone)
  <2>1. /\ helper' = [h EXCEPT !.delayed = FALSE]
        /\ browser' = IF h.delayed THEN [Opened EXCEPT !.shows = @ + 1] ELSE browser
    BY <1>3, Zenon DEF Show, Shown
  <2>2. /\ helper' \in Helpers /\ ~helper'.delayed
        /\ \A f \in {"params", "prep", "for", "reset", "sent", "at"} : helper'[f] = helper[f]
    BY <2>1 DEF Helpers
  <2>3. /\ browser' \in Browsers
        /\ \A f \in {"answer", "ready", "shown", "all"} : browser'[f] = browser[f]
        /\ browser'.shows > browser.shows => h.delayed
    <3>1. CASE h.delayed
      <4>1. browser' = [browser EXCEPT !.open = TRUE, !.modifiable = Modifiable, !.shows = browser.shows + 1]
        BY <1>1, <2>1, <3>1 DEF Opened, Browsers
      <4>2. Modifiable \in BOOLEAN
        BY DEF Modifiable
      <4>3. browser' \in Browsers
        <5>1. browser.shows + 1 \in Nat
          BY <1>1
        <5> QED
          BY <1>1, <4>1, <4>2, <5>1 DEF Browsers
      <4>4. \A f \in {"answer", "ready", "shown", "all"} : browser'[f] = browser[f]
        BY <1>1, <4>1 DEF Browsers
      <4> QED
        BY <3>1, <4>3, <4>4
    <3>2. CASE ~h.delayed
      BY <1>1, <2>1, <3>2
    <3> QED
      BY <3>1, <3>2
  <2>4. Delayed(helper', browser') /\ Types(helper', context', browser')
    BY <1>1, <2>2, <2>3 DEF Delayed, Types
  <2>5. Consistent(helper', context', browser')
    BY <1>1, <2>2, <2>3, <2>4, Unaffected
  <2>6. Waiting
    BY <1>1, <2>3 DEF Waiting, Delayed
  <2> QED
    BY <2>5, <2>6
<1> QED
  BY <1>2, <1>3

LEMMA IdleContext ==
  ASSUME IInv, Idle
  PROVE  /\ context.state # "rendering" /\ helper.at = "idle"
         /\ context.index \in 0..Len(context.pages) /\ browser.shows \in Nat
  BY DEF IInv, Consistent, Types, Idle, Browsers

LEMMA PrintPageKeeps == ASSUME IInv, NEW source \in Sources, PrintPage(source)
                        PROVE  IInv' /\ Waiting
<1>1. /\ Idle /\ used.starts < MaxStarts /\ context' = InitWith(source)
      /\ browser' = [browser EXCEPT !.shows = 0, !.asked = FALSE]
      /\ used' = [used EXCEPT !.starts = @ + 1]
  BY DEF PrintPage
<1>2. PICK wait \in BOOLEAN :
        /\ helper' = [helper EXCEPT !.delayed = TRUE, !.waits = TRUE,
                                    !.closure = IF wait THEN "show" ELSE @]
        /\ loops' = [loops EXCEPT !.posted = IF wait THEN @ ELSE @ + 1]
  BY DEF PrintPage, MayWait
<1>3. helper \in Helpers /\ browser \in Browsers /\ Consistent(helper, context, browser)
  BY Parts
<1>4. /\ helper' \in Helpers /\ helper'.waits
      /\ \A f \in {"params", "prep", "for", "reset", "sent", "at"} : helper'[f] = helper[f]
  BY <1>2, <1>3 DEF Helpers
<1>5. /\ browser' \in Browsers /\ browser'.shows = 0
      /\ \A f \in {"answer", "ready", "shown", "all"} : browser'[f] = browser[f]
  BY <1>1, <1>3 DEF Browsers
<1>6. /\ context' \in Contexts /\ context'.state = "initialized"
      /\ context'.metafile = context.metafile /\ context'.index \in 0..Len(context'.pages)
  BY <1>1, Starting
<1>7. Types(helper', context', browser') /\ Delayed(helper', browser')
  BY <1>4, <1>5, <1>6 DEF Types, Delayed
<1>8. Consistent(helper', context', browser')
  <2>1. helper.at = "idle" /\ context'.state # "rendering"
    BY <1>1, <1>6, IdleContext
  <2> QED
    BY <1>3, <1>4, <1>5, <1>6, <1>7, <2>1, Unaffected
<1>9. Counts'
  BY <1>1, <1>2, PreviewAssumption DEF IInv, Counts
<1>10. Waiting
  BY <1>1, <1>5, IdleContext DEF Waiting
<1> QED
  BY <1>8, <1>9, <1>10 DEF IInv

LEMMA OnInitiatePrintPreviewKeeps ==
  ASSUME IInv, NEW source \in Sources, OnInitiatePrintPreview(source)
  PROVE  IInv' /\ Waiting
<1>1. /\ Idle /\ used.starts < MaxStarts /\ context' = InitWith(source)
      /\ used' = [used EXCEPT !.starts = @ + 1] /\ loops' = loops
  BY DEF OnInitiatePrintPreview
<1>2. \/ helper' = [helper EXCEPT !.closure = "request"] /\ browser' = browser
      \/ /\ browser' = [browser EXCEPT !.open = TRUE, !.modifiable = source = "page", !.asked = TRUE]
         /\ helper' = helper
  BY DEF OnInitiatePrintPreview
<1>3. /\ helper \in Helpers /\ browser \in Browsers /\ Consistent(helper, context, browser)
      /\ Delayed(helper, browser)
  BY Parts
<1>4. /\ helper' \in Helpers
      /\ \A f \in {"params", "prep", "for", "reset", "sent", "at", "delayed", "waits"} :
            helper'[f] = helper[f]
  BY <1>2, <1>3 DEF Helpers
<1>5. /\ browser' \in Browsers
      /\ \A f \in {"answer", "ready", "shown", "all", "shows"} : browser'[f] = browser[f]
  <2>1. (source = "page") \in BOOLEAN
    OBVIOUS
  <2> QED
    BY <1>2, <1>3, <2>1 DEF Browsers
<1>6. /\ context' \in Contexts /\ context'.state = "initialized"
      /\ context'.metafile = context.metafile /\ context'.index \in 0..Len(context'.pages)
  BY <1>1, Starting
<1>7. Types(helper', context', browser') /\ Delayed(helper', browser')
  BY <1>3, <1>4, <1>5, <1>6 DEF Types, Delayed
<1>8. Consistent(helper', context', browser')
  <2>1. /\ \A f \in {"params", "prep", "for", "reset", "sent", "at"} : helper'[f] = helper[f]
        /\ \A f \in {"answer", "ready", "shown", "all"} : browser'[f] = browser[f]
    BY <1>4, <1>5
  <2>2. helper.at = "idle" /\ context'.state # "rendering"
    BY <1>1, <1>6, IdleContext
  <2> QED
    BY <1>3, <1>6, <1>7, <2>1, <2>2, Unaffected
<1>9. Counts'
  BY <1>1, PreviewAssumption DEF IInv, Counts
<1> QED
  BY <1>5, <1>8, <1>9, StaysWaiting DEF IInv, Stays

LEMMA SetupDoneKeeps == IInv /\ SetupScriptedPrintPreviewDone => IInv' /\ Waiting
<1> SUFFICES ASSUME IInv, SetupScriptedPrintPreviewDone PROVE IInv' /\ Waiting
  OBVIOUS
<1>1. /\ helper' = [helper EXCEPT !.waits = FALSE, !.delayed = FALSE]
      /\ context' = context /\ loops' = loops /\ browser' = browser /\ used' = used
  BY DEF SetupScriptedPrintPreviewDone
<1>2. /\ helper' \in Helpers /\ ~helper'.delayed
      /\ \A f \in {"params", "prep", "for", "reset", "sent", "at"} : helper'[f] = helper[f]
  BY <1>1, Parts DEF Helpers
<1>3. Types(helper', context', browser') /\ Delayed(helper', browser')
  BY <1>1, <1>2, Parts DEF Types, Delayed
<1>4. Consistent(helper', context', browser')
  BY <1>1, <1>2, <1>3, Parts, Unaffected
<1> QED
  BY <1>1, <1>4, StaysWaiting DEF IInv, Counts, Stays

LEMMA ShowScriptedKeeps == IInv /\ ShowScriptedPrintPreview => IInv' /\ Waiting
<1> SUFFICES ASSUME IInv, ShowScriptedPrintPreview PROVE IInv' /\ Waiting
  OBVIOUS
<1>1. /\ Idle /\ loops.posted > 0 /\ loops' = [loops EXCEPT !.posted = @ - 1]
      /\ Show(helper) /\ context' = context /\ used' = used
  BY DEF ShowScriptedPrintPreview
<1>2. Consistent(helper', context', browser') /\ Waiting
  BY <1>1, Parts, ShowKeeps
<1>3. Counts'
  BY <1>1, PreviewAssumption DEF IInv, Counts
<1> QED
  BY <1>2, <1>3 DEF IInv

LEMMA DidStartLoadingKeeps == IInv /\ DidStartLoading => IInv' /\ Waiting
<1> SUFFICES ASSUME IInv, DidStartLoading PROVE IInv' /\ Waiting
  OBVIOUS
<1>1. /\ helper' = [helper EXCEPT !.loading = TRUE]
      /\ context' = context /\ loops' = loops /\ browser' = browser
      /\ used' = [used EXCEPT !.loads = @ + 1]
  BY DEF DidStartLoading
<1>2. /\ helper' \in Helpers /\ helper'.delayed = helper.delayed /\ helper'.waits = helper.waits
      /\ \A f \in {"params", "prep", "for", "reset", "sent", "at"} : helper'[f] = helper[f]
  BY <1>1, Parts DEF Helpers
<1>3. Types(helper', context', browser') /\ Delayed(helper', browser')
  BY <1>1, <1>2, Parts DEF Types, Delayed
<1>4. Consistent(helper', context', browser')
  BY <1>1, <1>2, <1>3, Parts, Unaffected
<1>5. Counts'
  BY <1>1 DEF IInv, Counts
<1> QED
  BY <1>1, <1>4, <1>5, StaysWaiting DEF IInv, Stays

LEMMA DidStopLoadingKeeps == IInv /\ DidStopLoading => IInv' /\ Waiting
<1> SUFFICES ASSUME IInv, DidStopLoading PROVE IInv' /\ Waiting
  OBVIOUS
<1> DEFINE stopped == [helper EXCEPT !.loading = FALSE, !.closure = "none"]
<1>1. Idle /\ context' = context /\ loops' = loops /\ used' = used
  BY DEF DidStopLoading
<1>2. /\ stopped \in Helpers
      /\ \A f \in {"params", "prep", "for", "reset", "sent", "at", "delayed", "waits"} :
            stopped[f] = helper[f]
  BY Parts DEF Helpers
<1>3. /\ helper.at = "idle" /\ Consistent(helper, context, browser) /\ browser \in Browsers
      /\ Types(helper, context, browser) /\ Delayed(helper, browser)
  BY <1>1, Parts, IdleContext
<1>4. \/ helper' = stopped /\ browser' = browser
      \/ Show(stopped)
      \/ helper' = [helper EXCEPT !.at = "crashed"] /\ browser' = browser
      \/ helper' = stopped /\ browser' = [Opened EXCEPT !.asked = TRUE]
  BY DEF DidStopLoading, Dies
<1> HIDE DEF stopped
<1>5. CASE helper' = stopped /\ browser' = browser
  <2>1. Types(helper', context', browser') /\ Delayed(helper', browser')
    BY <1>1, <1>2, <1>3, <1>5 DEF Types, Delayed
  <2>2. Consistent(helper', context', browser')
    BY <1>1, <1>2, <1>3, <1>5, <2>1, Unaffected
  <2> QED
    BY <1>1, <1>5, <2>2, StaysWaiting DEF IInv, Counts, Stays
<1>6. CASE Show(stopped)
  <2>1. Consistent(helper', context', browser') /\ Waiting
    BY <1>1, <1>2, <1>6, ShowKeeps
  <2> QED
    BY <1>1, <2>1 DEF IInv, Counts
<1>7. CASE helper' = [helper EXCEPT !.at = "crashed"] /\ browser' = browser
  <2>1. Consistent(helper', context', browser')
    BY <1>1, <1>3, <1>7, DeadIsConsistent
  <2> QED
    BY <1>1, <1>7, <2>1, StaysWaiting DEF IInv, Counts, Stays
<1>8. CASE helper' = stopped /\ browser' = [Opened EXCEPT !.asked = TRUE]
  <2>1. browser' = [browser EXCEPT !.open = TRUE, !.modifiable = Modifiable, !.asked = TRUE]
    BY <1>3, <1>8 DEF Opened, Browsers
  <2>2. Modifiable \in BOOLEAN
    BY DEF Modifiable
  <2>3. browser' \in Browsers
    BY <1>3, <2>1, <2>2 DEF Browsers
  <2>4. \A f \in {"answer", "ready", "shown", "all", "shows"} : browser'[f] = browser[f]
    BY <1>3, <2>1 DEF Browsers
  <2>5. Types(helper', context', browser') /\ Delayed(helper', browser')
    BY <1>1, <1>2, <1>3, <1>8, <2>3, <2>4 DEF Types, Delayed
  <2>6. Consistent(helper', context', browser')
    <3>1. /\ \A f \in {"params", "prep", "for", "reset", "sent", "at"} : helper'[f] = helper[f]
          /\ \A f \in {"answer", "ready", "shown", "all"} : browser'[f] = browser[f]
      BY <1>2, <1>8, <2>4
    <3> QED
      BY <1>1, <1>3, <2>5, <3>1, Unaffected
  <2> QED
    BY <1>1, <2>4, <2>6, StaysWaiting DEF IInv, Counts, Stays
<1> QED
  BY <1>4, <1>5, <1>6, <1>7, <1>8

LEMMA FrameDetachedKeeps == IInv /\ FrameDetached => IInv' /\ Waiting
<1> SUFFICES ASSUME IInv, FrameDetached PROVE IInv' /\ Waiting
  OBVIOUS
<1>1. /\ Idle /\ context' = [context EXCEPT !.frame = FALSE]
      /\ helper' = helper /\ loops' = loops /\ browser' = browser
      /\ used' = [used EXCEPT !.faults = @ + 1]
  BY DEF FrameDetached
<1>2. /\ context' \in Contexts /\ context'.state = context.state
      /\ context'.metafile = context.metafile /\ context'.index = context.index
      /\ context'.pages = context.pages
  BY <1>1, Parts DEF Contexts
<1>3. Types(helper', context', browser') /\ Delayed(helper', browser')
  BY <1>1, <1>2, Parts DEF Types, Delayed
<1>4. Consistent(helper', context', browser')
  BY <1>1, <1>2, <1>3, Parts, IdleContext, Unaffected
<1>5. Counts'
  BY <1>1 DEF IInv, Counts
<1> QED
  BY <1>1, <1>4, <1>5, StaysWaiting DEF IInv, Stays

LEMMA SelectionLoadedKeeps == IInv /\ SelectionLoaded => IInv' /\ Waiting
<1> SUFFICES ASSUME IInv, SelectionLoaded PROVE IInv' /\ Waiting
  OBVIOUS
<1>1. /\ helper.prep = "loading" /\ helper.at = "idle"
      /\ helper' = [helper EXCEPT !.prep = "loaded"]
      /\ context' = context /\ loops' = loops /\ browser' = browser /\ used' = used
  BY DEF SelectionLoaded, Idle
<1>2. /\ helper' \in Helpers /\ helper'.prep = "loaded"
      /\ \A f \in {"params", "for", "reset", "sent", "at", "delayed", "waits"} : helper'[f] = helper[f]
  BY <1>1, Parts DEF Helpers
<1>3. Types(helper', context', browser') /\ Delayed(helper', browser')
  BY <1>1, <1>2, Parts DEF Types, Delayed
<1>4. Fresh(helper', context', browser')
  BY <1>1, <1>2, Parts DEF Consistent, Fresh
<1>5. Consistent(helper', context', browser')
  BY <1>1, <1>2, <1>3, <1>4, Parts DEF Consistent
<1> QED
  BY <1>1, <1>5, StaysWaiting DEF IInv, Counts, Stays

LEMMA OnPrintingDoneKeeps == IInv /\ OnPrintingDone => IInv' /\ Waiting
<1> SUFFICES ASSUME IInv, OnPrintingDone PROVE IInv' /\ Waiting
  OBVIOUS
<1>1. /\ Idle /\ helper' = Released(helper)
      /\ browser' = [browser EXCEPT !.answer = IF helper.prep = "none" THEN @ ELSE "dropped"]
      /\ context' = context /\ loops' = loops /\ used' = [used EXCEPT !.faults = @ + 1]
  BY DEF OnPrintingDone
<1>2. /\ helper' \in Helpers /\ helper'.prep = "none" /\ helper'.at = "idle"
      /\ helper'.delayed = helper.delayed /\ helper'.waits = helper.waits
  <2>1. helper' = [helper EXCEPT !.params = NoRequest, !.prep = "none", !.for = 0, !.at = "idle"]
    BY <1>1 DEF Released
  <2>2. 0 \in 0..MaxRequests /\ NoRequest \in Requests /\ helper \in Helpers
    BY Parts, RequestTypes, PreviewAssumption
  <2> QED
    BY <2>1, <2>2 DEF Helpers
<1>3. browser' \in Browsers
  BY <1>1, Parts DEF Browsers, Answers
<1>4. \A f \in {"ready", "shown", "all", "shows"} : browser'[f] = browser[f]
  BY <1>1, Parts DEF Browsers
<1>5. browser'.answer # "none"
  BY <1>1, Parts, IdleContext DEF Browsers, Consistent
<1>6. Exact(browser')
  BY <1>4, Parts DEF Consistent, Exact
<1>7. Types(helper', context', browser') /\ Delayed(helper', browser')
  BY <1>1, <1>2, <1>3, <1>4, Parts DEF Types, Delayed
<1>8. Consistent(helper', context', browser')
  BY <1>1, <1>2, <1>5, <1>6, <1>7, IdleContext DEF Consistent
<1>9. Counts'
  BY <1>1 DEF IInv, Counts
<1> QED
  BY <1>4, <1>8, <1>9, StaysWaiting DEF IInv, Stays

LEMMA BecomesKeeps ==
  ASSUME IInv, NEW e, Holds(e), e.browser.shows = browser.shows, Becomes(e), Counts'
  PROVE  IInv' /\ Waiting
<1>1. helper' = e.helper /\ context' = e.context /\ browser' = e.browser
  BY DEF Becomes
<1>2. Consistent(helper', context', browser')
  BY <1>1 DEF Holds
<1> QED
  BY <1>1, <1>2, StaysWaiting DEF IInv, Stays

LEMMA NowIs ==
  /\ DOMAIN Now = {"helper", "context", "browser"}
  /\ Now.helper = helper /\ Now.context = context /\ Now.browser = browser
  BY DEF Now

LEMMA OnPrintPreviewKeeps == IInv /\ OnPrintPreview => IInv' /\ Waiting
<1> SUFFICES ASSUME IInv, OnPrintPreview PROVE IInv' /\ Waiting
  OBVIOUS
<1> DEFINE r == Head(loops.inbox)
           c == Cleared(context)
           w == [browser EXCEPT !.answer = "none", !.ready = NotReady, !.shown = <<>>, !.all = FALSE]
           b == [Now EXCEPT !.context = c, !.browser = w]
           e == IF ~context.frame THEN FailPreview(b)
                ELSE IF r.kind = "good" THEN Accepted(b, r) ELSE Rejected(b, r)
<1>1. /\ Idle /\ loops.inbox # <<>> /\ loops' = [loops EXCEPT !.inbox = Tail(@)]
      /\ Becomes(e) /\ used' = used
  BY DEF OnPrintPreview
<1>2. /\ DOMAIN b = {"helper", "context", "browser"}
      /\ b.helper = helper /\ b.context = c /\ b.browser = w
  BY NowIs
<1>3. r \in Requests /\ Tail(loops.inbox) \in Seq(Requests)
  BY <1>1 DEF IInv, Counts
<1>4. /\ c \in Contexts /\ c.index \in 0..Len(c.pages) /\ c.metafile = <<>>
      /\ c.state = "initialized"
  <2>1. context \in Contexts /\ <<>> \in Seq(Nat)
    BY Parts
  <2>2. c \in Contexts
    BY <2>1 DEF Cleared, Contexts
  <2>3. c.index = 0 /\ c.pages = <<>> /\ c.metafile = <<>> /\ c.state = "initialized"
    BY <2>1 DEF Cleared, Contexts
  <2>4. 0 \in 0..Len(<<>>)
    OBVIOUS
  <2> QED
    BY <2>2, <2>3, <2>4
<1>5. /\ w \in Browsers /\ w.shown = <<>> /\ w.ready = NotReady /\ ~w.all
      /\ w.shows = browser.shows
  <2>1. NotReady \in [pages : Seq(Nat), asked : Seq(Nat), total : Nat]
    BY DEF NotReady
  <2>2. browser \in Browsers /\ <<>> \in Seq(Nat)
    BY Parts
  <2>3. w \in Browsers
    BY <2>1, <2>2 DEF Browsers, Answers
  <2>4. w.shown = <<>> /\ w.ready = NotReady /\ ~w.all /\ w.shows = browser.shows
    BY <2>2 DEF Browsers
  <2> QED
    BY <2>3, <2>4
<1>6. helper \in Helpers /\ Delayed(helper, browser) /\ helper.at = "idle"
  BY <1>1, Parts, IdleContext
<1>7. Types(helper, c, w) /\ Delayed(helper, w) /\ Exact(w)
  BY <1>4, <1>5, <1>6, NothingIsExact DEF Types, Delayed
<1>8. "failed" \in Answers \ {"none"} /\ "cancelled" \in Answers \ {"none"}
  BY DEF Answers
<1> DEFINE b1 == [b EXCEPT !.helper.params = r]
           h1 == [helper EXCEPT !.params = r]
           b2 == [b EXCEPT !.helper.params = r, !.helper.sent = FALSE, !.context.drafts = r.drafts]
           h2 == [helper EXCEPT !.params = r, !.sent = FALSE]
           c2 == [c EXCEPT !.drafts = r.drafts]
<1>9. \/ e = EndPreview(b, "failed") \/ e = EndPreview(b, "cancelled")
      \/ e = EndPreview(b1, "cancelled") \/ e = PrepareFrame(b2)
  <2>1. r.kind \in {"good", "empty", "canceled", "invalid"}
    BY <1>3 DEF Requests
  <2> HIDE DEF b, r
  <2>2. Rejected(b, r) \in {EndPreview(b, "failed"), EndPreview(b, "cancelled"),
                           EndPreview(b1, "cancelled")}
        \/ r.kind = "good"
    BY <2>1 DEF Rejected, FailPreview, Canceled
  <2>3. Accepted(b, r) = PrepareFrame(b2) /\ FailPreview(b) = EndPreview(b, "failed")
    BY DEF Accepted, FailPreview
  <2> QED
    BY <2>2, <2>3
<1>10. /\ b1.helper = h1 /\ b1.context = c /\ b1.browser = w
       /\ b2.helper = h2 /\ b2.context = c2 /\ b2.browser = w
       /\ DOMAIN b2 = {"helper", "context", "browser"}
  <2> HIDE DEF b, c, w, r
  <2> QED
    BY <1>2
<1>11. h1 \in Helpers /\ h1.delayed = helper.delayed /\ h1.waits = helper.waits
  <2> HIDE DEF r
  <2> QED
    BY <1>3, <1>6 DEF Helpers
<1>12. /\ h2 \in Helpers /\ h2.delayed = helper.delayed /\ h2.waits = helper.waits
       /\ h2.at = "idle" /\ ~h2.sent
  <2> HIDE DEF r
  <2> QED
    BY <1>3, <1>6 DEF Helpers
<1>13. /\ c2 \in Contexts /\ c2.index = c.index /\ c2.pages = c.pages
       /\ c2.metafile = <<>> /\ c2.state = "initialized"
  <2>1. r.drafts \in BOOLEAN
    BY <1>3, RequestTypes
  <2> HIDE DEF r, c
  <2> QED
    BY <1>4, <2>1 DEF Contexts
<1> HIDE DEF b, b1, b2, h1, h2, c, c2, w, r, e
<1>14. Holds(e) /\ e.browser.shows = w.shows
  <2>1. CASE e = EndPreview(b, "failed") \/ e = EndPreview(b, "cancelled")
    BY <1>2, <1>7, <1>8, <2>1, EndHolds
  <2>2. CASE e = EndPreview(b1, "cancelled")
    <3>1. Types(h1, c, w) /\ Delayed(h1, w)
      BY <1>7, <1>11 DEF Types, Delayed
    <3> QED
      BY <1>7, <1>8, <1>10, <2>2, <3>1, EndHolds
  <2>3. CASE e = PrepareFrame(b2)
    <3>1. Types(h2, c2, w) /\ Delayed(h2, w) /\ Fresh(h2, c2, w)
      BY <1>4, <1>5, <1>7, <1>12, <1>13 DEF Types, Delayed, Fresh
    <3>2. Taken(h2, c2, w)
      BY <1>12, <1>13, <3>1 DEF Taken
    <3> QED
      BY <1>10, <2>3, <3>2, PrepareHolds
  <2> QED
    BY <1>9, <2>1, <2>2, <2>3
<1>15. Counts'
  BY <1>1, <1>3 DEF IInv, Counts
<1> QED
  BY <1>1, <1>5, <1>14, <1>15, BecomesKeeps

LEMMA CallOnReadyKeeps == IInv /\ CallOnReady => IInv' /\ Waiting
<1> SUFFICES ASSUME IInv, CallOnReady PROVE IInv' /\ Waiting
  OBVIOUS
<1> DEFINE e == IF helper.reset THEN PrepareFrame(Now) ELSE [Now EXCEPT !.helper.at = "create"]
<1>1. helper.prep = "loaded" /\ Idle /\ Becomes(e) /\ loops' = loops /\ used' = used
  BY DEF CallOnReady
<1>2. /\ Consistent(helper, context, browser) /\ Types(helper, context, browser)
      /\ Delayed(helper, browser) /\ Fresh(helper, context, browser) /\ Exact(browser)
      /\ helper.at = "idle" /\ context.state # "rendering" /\ helper \in Helpers
  BY <1>1, Parts, IdleContext DEF Consistent
<1>3. Holds(e) /\ e.browser.shows = browser.shows
  <2>1. CASE helper.reset
    <3>1. Taken(helper, context, browser)
      BY <1>2 DEF Taken
    <3>2. e = PrepareFrame(Now)
      BY <2>1
    <3> HIDE DEF e
    <3> QED
      BY <3>1, <3>2, NowIs, PrepareHolds
  <2>2. CASE ~helper.reset
    <3> DEFINE h == [helper EXCEPT !.at = "create"]
    <3>1. e.helper = h /\ e.context = context /\ e.browser = browser
      BY <2>2, NowIs
    <3>2. /\ h \in Helpers /\ h.at = "create"
          /\ \A f \in {"params", "prep", "for", "reset", "sent", "delayed", "waits"} : h[f] = helper[f]
      BY <1>2 DEF Helpers
    <3>3. helper.for = helper.params.id
      BY <1>1, <1>2, <2>2 DEF Consistent
    <3> HIDE DEF h, e
    <3>4. Types(h, context, browser) /\ Delayed(h, browser) /\ Fresh(h, context, browser)
      BY <1>2, <3>2 DEF Types, Delayed, Fresh
    <3>5. Consistent(h, context, browser)
      BY <1>1, <1>2, <3>2, <3>3, <3>4 DEF Consistent
    <3> QED
      BY <3>1, <3>5 DEF Holds
  <2> QED
    BY <2>1, <2>2
<1>4. Counts'
  BY <1>1 DEF IInv, Counts
<1> HIDE DEF e
<1> QED
  BY <1>1, <1>3, <1>4, BecomesKeeps

LEMMA CreatePreviewDocumentKeeps == IInv /\ CreatePreviewDocument => IInv' /\ Waiting
<1> SUFFICES ASSUME IInv, CreatePreviewDocument PROVE IInv' /\ Waiting
  OBVIOUS
<1> DEFINE r == helper.params
           h == [helper EXCEPT !.prep = "none", !.for = 0, !.at = "check"]
           b == [Now EXCEPT !.helper.prep = "none", !.helper.for = 0, !.helper.at = "check"]
           rs(total) == PagesToRender(r.pages, total, context.drafts)
           n(total) == ReadyCount(r.pages, total)
           g(total) == [b EXCEPT !.context.state = "rendering", !.context.index = 0,
                                 !.context.total = total, !.context.pages = rs(total),
                                 !.context.ready = n(total)]
<1>1. /\ helper.at = "create" /\ loops' = loops
      /\ used' = used \/ used' = [used EXCEPT !.faults = @ + 1]
      /\ \/ Becomes(Canceled(Now))
         \/ Dies /\ context' = context
         \/ \E total \in PageCounts : Becomes(IF total = 0 THEN FailPreview(b) ELSE g(total))
         \/ Becomes(FailPreview(b))
  BY DEF CreatePreviewDocument
<1>2. /\ Consistent(helper, context, browser) /\ Types(helper, context, browser)
      /\ Delayed(helper, browser) /\ Fresh(helper, context, browser) /\ Exact(browser)
      /\ helper \in Helpers /\ context \in Contexts /\ browser \in Browsers
  BY <1>1, Parts DEF Consistent
<1>3. Counts'
  <2>1. loops' = loops /\ (used' = used \/ used' = [used EXCEPT !.faults = @ + 1])
    BY <1>1
  <2>2. Counts
    BY DEF IInv
  <2> QED
    BY ONLY <2>1, <2>2 DEF Counts
<1>4. "failed" \in Answers \ {"none"} /\ "cancelled" \in Answers \ {"none"}
  BY DEF Answers
<1>5. /\ DOMAIN b = {"helper", "context", "browser"}
      /\ b.helper = h /\ b.context = context /\ b.browser = browser
  BY NowIs
<1>6. /\ h \in Helpers /\ h.at = "check" /\ h.prep = "none"
      /\ h.params = r /\ h.sent = helper.sent
      /\ h.delayed = helper.delayed /\ h.waits = helper.waits
  <2>1. 0 \in 0..MaxRequests
    BY PreviewAssumption
  <2> QED
    BY <1>2, <2>1 DEF Helpers
<1> HIDE DEF b, h, r, rs, n
<1>7. Types(h, context, browser) /\ Delayed(h, browser)
  BY <1>2, <1>6 DEF Types, Delayed
<1>8. CASE Becomes(Canceled(Now))
  <2>1. Canceled(Now) = EndPreview(Now, "cancelled")
    BY DEF Canceled
  <2> DEFINE e == Canceled(Now)
  <2>2. Holds(e) /\ e.browser.shows = browser.shows
    <3> HIDE DEF e
    <3>1. e = EndPreview(Now, "cancelled")
      BY <2>1 DEF e
    <3> QED
      BY <1>2, <1>4, <3>1, NowIs, EndHolds
  <2>3. Becomes(e)
    BY <1>8
  <2> HIDE DEF e
  <2> QED
    BY <1>3, <2>2, <2>3, BecomesKeeps
<1>9. CASE Becomes(FailPreview(b))
  <2> DEFINE e == FailPreview(b)
  <2>1. e = EndPreview(b, "failed") /\ Becomes(e)
    BY <1>9 DEF FailPreview
  <2> HIDE DEF e
  <2>2. Holds(e) /\ e.browser.shows = browser.shows
    BY <1>2, <1>4, <1>5, <1>7, <2>1, EndHolds
  <2> QED
    BY <1>3, <2>1, <2>2, BecomesKeeps
<1>10. CASE Dies /\ context' = context
  <2>1. helper' = [helper EXCEPT !.at = "crashed"] /\ browser' = browser
    BY <1>10 DEF Dies
  <2>2. Consistent(helper', context', browser')
    BY <1>1, <1>2, <1>10, <2>1, DeadIsConsistent
  <2> QED
    BY <1>3, <2>1, <2>2, StaysWaiting DEF IInv, Stays
<1>11. ASSUME NEW total \in PageCounts, total # 0, Becomes(g(total))
       PROVE  IInv' /\ Waiting
  <2> DEFINE c == [context EXCEPT !.state = "rendering", !.index = 0, !.total = total,
                                  !.pages = rs(total), !.ready = n(total)]
             e == g(total)
  <2>1. e.helper = h /\ e.context = c /\ e.browser = browser
    BY <1>5
  <2>2. total \in Nat \ {0} /\ r \in Requests /\ r.pages \in Seq(Nat) /\ context.drafts \in BOOLEAN
    BY <1>2, <1>11, PreviewAssumption, RequestTypes DEF r, Helpers, Contexts
  <2>3. Exactly(rs(total), n(total), r.pages, total, context.drafts)
    BY <2>2, PagesAreExact DEF rs, n
  <2>4. rs(total) \in Seq(Nat) /\ Len(rs(total)) \in Nat /\ n(total) \in Nat /\ n(total) > 0
    <3>1. rs(total) \in Seq(Nat) /\ n(total) \in 1..Len(rs(total))
      BY <2>3 DEF Exactly
    <3> QED
      BY <3>1
  <2>5. /\ c \in Contexts /\ c.state = "rendering" /\ c.index = 0 /\ c.total = total
        /\ c.pages = rs(total) /\ c.ready = n(total) /\ c.drafts = context.drafts
        /\ c.source = context.source /\ c.metafile = context.metafile
    BY <1>2, <2>2, <2>4 DEF Contexts
  <2> HIDE DEF c, e, g
  <2>6. Types(h, c, browser)
    BY <1>2, <1>6, <2>4, <2>5 DEF Types
  <2>7. SubSeq(rs(total), 1, 0) = <<>>
    BY <2>4, SubSeqEmpty
  <2>8. Rendering(h, c, browser)
    BY <1>2, <1>6, <2>2, <2>3, <2>4, <2>5, <2>7 DEF Rendering, Fresh
  <2>9. Consistent(h, c, browser)
    BY <1>2, <1>6, <1>7, <2>5, <2>6, <2>8 DEF Consistent
  <2>10. Holds(e) /\ e.browser.shows = browser.shows
    BY <2>1, <2>9 DEF Holds
  <2>11. Becomes(e)
    BY <1>11 DEF e
  <2> QED
    BY <1>3, <2>10, <2>11, BecomesKeeps
<1> HIDE DEF g
<1> QED
  BY <1>1, <1>8, <1>9, <1>10, <1>11

LEMMA RenderPreviewPageKeeps == IInv /\ RenderPreviewPage => IInv' /\ Waiting
<1> SUFFICES ASSUME IInv, RenderPreviewPage PROVE IInv' /\ Waiting
  OBVIOUS
<1>1. /\ helper.at = "render" /\ loops' = loops
      /\ used' = used \/ used' = [used EXCEPT !.faults = @ + 1]
      /\ Becomes(Rendered) \/ Becomes(FailPreview(Now))
  BY DEF RenderPreviewPage
<1>2. /\ Consistent(helper, context, browser) /\ Types(helper, context, browser)
      /\ Delayed(helper, browser) /\ Rendering(helper, context, browser) /\ Exact(browser)
      /\ helper \in Helpers /\ context \in Contexts /\ browser \in Browsers
      /\ context.state = "rendering" /\ helper.prep = "none"
  BY <1>1, Parts DEF Consistent
<1>3. Counts'
  BY <1>1 DEF IInv, Counts
<1>4. CASE Becomes(FailPreview(Now))
  <2> DEFINE e == FailPreview(Now)
  <2>1. e = EndPreview(Now, "failed") /\ Becomes(e)
    BY <1>4 DEF FailPreview
  <2>2. "failed" \in Answers \ {"none"}
    BY DEF Answers
  <2> HIDE DEF e
  <2>3. Holds(e) /\ e.browser.shows = browser.shows
    BY <1>2, <2>1, <2>2, NowIs, EndHolds
  <2> QED
    BY <1>3, <2>1, <2>3, BecomesKeeps
<1>5. CASE Becomes(Rendered)
  <2> DEFINE rs == context.pages
             k == context.index
             page == rs[k + 1]
             h == [helper EXCEPT !.at = "check"]
             c == [context EXCEPT !.index = k + 1,
                     !.metafile = IF Modifiable /\ helper.sent THEN @ ELSE Append(@, page)]
             w == [browser EXCEPT !.shown = IF Modifiable /\ context.drafts THEN Append(@, page) ELSE @]
  <2>1. /\ rs \in Seq(Nat) /\ Len(rs) \in Nat /\ k \in 0..Len(rs) /\ k < Len(rs)
        /\ context.ready \in Nat /\ context.metafile \in Seq(Nat) /\ browser.shown \in Seq(Nat)
        /\ helper.sent <=> k > context.ready \/ k = context.ready
    <3>1. /\ rs \in Seq(Nat) /\ k \in 0..Len(rs) /\ context.ready \in Nat
          /\ context.metafile \in Seq(Nat) /\ browser.shown \in Seq(Nat)
      BY <1>2 DEF Types, Contexts, Browsers
    <3>2. k < Len(rs) /\ (helper.sent <=> k > context.ready \/ k = context.ready)
      BY <1>1, <1>2 DEF Rendering
    <3> QED
      BY <3>1, <3>2
  <2>2. /\ k + 1 \in 1..Len(rs) /\ k + 1 \in 0..Len(rs) /\ page \in Nat
        /\ SubSeq(rs, 1, k + 1) = Append(SubSeq(rs, 1, k), page)
    <3> HIDE DEF rs, k
    <3>1. /\ k + 1 \in 1..Len(rs) /\ rs[k + 1] \in Nat
          /\ SubSeq(rs, 1, k + 1) = Append(SubSeq(rs, 1, k), rs[k + 1])
      BY ONLY <2>1, OneMorePage
    <3>2. k + 1 \in 0..Len(rs)
      BY <3>1
    <3> QED
      BY <3>1, <3>2
  <2>3. Rendered.helper = h /\ Rendered.context = c /\ Rendered.browser = w
    BY NowIs DEF Rendered
  <2>4. /\ h \in Helpers /\ h.at = "check" /\ h.prep = "none" /\ h.params = helper.params
        /\ h.sent = helper.sent /\ h.delayed = helper.delayed /\ h.waits = helper.waits
    BY <1>2 DEF Helpers
  <2> HIDE DEF page
  <2>5. /\ c.index = k + 1 /\ c.pages = rs /\ c.ready = context.ready
        /\ c.state = "rendering" /\ c.total = context.total /\ c.drafts = context.drafts
        /\ c.source = context.source
        /\ c.metafile = IF Modifiable /\ helper.sent THEN context.metafile
                                                      ELSE Append(context.metafile, page)
    BY <1>2 DEF Contexts
  <2>6. c \in Contexts
    <3>1. Append(context.metafile, page) \in Seq(Nat) /\ k + 1 \in Nat
      BY <2>1, <2>2
    <3> QED
      BY <1>2, <3>1 DEF Contexts
  <2>7. /\ w.answer = browser.answer /\ w.ready = browser.ready /\ w.all = browser.all
        /\ w.shows = browser.shows
        /\ w.shown = IF Modifiable /\ context.drafts THEN Append(browser.shown, page)
                                                      ELSE browser.shown
    BY <1>2 DEF Browsers
  <2>8. w \in Browsers
    <3>1. Append(browser.shown, page) \in Seq(Nat)
      BY <2>1, <2>2
    <3> QED
      BY <1>2, <3>1 DEF Browsers
  <2> HIDE DEF h, c, w, k, rs
  <2>9. /\ Exactly(rs, c.ready, h.params.pages, c.total, c.drafts) /\ c.total > 0
        /\ ~h.sent => context.metafile = SubSeq(rs, 1, k) /\ w.ready = NotReady
        /\ h.sent => /\ w.ready = [pages |-> SubSeq(rs, 1, c.ready), asked |-> h.params.pages,
                                  total |-> c.total]
                     /\ w.answer # "none"
        /\ browser.shown = IF Modifiable /\ c.drafts THEN SubSeq(rs, 1, k) ELSE <<>>
        /\ ~w.all
    BY <1>2, <2>4, <2>5, <2>7 DEF Rendering, k, rs, Modifiable
  <2>10. Rendering(h, c, w)
    <3>1. h.sent <=> c.index > c.ready
      BY <2>1, <2>4, <2>5
    <3>2. ~h.sent => c.metafile = SubSeq(c.pages, 1, c.index)
      BY <2>2, <2>4, <2>5, <2>9
    <3>3. w.shown = IF c.source = "page" /\ c.drafts THEN SubSeq(c.pages, 1, c.index) ELSE <<>>
      BY <2>2, <2>5, <2>7, <2>9 DEF Modifiable
    <3> QED
      BY <2>4, <2>5, <2>9, <3>1, <3>2, <3>3 DEF Rendering
  <2>11. Types(h, c, w) /\ Delayed(h, w)
    BY <1>2, <2>2, <2>4, <2>5, <2>6, <2>7, <2>8 DEF Types, Delayed
  <2>12. Exact(w)
    <3>1. c.index \in 0..Len(rs) /\ c.total \in Nat /\ c.ready \in Nat /\ c.index \in Nat
      BY <2>2, <2>5, <2>6 DEF Contexts
    <3>2. w.shown = <<>> \/ (c.drafts /\ w.shown = SubSeq(rs, 1, c.index))
      BY <2>5, <2>10 DEF Rendering
    <3>3. \/ w.ready = NotReady /\ ~w.all
          \/ /\ w.ready = [pages |-> SubSeq(rs, 1, c.ready), asked |-> h.params.pages,
                           total |-> c.total]
             /\ c.ready <= c.index /\ (w.all => c.index = Len(rs))
      BY <2>4, <2>9, <2>10, <3>1 DEF Rendering
    <3> QED
      BY <2>9, <3>1, <3>2, <3>3, RenderedIsExact
  <2>13. Consistent(h, c, w)
    BY <2>4, <2>5, <2>10, <2>11, <2>12 DEF Consistent
  <2>14. Holds(Rendered) /\ Rendered.browser.shows = browser.shows
    BY <2>3, <2>7, <2>13 DEF Holds
  <2> QED
    BY <1>3, <1>5, <2>14, BecomesKeeps
<1> QED
  BY <1>1, <1>4, <1>5

LEMMA CheckPageKeeps == IInv /\ CheckPage => IInv' /\ Waiting
<1> SUFFICES ASSUME IInv, CheckPage PROVE IInv' /\ Waiting
  OBVIOUS
<1> DEFINE rs == context.pages
           k == context.index
           n == context.ready
           final == k = Len(rs)
           last == k = n
           b == [Now EXCEPT !.helper.at = "render", !.helper.sent = @ \/ last,
                            !.browser.ready = IF last THEN Document ELSE @,
                            !.browser.answer = IF last THEN "ready" ELSE @]
           h == [helper EXCEPT !.at = "render", !.sent = @ \/ last]
           w == [browser EXCEPT !.ready = IF last THEN Document ELSE @,
                                !.answer = IF last THEN "ready" ELSE @]
<1>1. /\ helper.at = "check" /\ loops' = loops
      /\ used' = used \/ used' = [used EXCEPT !.faults = @ + 1]
      /\ \/ Becomes(Canceled(Now)) \/ Becomes(FailPreview(Now))
         \/ Becomes(IF final THEN FinishPreview(b) ELSE b)
  BY DEF CheckPage
<1>2. /\ Consistent(helper, context, browser) /\ Types(helper, context, browser)
      /\ Delayed(helper, browser) /\ Rendering(helper, context, browser) /\ Exact(browser)
      /\ helper \in Helpers /\ context \in Contexts /\ browser \in Browsers
      /\ context.state = "rendering" /\ helper.prep = "none"
  BY <1>1, Parts DEF Consistent
<1>3. Counts'
  <2>1. loops' = loops /\ (used' = used \/ used' = [used EXCEPT !.faults = @ + 1])
    BY <1>1
  <2>2. Counts
    BY DEF IInv
  <2> QED
    BY ONLY <2>1, <2>2 DEF Counts
<1>4. CASE Becomes(Canceled(Now)) \/ Becomes(FailPreview(Now))
  <2>1. PICK answer \in Answers \ {"none"} : Becomes(EndPreview(Now, answer))
    BY <1>4 DEF Canceled, FailPreview, Answers
  <2> DEFINE e == EndPreview(Now, answer)
  <2>2. e = EndPreview(Now, answer) /\ Becomes(e)
    BY <2>1
  <2> HIDE DEF e
  <2>3. Holds(e) /\ e.browser.shows = browser.shows
    BY <1>2, <2>2, NowIs, EndHolds
  <2> QED
    BY <1>3, <2>2, <2>3, BecomesKeeps
<1>5. ASSUME Becomes(IF final THEN FinishPreview(b) ELSE b)
      PROVE  IInv' /\ Waiting
  <2>1. /\ rs \in Seq(Nat) /\ Len(rs) \in Nat /\ k \in 0..Len(rs) /\ k \in Nat /\ n \in Nat
        /\ context.total \in Nat /\ context.metafile \in Seq(Nat) /\ helper.sent \in BOOLEAN
        /\ helper.params.pages \in Seq(Nat)
    <3>1. rs \in Seq(Nat) /\ k \in 0..Len(rs) /\ n \in Nat /\ context.metafile \in Seq(Nat)
          /\ context.total \in Nat
      BY <1>2 DEF Types, Contexts
    <3>2. helper.sent \in BOOLEAN /\ helper.params \in Requests
      BY <1>2 DEF Helpers
    <3> QED
      BY <3>1, <3>2, RequestTypes
  <2>2. /\ Exactly(rs, n, helper.params.pages, context.total, context.drafts)
        /\ context.total > 0 /\ n \in 1..Len(rs)
        /\ helper.sent <=> k > n
        /\ ~helper.sent => context.metafile = SubSeq(rs, 1, k) /\ browser.ready = NotReady
        /\ helper.sent => /\ browser.ready = [pages |-> SubSeq(rs, 1, n),
                                  asked |-> helper.params.pages, total |-> context.total]
                          /\ browser.answer # "none"
        /\ browser.shown = IF context.source = "page" /\ context.drafts
                             THEN SubSeq(rs, 1, k) ELSE <<>>
        /\ ~browser.all
    BY <1>1, <1>2 DEF Rendering, Exactly
  <2>3. /\ DOMAIN b = {"helper", "context", "browser"}
        /\ b.helper = h /\ b.context = context /\ b.browser = w
    BY NowIs
  <2>4. /\ h \in Helpers /\ h.at = "render" /\ h.prep = "none" /\ h.params = helper.params
        /\ h.sent <=> helper.sent \/ last
        /\ h.delayed = helper.delayed /\ h.waits = helper.waits
    <3> HIDE DEF last
    <3>1. (helper.sent \/ last) \in BOOLEAN
      OBVIOUS
    <3> QED
      BY <1>2, <3>1 DEF Helpers
  <2>5. Document = [pages |-> context.metafile, asked |-> helper.params.pages, total |-> context.total]
    BY DEF Document
  <2>6. w \in Browsers
    <3>1. Document \in [pages : Seq(Nat), asked : Seq(Nat), total : Nat]
      BY <2>1, <2>5
    <3>2. browser.ready \in [pages : Seq(Nat), asked : Seq(Nat), total : Nat]
          /\ browser.answer \in Answers /\ "ready" \in Answers
      BY <1>2 DEF Browsers, Answers
    <3> DEFINE d == IF last THEN Document ELSE browser.ready
               a == IF last THEN "ready" ELSE browser.answer
    <3>3. d \in [pages : Seq(Nat), asked : Seq(Nat), total : Nat] /\ a \in Answers
      BY <3>1, <3>2
    <3>4. w = [browser EXCEPT !.ready = d, !.answer = a]
      OBVIOUS
    <3> HIDE DEF d, a, w
    <3> QED
      BY <1>2, <3>3, <3>4 DEF Browsers
  <2>7. /\ w.ready = (IF last THEN Document ELSE browser.ready)
        /\ w.answer = (IF last THEN "ready" ELSE browser.answer)
        /\ w.shown = browser.shown /\ w.shows = browser.shows /\ w.all = browser.all
    BY <1>2 DEF Browsers
  <2> HIDE DEF b, h, w
  <2>8. /\ h.sent <=> k >= n
        /\ ~h.sent => context.metafile = SubSeq(rs, 1, k) /\ w.ready = NotReady
        /\ h.sent => /\ w.ready = [pages |-> SubSeq(rs, 1, n), asked |-> h.params.pages,
                                  total |-> context.total]
                     /\ w.answer # "none"
    <3>1. CASE last
      <4>1. ~helper.sent /\ context.metafile = SubSeq(rs, 1, n)
        BY <2>1, <2>2, <3>1
      <4> QED
        BY <2>1, <2>4, <2>5, <2>7, <3>1, <4>1
    <3>2. CASE ~last
      BY <2>1, <2>2, <2>4, <2>7, <3>2
    <3> QED
      BY <3>1, <3>2
  <2>9. Types(h, context, w) /\ Delayed(h, w)
    BY <1>2, <2>1, <2>4, <2>6, <2>7 DEF Types, Delayed
  <2>10. CASE ~final
    <3>1. Rendering(h, context, w)
      <4>1. k < Len(rs) /\ (h.sent <=> k > n \/ k = n)
        BY <2>1, <2>8, <2>10
      <4> QED
        BY <2>2, <2>4, <2>7, <2>8, <4>1 DEF Rendering
    <3>2. Exact(w)
      <4>1. w.shown = <<>> \/ (context.drafts /\ w.shown = SubSeq(rs, 1, k))
        BY <2>2, <2>7
      <4>2. \/ w.ready = NotReady /\ ~w.all
            \/ /\ w.ready = [pages |-> SubSeq(rs, 1, n), asked |-> h.params.pages,
                             total |-> context.total]
               /\ n <= k /\ (w.all => k = Len(rs))
        BY <2>1, <2>2, <2>7, <2>8
      <4>3. Exactly(rs, n, h.params.pages, context.total, context.drafts)
        BY <2>2, <2>4
      <4> HIDE DEF rs, n, k
      <4> QED
        BY <2>1, <2>2, <4>1, <4>2, <4>3, RenderedIsExact
    <3>3. Consistent(h, context, w)
      BY <1>2, <2>4, <2>9, <3>1, <3>2 DEF Consistent
    <3>4. Holds(b) /\ b.browser.shows = browser.shows
      BY <2>3, <2>7, <3>3 DEF Holds
    <3>5. Becomes(b)
      BY <1>5, <2>10
    <3> QED
      BY <1>3, <3>4, <3>5, BecomesKeeps
  <2>11. CASE final
    <3> DEFINE e == FinishPreview(b)
               g == Released(h)
               c == Cleared(context)
               v == [w EXCEPT !.all = TRUE]
    <3>1. e.helper = g /\ e.context = c /\ e.browser = v
      BY <2>3 DEF FinishPreview
    <3>2. /\ g \in Helpers /\ g.prep = "none" /\ g.at = "idle"
          /\ g.delayed = h.delayed /\ g.waits = h.waits
      <4>1. g = [h EXCEPT !.params = NoRequest, !.prep = "none", !.for = 0, !.at = "idle"]
        BY DEF Released
      <4>2. 0 \in 0..MaxRequests /\ NoRequest \in Requests
        BY RequestTypes, PreviewAssumption
      <4> HIDE DEF g
      <4> QED
        BY <2>4, <4>1, <4>2 DEF Helpers
    <3>3. /\ c \in Contexts /\ c.state = "initialized" /\ c.index \in 0..Len(c.pages)
      <4>1. <<>> \in Seq(Nat) /\ 0 \in 0..Len(<<>>)
        OBVIOUS
      <4>2. c \in Contexts
        BY <1>2, <4>1 DEF Cleared, Contexts
      <4>3. c.index = 0 /\ c.pages = <<>> /\ c.state = "initialized"
        BY <1>2 DEF Cleared, Contexts
      <4> QED
        BY <4>1, <4>2, <4>3
    <3>4. /\ v \in Browsers /\ v.answer = w.answer /\ v.ready = w.ready /\ v.shown = w.shown
          /\ v.shows = w.shows /\ v.all
      BY <2>6 DEF Browsers
    <3> HIDE DEF g, c, v
    <3>5. h.sent /\ n <= k /\ k = Len(rs)
      BY <2>1, <2>2, <2>8, <2>11
    <3>6. Exact(v)
      <4>1. v.shown = <<>> \/ (context.drafts /\ v.shown = SubSeq(rs, 1, k))
        BY <2>2, <2>7, <3>4
      <4>2. /\ v.ready = [pages |-> SubSeq(rs, 1, n), asked |-> h.params.pages,
                          total |-> context.total]
            /\ n <= k /\ (v.all => k = Len(rs))
        BY <2>8, <3>4, <3>5
      <4>3. Exactly(rs, n, h.params.pages, context.total, context.drafts)
        BY <2>2, <2>4
      <4> HIDE DEF rs, n, k
      <4> QED
        BY <2>1, <2>2, <4>1, <4>2, <4>3, RenderedIsExact
    <3>7. Types(g, c, v) /\ Delayed(g, v)
      BY <2>9, <3>2, <3>3, <3>4 DEF Types, Delayed
    <3>8. Consistent(g, c, v)
      BY <2>8, <3>2, <3>3, <3>4, <3>5, <3>6, <3>7 DEF Consistent
    <3>9. Becomes(e)
      BY <1>5, <2>11
    <3> HIDE DEF e
    <3>10. Holds(e) /\ e.browser.shows = browser.shows
      BY <2>7, <3>1, <3>4, <3>8 DEF Holds
    <3> QED
      BY <1>3, <3>9, <3>10, BecomesKeeps
  <2> QED
    BY <2>10, <2>11
<1> QED
  BY <1>1, <1>4, <1>5

(***************************************************************************)
(* The theorems.                                                           *)
(***************************************************************************)
LEMMA Beginning == Init => IInv
<1> SUFFICES ASSUME Init PROVE IInv
  OBVIOUS
<1>1. <<>> \in Seq(Nat) /\ 0 \in 0..Len(<<>>) /\ 0 \in 0..MaxRequests /\ <<>> \in Seq(Requests)
      /\ 0 \in 0..MaxStarts
  BY PreviewAssumption
<1>2. helper \in Helpers /\ helper.at = "idle" /\ helper.prep = "none" /\ ~helper.delayed
  BY <1>1, RequestTypes DEF Init, NewHelper, Helpers
<1>3. /\ context \in Contexts /\ context.index \in 0..Len(context.pages)
      /\ context.state = "uninitialized"
  BY <1>1 DEF Init, NewContext, Contexts, Sources
<1>4. NotReady \in [pages : Seq(Nat), asked : Seq(Nat), total : Nat]
  BY <1>1 DEF NotReady
<1>5. /\ browser \in Browsers /\ browser.ready = NotReady /\ browser.shown = <<>>
      /\ browser.answer = "ready"
  BY <1>1, <1>4 DEF Init, NewBrowser, Browsers, Answers
<1>6. Exact(browser)
  BY <1>5, NothingIsExact
<1>7. Consistent(helper, context, browser)
  BY <1>2, <1>3, <1>5, <1>6 DEF Consistent, Types, Delayed
<1>8. Counts
  BY <1>1 DEF Init, Counts
<1> QED
  BY <1>7, <1>8 DEF IInv

LEMMA Steps == IInv /\ [Next]_vars => IInv' /\ (UNCHANGED vars \/ Waiting)
<1> SUFFICES ASSUME IInv, [Next]_vars PROVE IInv' /\ (UNCHANGED vars \/ Waiting)
  OBVIOUS
<1>1. CASE UNCHANGED vars
  BY <1>1 DEF vars, IInv, Counts
<1>2. CASE SendPrintPreview \/ Close
  BY <1>2, DialogKeeps
<1>3. CASE \E source \in Sources : PrintPage(source)
  BY <1>3, PrintPageKeeps
<1>4. CASE \E source \in Sources : OnInitiatePrintPreview(source)
  BY <1>4, OnInitiatePrintPreviewKeeps
<1>5. CASE SetupScriptedPrintPreviewDone \/ ShowScriptedPrintPreview
  BY <1>5, SetupDoneKeeps, ShowScriptedKeeps
<1>6. CASE DidStartLoading \/ DidStopLoading \/ FrameDetached
  BY <1>6, DidStartLoadingKeeps, DidStopLoadingKeeps, FrameDetachedKeeps
<1>7. CASE OnPrintPreview \/ SelectionLoaded \/ CallOnReady
  BY <1>7, OnPrintPreviewKeeps, SelectionLoadedKeeps, CallOnReadyKeeps
<1>8. CASE CreatePreviewDocument \/ RenderPreviewPage \/ CheckPage \/ OnPrintingDone
  BY <1>8, CreatePreviewDocumentKeeps, RenderPreviewPageKeeps, CheckPageKeeps, OnPrintingDoneKeeps
<1> QED
  BY <1>1, <1>2, <1>3, <1>4, <1>5, <1>6, <1>7, <1>8 DEF Next

LEMMA Invariance == Spec => []IInv
<1>1. IInv /\ [Next]_vars => IInv'
  BY Steps
<1> QED
  BY Beginning, <1>1, PTL DEF Spec

\* The helper, its context and the messages have their types, and only the loop that
\* renders holds pages.
THEOREM TypesHold == Spec => []TypeOK
<1>1. IInv => TypeOK
  <2> SUFFICES ASSUME IInv PROVE TypeOK
    OBVIOUS
  <2>1. /\ helper \in Helpers /\ context \in Contexts /\ browser \in Browsers
        /\ context.index \in 0..Len(context.pages)
        /\ context.state = "rendering" <=> helper.at \in {"render", "check"}
    BY Parts DEF Types, Consistent
  <2>2. loops.posted \in 0..MaxStarts /\ \A i \in DOMAIN loops.inbox : loops.inbox[i] \in Requests
    <3>1. loops.inbox \in Seq(Requests) /\ loops.posted \in 0..MaxStarts
      BY DEF IInv, Counts
    <3> QED
      BY <3>1
  <2> QED
    BY <2>1, <2>2 DEF TypeOK, Helpers, Contexts, Browsers, Answers
<1> QED
  BY Invariance, <1>1, PTL

\* A document is made from the frame that was prepared for its request, though requests
\* come while the selection of an earlier one loads.
THEOREM PreparedForItsRequest == Spec => []PreparedIsWanted
<1>1. IInv => PreparedIsWanted
  BY DEF IInv, Consistent, PreparedIsWanted
<1> QED
  BY Invariance, <1>1, PTL

\* The dialog is given the pages it asked for, once and in order, for all lists of pages
\* and documents of all lengths.
THEOREM DocumentsAreExact == Spec => []DocumentIsExact
<1>1. IInv => DocumentIsExact
  BY DEF IInv, Consistent, Exact, DocumentIsExact
<1> QED
  BY Invariance, <1>1, PTL

\* The renderer is never done with a request without having told the dialog.
THEOREM EveryEndIsTold == Spec => []EndIsTold
<1>1. IInv => EndIsTold
  BY DEF IInv, Consistent, EndIsTold, Idle
<1> QED
  BY Invariance, <1>1, PTL

\* A preview is shown for a script only while it waits in print(), and once.
THEOREM ShownOnlyToWaiting == Spec => ShownToWaiting
<1>1. IInv /\ [Next]_vars => [browser'.shows > browser.shows => helper.waits /\ browser.shows = 0]_vars
  BY Steps DEF Waiting
<1> QED
  BY Invariance, <1>1, PTL DEF Spec, ShownToWaiting
=============================================================================
