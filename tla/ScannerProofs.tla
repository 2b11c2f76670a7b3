--------------------------- MODULE ScannerProofs ---------------------------
(***************************************************************************)
(* Proofs about Scanner, for any sets of titles, entries and runs, any     *)
(* feeds, modes and bounds: types, the order of writes, and what a closed  *)
(* run and a resolved log promise.                                         *)
(***************************************************************************)
EXTENDS Scanner, FiniteSetTheorems, SequenceTheorems, TLAPS

-----------------------------------------------------------------------------
(* The inductive invariant: the memory of one run, over the titles T and    *)
(* occurrences O that are stored and the entries A it has accepted          *)

Found(c) == {t \in Titles : c[t] # NoPosition}

Ending == {"stage", "items", "promote", "close"}
Saving == {"saveTitle", "saveOcc", "saveLog", "saveUsed", "saveRetry"}
Over == {"done", "dead"}

(* Logs that are staged say how an entry ended, not as what. *)
Plain(q) ==
    \A n \in DOMAIN q : \E state \in RetryStates : q[n][2] = Unresolved(state)

(* Candidates were come upon one after the other, in this feed or before. *)
Ranked(c, feed) ==
    /\ IsFiniteSet(Found(c))
    /\ \A t, u \in Found(c) : c[t] = c[u] => t = u
    /\ \A t \in Found(c) : c[t][1] <= feed

(* Wherever the run is, what it holds is stored or waits to be. *)
Sound(s, T, O) ==
    /\ s \in RunMemory
    /\ Plain(s.newLogs)
    /\ Ranked(s.cands, s.feed)
    /\ \A x \in Range(s.newOccs) : x[1] \in T \cup Range(s.newTitles)
    /\ Found(s.cands) \subseteq T \cup Range(s.newTitles)
    /\ \A x \in Range(s.used) : <<x[2], x[1]>> \in O \cup Range(s.newOccs)

Kept(s, O, A) == Range(A) \subseteq O \cup Range(s.newOccs)

(* Every loop is at something that is there. *)
Placed(s) ==
    /\ s.pc = "idle" => s.newOccs = <<>>
    /\ s.pc = "fetch" =>
          /\ s.feed \in 1 .. Len(Feeds)
          /\ \A t \in Found(s.cands) : s.cands[t][1] < s.feed
    /\ s.pc = "entry" =>
          /\ s.feed \in 1 .. Len(Feeds) /\ s.entry \in 1 .. Len(Feeds[s.feed])
          /\ \A t \in Found(s.cands) : s.cands[t][1] = s.feed => s.cands[t][2] < s.entry
    /\ s.pc = "logs" => s.at \in 1 .. Len(s.newLogs)
    /\ s.pc = "titles" => s.at \in 1 .. Len(s.newTitles)
    /\ s.pc = "occs" => s.at \in 1 .. Len(s.newOccs)
    /\ s.pc = "used" => s.used # <<>>
    /\ s.pc \in Saving => s.item \in Items /\ s.title \in Titles
    /\ s.pc = "items" => s.at \in 1 .. Cardinality(Found(s.cands))

(* A flush comes to the next list when the last is empty. *)
Emptied(s) ==
    /\ s.pc \in {"titles", "occs", "used"} \cup Ending => s.newLogs = <<>>
    /\ s.pc \in {"occs", "used"} \cup Ending => s.newTitles = <<>>
    /\ s.pc \in {"used"} \cup Ending => s.newOccs = <<>>
    /\ s.pc \in Ending => s.used = <<>>

(* What a loop has behind it is stored. *)
Written(s, T, O) ==
    /\ s.pc = "titles" => \A n \in 1 .. s.at - 1 : s.newTitles[n] \in T
    /\ s.pc = "occs" => \A n \in 1 .. s.at - 1 : s.newOccs[n] \in O
    /\ s.pc = "saveOcc" => s.title \in T
    /\ s.pc \in {"saveLog", "saveUsed"} => <<s.title, s.item>> \in O

Good(s, T, O, A) ==
    /\ Sound(s, T, O)
    /\ s.pc \notin Over => Kept(s, O, A)
    /\ Placed(s) /\ Emptied(s) /\ Written(s, T, O)

-----------------------------------------------------------------------------
(* The inductive invariant: the store *)

Stored ==
    /\ titles \subseteq Titles
    /\ occs \subseteq Titles \X Items
    /\ logs \in [Items -> Logs]
    /\ aged \subseteq {i \in Items : logs[i] # NoLog}
    /\ mappings \in [Items -> Titles \cup {NoTitle}]
    /\ runDoc \in [Runs -> {"absent", "running"} \cup Closed]
    /\ snaps \in [Runs -> Snapshots]
    /\ pointer \in Runs \cup {NoRun}
    /\ failures \in 0 .. MaxFailures
    /\ crashes \in 0 .. MaxCrashes
    /\ edits \in 0 .. MaxEdits
    /\ accepted \in [Runs -> Seq(Titles \X Items)]
    /\ troubled \subseteq Runs

(* A run that closed was over, and all it accepted was filed. *)
ClosedWell ==
    \A r \in Runs : runDoc[r] \in Closed =>
        scan[r].pc \in Over /\ Range(accepted[r]) \subseteq occs

ResolvedFiled ==
    \A i \in Items : logs[i].outcome = "matched" => <<logs[i].title, i>> \in occs

IInv ==
    /\ Stored
    /\ scan \in [Runs -> RunMemory]
    /\ \A r \in Runs : Good(scan[r], titles, occs, accepted[r])
    /\ FiledUnderStoredTitles
    /\ ClosedWell
    /\ ResolvedFiled

-----------------------------------------------------------------------------
(* Sequences *)

LEMMA RangeOfAppend ==
    ASSUME NEW S, NEW q \in Seq(S), NEW e \in S
    PROVE  Range(Append(q, e)) = Range(q) \cup {e}
<1>1. /\ Len(Append(q, e)) = Len(q) + 1
      /\ \A n \in 1 .. Len(q) : Append(q, e)[n] = q[n]
      /\ Append(q, e)[Len(q) + 1] = e
  OBVIOUS
<1>2. /\ DOMAIN q = 1 .. Len(q) /\ Len(q) \in Nat
      /\ DOMAIN Append(q, e) = 1 .. Len(q) + 1
  OBVIOUS
<1>3. ASSUME NEW x \in Range(Append(q, e)) PROVE x \in Range(q) \cup {e}
  BY <1>1, <1>2, <1>3, SMT DEF Range
<1>4. ASSUME NEW x \in Range(q) PROVE x \in Range(Append(q, e))
  BY <1>1, <1>2, <1>4, SMT DEF Range
<1>5. e \in Range(Append(q, e))
  BY <1>1, <1>2, SMT DEF Range
<1> QED
  BY <1>3, <1>4, <1>5

LEMMA RangeOfStaged ==
    ASSUME NEW S, NEW q \in Seq(S), NEW x \in S
    PROVE  Staged(q, x) \in Seq(S) /\ Range(Staged(q, x)) = Range(q) \cup {x}
<1>1. CASE \E n \in DOMAIN q : q[n] = x
  BY <1>1 DEF Staged, Range
<1>2. CASE ~\E n \in DOMAIN q : q[n] = x
  BY <1>2, RangeOfAppend DEF Staged
<1> QED
  BY <1>1, <1>2

LEMMA RangeOfEmpty == Range(<<>>) = {}
  BY DEF Range

LEMMA RangeIsTyped ==
    ASSUME NEW S, NEW q \in Seq(S)
    PROVE  Range(q) \subseteq S
  BY DEF Range

(* Without its first element a sequence holds less. *)
LEMMA RangeOfTail ==
    ASSUME NEW S, NEW q \in Seq(S), q # <<>>
    PROVE  /\ Tail(q) \in Seq(S) /\ q[1] \in S /\ q[1] \in Range(q)
           /\ Range(Tail(q)) \subseteq Range(q)
<1>1. /\ Len(q) \in Nat \ {0} /\ DOMAIN q = 1 .. Len(q)
      /\ DOMAIN Tail(q) = 1 .. Len(q) - 1
      /\ \A n \in 1 .. Len(q) - 1 : Tail(q)[n] = q[n + 1]
  BY SMT
<1> QED
  BY <1>1, SMT DEF Range

LEMMA PlainAppended ==
    ASSUME NEW q \in Seq(Items \X Logs), Plain(q), NEW i \in Items, NEW state \in RetryStates
    PROVE  /\ Append(q, <<i, Unresolved(state)>>) \in Seq(Items \X Logs)
           /\ Plain(Append(q, <<i, Unresolved(state)>>))
<1> DEFINE e == <<i, Unresolved(state)>>
<1>1. e \in Items \X Logs /\ e[2] = Unresolved(state)
  BY DEF Unresolved, Logs
<1> HIDE DEF e
<1>2. Append(q, e) \in Seq(Items \X Logs)
  BY <1>1
<1>3. ASSUME NEW n \in DOMAIN Append(q, e)
      PROVE  \E st \in RetryStates : Append(q, e)[n][2] = Unresolved(st)
  <2>1. CASE n = Len(q) + 1
    BY <2>1, <1>1
  <2>2. CASE n # Len(q) + 1
    <3>1. n \in 1 .. Len(q) /\ Append(q, e)[n] = q[n] /\ n \in DOMAIN q
      BY <2>2, <1>3, SMT
    <3> QED
      BY <3>1 DEF Plain
  <2> QED
    BY <2>1, <2>2
<1> QED
  BY <1>2, <1>3 DEF Plain, e

-----------------------------------------------------------------------------
(* Memories *)

(* Nothing that Sound and Kept look at has changed. *)
Alike(s, m) ==
    /\ m \in RunMemory
    /\ m.newLogs = s.newLogs /\ m.newTitles = s.newTitles /\ m.newOccs = s.newOccs
    /\ m.used = s.used /\ m.cands = s.cands /\ m.feed = s.feed

LEMMA AlikeIsSound ==
    ASSUME NEW s, NEW m, NEW T, NEW O, NEW A, Alike(s, m)
    PROVE  Sound(s, T, O) => Sound(m, T, O) /\ (Kept(s, O, A) => Kept(m, O, A))
  BY DEF Alike, Sound, Kept

(* The store only grows. *)
LEMMA GoodGrows ==
    ASSUME NEW s, NEW T, NEW O, NEW A, NEW T2, NEW O2,
           Good(s, T, O, A), T \subseteq T2, O \subseteq O2
    PROVE  Good(s, T2, O2, A)
<1>1. Sound(s, T2, O2)
  BY DEF Good, Sound
<1>2. s.pc \notin Over => Kept(s, O2, A)
  BY DEF Good, Kept
<1>3. Written(s, T2, O2)
  BY DEF Good, Written
<1> QED
  BY <1>1, <1>2, <1>3 DEF Good

LEMMA BlankIsSound ==
    ASSUME NEW pc \in Phases, NEW T, NEW O
    PROVE  Sound(Blank(pc), T, O) /\ Blank(pc).newOccs = <<>> /\ Blank(pc).pc = pc
<1> DEFINE m == Blank(pc)
<1>1. m \in RunMemory
  BY DEF Blank, RunMemory, Positions, NoPosition
<1>2. /\ m.newLogs = <<>> /\ m.newOccs = <<>> /\ m.newTitles = <<>> /\ m.used = <<>>
      /\ m.cands = [t \in Titles |-> NoPosition] /\ m.pc = pc
  BY DEF Blank
<1> HIDE DEF m
<1>3. Found(m.cands) = {}
  BY <1>2 DEF Found
<1>4. IsFiniteSet({})
  BY FS_EmptySet
<1>5. Ranked(m.cands, m.feed)
  BY <1>3, <1>4 DEF Ranked
<1>6. Plain(m.newLogs)
  BY <1>2 DEF Plain
<1>7. Sound(m, T, O)
  BY <1>1, <1>2, <1>3, <1>5, <1>6, RangeOfEmpty DEF Sound
<1> QED
  BY <1>7, <1>2 DEF m

LEMMA BlankIsGood ==
    ASSUME NEW pc \in Over \cup {"open"}, NEW T, NEW O, NEW A,
           pc = "open" => Range(A) \subseteq O
    PROVE  Good(Blank(pc), T, O, A)
<1> DEFINE m == Blank(pc)
<1>1. pc \in Phases
  BY DEF Over, Phases
<1>2. Sound(m, T, O) /\ m.newOccs = <<>> /\ m.pc = pc
  BY <1>1, BlankIsSound
<1> HIDE DEF m
<1>3. Placed(m) /\ Emptied(m) /\ Written(m, T, O)
  BY <1>2 DEF Placed, Emptied, Written, Over, Ending, Saving
<1>4. m.pc \notin Over => Kept(m, O, A)
  BY <1>2 DEF Kept, Over
<1> QED
  BY <1>2, <1>3, <1>4 DEF Good, m

-----------------------------------------------------------------------------
(* Where a flush leads *)

LEMMA PositionOfFound ==
    ASSUME NEW s \in RunMemory, NEW t \in Found(s.cands)
    PROVE  /\ t \in Titles /\ s.cands[t] \in Nat \X Nat
           /\ s.cands[t][1] \in Nat /\ s.cands[t][2] \in Nat
  BY DEF RunMemory, Found, Positions

LEMMA MovedIsAlike ==
    ASSUME NEW s \in RunMemory, NEW pc \in Phases
    PROVE  /\ Alike(s, [s EXCEPT !.pc = pc]) /\ [s EXCEPT !.pc = pc].pc = pc
           /\ Alike(s, [s EXCEPT !.pc = pc, !.at = 1])
           /\ [s EXCEPT !.pc = pc, !.at = 1].pc = pc
           /\ [s EXCEPT !.pc = pc, !.at = 1].at = 1
<1>1. Alike(s, [s EXCEPT !.pc = pc]) /\ [s EXCEPT !.pc = pc].pc = pc
  BY DEF Alike, RunMemory
<1>2. /\ Alike(s, [s EXCEPT !.pc = pc, !.at = 1])
      /\ [s EXCEPT !.pc = pc, !.at = 1].pc = pc
      /\ [s EXCEPT !.pc = pc, !.at = 1].at = 1
  BY DEF Alike, RunMemory
<1> QED
  BY <1>1, <1>2

(* A phase that asks nothing of the memory. *)
Easy == {"open", "query", "prune", "reload", "page", "reparse", "finish"}

LEMMA EasyIsGood ==
    ASSUME NEW s, NEW m, NEW T, NEW O, NEW A, Sound(s, T, O), Kept(s, O, A),
           Alike(s, m), m.pc \in Easy
    PROVE  Good(m, T, O, A)
<1>1. Sound(m, T, O) /\ Kept(m, O, A)
  BY AlikeIsSound
<1>2. Placed(m) /\ Emptied(m) /\ Written(m, T, O)
  BY DEF Placed, Emptied, Written, Easy, Ending, Saving
<1> QED
  BY <1>1, <1>2 DEF Good

LEMMA EasyMovedIsGood ==
    ASSUME NEW s, NEW T, NEW O, NEW A, Sound(s, T, O), Kept(s, O, A), NEW pc \in Easy
    PROVE  Good([s EXCEPT !.pc = pc], T, O, A)
<1>1. pc \in Phases /\ s \in RunMemory
  BY DEF Easy, Phases, Sound
<1>2. Alike(s, [s EXCEPT !.pc = pc]) /\ [s EXCEPT !.pc = pc].pc = pc
  BY <1>1, MovedIsAlike
<1> QED
  BY <1>2, EasyIsGood

LEMMA AfterRssIsGood ==
    ASSUME NEW r, NEW s, NEW T, NEW O, NEW A, Sound(s, T, O), Kept(s, O, A)
    PROVE  Good(AfterRss(r, s), T, O, A)
<1> DEFINE next == IF ModeOf[r] = "all" THEN "reload" ELSE "finish"
           m == [s EXCEPT !.pc = next]
<1>1. s \in RunMemory /\ next \in Phases /\ next \in Easy
  BY DEF Sound, Phases, Easy
<1>2. AfterRss(r, s) = m
  BY DEF AfterRss
<1> HIDE DEF next
<1>3. Alike(s, m) /\ m.pc = next
  BY <1>1, MovedIsAlike
<1> HIDE DEF m
<1> QED
  BY <1>1, <1>2, <1>3, EasyIsGood

LEMMA NextFeedIsGood ==
    ASSUME NEW r, NEW s, NEW T, NEW O, NEW A, Sound(s, T, O), Kept(s, O, A)
    PROVE  Good(NextFeed(r, s), T, O, A)
<1>0. s \in RunMemory /\ s.feed \in Nat /\ Len(Feeds) \in Nat
  BY StoreAssumption DEF Sound, RunMemory
<1>1. CASE s.feed < Len(Feeds)
  <2> DEFINE m == [s EXCEPT !.pc = "fetch", !.feed = @ + 1]
  <2>0. s.feed + 1 \in Nat /\ "fetch" \in Phases
    BY <1>0 DEF Phases
  <2>1. /\ m \in RunMemory
        /\ m.newLogs = s.newLogs /\ m.newTitles = s.newTitles /\ m.newOccs = s.newOccs
        /\ m.used = s.used /\ m.cands = s.cands /\ m.feed = s.feed + 1 /\ m.pc = "fetch"
    <3> DEFINE f == s.feed + 1
    <3>1. f \in Nat /\ m = [s EXCEPT !.pc = "fetch", !.feed = f]
      BY <2>0
    <3> HIDE DEF f
    <3>2. /\ m \in RunMemory
          /\ m.newLogs = s.newLogs /\ m.newTitles = s.newTitles /\ m.newOccs = s.newOccs
          /\ m.used = s.used /\ m.cands = s.cands /\ m.feed = f /\ m.pc = "fetch"
      BY <1>0, <2>0, <3>1 DEF RunMemory
    <3> QED
      BY <3>2 DEF f
  <2>2. NextFeed(r, s) = m
    BY <1>1 DEF NextFeed
  <2> HIDE DEF m
  <2>3. \A t \in Found(m.cands) : m.cands[t][1] \in Nat /\ m.cands[t][1] < m.feed
    BY <1>0, <2>1, PositionOfFound DEF Sound, Ranked
  <2>4. Ranked(m.cands, m.feed)
    BY <1>0, <2>1, <2>3 DEF Sound, Ranked
  <2>5. Sound(m, T, O) /\ Kept(m, O, A)
    BY <2>1, <2>4 DEF Sound, Kept
  <2>6. Placed(m) /\ Emptied(m) /\ Written(m, T, O)
    BY <1>0, <1>1, <2>1, <2>3 DEF Placed, Emptied, Written, Ending, Saving
  <2> QED
    BY <2>2, <2>5, <2>6 DEF Good
<1>2. CASE ~(s.feed < Len(Feeds))
  BY <1>2, AfterRssIsGood DEF NextFeed
<1> QED
  BY <1>1, <1>2

LEMMA ErredIsAlike ==
    ASSUME NEW s \in RunMemory
    PROVE  Alike(s, Erred(s)) /\ Alike(s, RssErred(s))
           /\ Erred(s).pc = s.pc /\ RssErred(s).pc = s.pc
           /\ RssErred(s).entry = s.entry
<1> DEFINE m == Erred(s)
<1>1. Alike(s, m) /\ m.pc = s.pc /\ m.entry = s.entry
  BY DEF Erred, Alike, RunMemory
<1>2. RssErred(s) = [m EXCEPT !.clean = FALSE]
  BY DEF RssErred
<1> HIDE DEF m
<1>3. m \in RunMemory
  BY <1>1 DEF Alike
<1> DEFINE n == [m EXCEPT !.clean = FALSE]
<1>4. Alike(m, n) /\ n.pc = m.pc /\ n.entry = m.entry
  BY <1>3 DEF Alike, RunMemory
<1> HIDE DEF n
<1>5. Alike(s, n)
  BY <1>1, <1>4 DEF Alike
<1> QED
  BY <1>1, <1>2, <1>4, <1>5 DEF m, n

LEMMA FlushFailedIsGood ==
    ASSUME NEW r, NEW s, NEW T, NEW O, NEW A, Sound(s, T, O), Kept(s, O, A)
    PROVE  Good(FlushFailed(r, s), T, O, A)
<1>1. Good(Blank("dead"), T, O, A)
  BY BlankIsGood DEF Over
<1> DEFINE m == RssErred(s)
<1>2. Alike(s, m)
  BY ErredIsAlike DEF Sound
<1> HIDE DEF m
<1>3. Sound(m, T, O) /\ Kept(m, O, A)
  BY <1>2, AlikeIsSound
<1>4. Good(NextFeed(r, m), T, O, A)
  BY <1>3, NextFeedIsGood
<1> QED
  BY <1>1, <1>4 DEF FlushFailed, m

LEMMA PublishingIsGood ==
    ASSUME NEW r, NEW s, NEW T, NEW O, NEW A, Sound(s, T, O), Kept(s, O, A),
           s.newLogs = <<>>, s.newTitles = <<>>, s.newOccs = <<>>, s.used = <<>>
    PROVE  Good(Publishing(r, s), T, O, A)
<1> DEFINE m == Publishing(r, s)
<1>1. s \in RunMemory
  BY DEF Sound
<1>2. Alike(s, m) /\ m.pc \in {"stage", "close"}
  BY <1>1 DEF Publishing, Alike, RunMemory, Phases
<1> HIDE DEF m
<1>3. Sound(m, T, O) /\ Kept(m, O, A)
  BY <1>2, AlikeIsSound
<1>4. Placed(m) /\ Emptied(m) /\ Written(m, T, O)
  BY <1>2 DEF Placed, Emptied, Written, Ending, Saving, Alike
<1> QED
  BY <1>3, <1>4 DEF Good, m

LEMMA ToUsedIsGood ==
    ASSUME NEW r, NEW s, NEW T, NEW O, NEW A, Sound(s, T, O), Kept(s, O, A),
           s.newLogs = <<>>, s.newTitles = <<>>, s.newOccs = <<>>
    PROVE  Good(ToUsed(r, s), T, O, A)
<1>1. CASE s.used = <<>>
  <2>1. Good(Publishing(r, s), T, O, A) /\ Good(NextFeed(r, s), T, O, A)
    BY <1>1, PublishingIsGood, NextFeedIsGood
  <2> QED
    BY <1>1, <2>1 DEF ToUsed, AfterFlush
<1>2. CASE s.used # <<>>
  <2> DEFINE m == [s EXCEPT !.pc = "used"]
  <2>1. Alike(s, m) /\ m.pc = "used"
    <3>1. s \in RunMemory /\ "used" \in Phases
      BY DEF Sound, Phases
    <3> QED
      BY <3>1, MovedIsAlike
  <2>2. ToUsed(r, s) = m
    BY <1>2 DEF ToUsed
  <2> HIDE DEF m
  <2>3. Sound(m, T, O) /\ Kept(m, O, A)
    BY <2>1, AlikeIsSound
  <2>4. Placed(m) /\ Emptied(m) /\ Written(m, T, O)
    BY <2>1, <1>2 DEF Placed, Emptied, Written, Ending, Saving, Alike
  <2> QED
    BY <2>2, <2>3, <2>4 DEF Good
<1> QED
  BY <1>1, <1>2

LEMMA NotEmptyLen ==
    ASSUME NEW S, NEW q \in Seq(S), q # <<>>
    PROVE  1 \in 1 .. Len(q)
  OBVIOUS

LEMMA ToOccsIsGood ==
    ASSUME NEW r, NEW s, NEW T, NEW O, NEW A, Sound(s, T, O), Kept(s, O, A),
           s.newLogs = <<>>, s.newTitles = <<>>
    PROVE  Good(ToOccs(r, s), T, O, A)
<1>1. CASE s.newOccs = <<>>
  BY <1>1, ToUsedIsGood DEF ToOccs
<1>2. CASE s.newOccs # <<>>
  <2> DEFINE m == [s EXCEPT !.pc = "occs", !.at = 1]
  <2>1. Alike(s, m) /\ m.pc = "occs" /\ m.at = 1
    <3>1. s \in RunMemory /\ "occs" \in Phases
      BY DEF Sound, Phases
    <3> QED
      BY <3>1, MovedIsAlike
  <2>2. ToOccs(r, s) = m
    BY <1>2 DEF ToOccs
  <2> HIDE DEF m
  <2>3. Sound(m, T, O) /\ Kept(m, O, A)
    BY <2>1, AlikeIsSound
  <2>4. m.at \in 1 .. Len(m.newOccs)
    BY <1>2, <2>1, NotEmptyLen DEF Alike, Sound, RunMemory
  <2>5. Placed(m) /\ Emptied(m) /\ Written(m, T, O)
    BY <2>1, <2>4, <1>2 DEF Placed, Emptied, Written, Ending, Saving, Alike
  <2> QED
    BY <2>2, <2>3, <2>5 DEF Good
<1> QED
  BY <1>1, <1>2

LEMMA ToTitlesIsGood ==
    ASSUME NEW r, NEW s, NEW T, NEW O, NEW A, Sound(s, T, O), Kept(s, O, A),
           s.newLogs = <<>>
    PROVE  Good(ToTitles(r, s), T, O, A)
<1>1. CASE s.newTitles = <<>>
  BY <1>1, ToOccsIsGood DEF ToTitles
<1>2. CASE s.newTitles # <<>>
  <2> DEFINE m == [s EXCEPT !.pc = "titles", !.at = 1]
  <2>1. Alike(s, m) /\ m.pc = "titles" /\ m.at = 1
    <3>1. s \in RunMemory /\ "titles" \in Phases
      BY DEF Sound, Phases
    <3> QED
      BY <3>1, MovedIsAlike
  <2>2. ToTitles(r, s) = m
    BY <1>2 DEF ToTitles
  <2> HIDE DEF m
  <2>3. Sound(m, T, O) /\ Kept(m, O, A)
    BY <2>1, AlikeIsSound
  <2>4. m.at \in 1 .. Len(m.newTitles)
    BY <1>2, <2>1, NotEmptyLen DEF Alike, Sound, RunMemory
  <2>5. Placed(m) /\ Emptied(m) /\ Written(m, T, O)
    BY <2>1, <2>4, <1>2 DEF Placed, Emptied, Written, Ending, Saving, Alike
  <2> QED
    BY <2>2, <2>3, <2>5 DEF Good
<1> QED
  BY <1>1, <1>2

LEMMA ToLogsIsGood ==
    ASSUME NEW r, NEW s, NEW T, NEW O, NEW A, Sound(s, T, O), Kept(s, O, A)
    PROVE  Good(ToLogs(r, s), T, O, A)
<1>1. CASE s.newLogs = <<>>
  BY <1>1, ToTitlesIsGood DEF ToLogs
<1>2. CASE s.newLogs # <<>>
  <2> DEFINE m == [s EXCEPT !.pc = "logs", !.at = 1]
  <2>1. Alike(s, m) /\ m.pc = "logs" /\ m.at = 1
    <3>1. s \in RunMemory /\ "logs" \in Phases
      BY DEF Sound, Phases
    <3> QED
      BY <3>1, MovedIsAlike
  <2>2. ToLogs(r, s) = m
    BY <1>2 DEF ToLogs
  <2> HIDE DEF m
  <2>3. Sound(m, T, O) /\ Kept(m, O, A)
    BY <2>1, AlikeIsSound
  <2>4. m.at \in 1 .. Len(m.newLogs)
    BY <1>2, <2>1, NotEmptyLen DEF Alike, Sound, RunMemory
  <2>5. Placed(m) /\ Emptied(m) /\ Written(m, T, O)
    BY <2>1, <2>4, <1>2 DEF Placed, Emptied, Written, Ending, Saving, Alike
  <2> QED
    BY <2>2, <2>3, <2>5 DEF Good
<1> QED
  BY <1>1, <1>2

-----------------------------------------------------------------------------
(* One run takes a step *)

LEMMA AnswerCounted ==
    ASSUME NEW r, NEW ok, NEW failed, failures \in 0 .. MaxFailures,
           NEW answer \in Answers \cup {"unreadable"}, Continue(r, answer, ok, failed)
    PROVE  /\ failures' \in 0 .. MaxFailures
           /\ scan' = [scan EXCEPT ![r] = IF Raised(answer) THEN failed ELSE ok]
           /\ Raised(answer) \/ Landed(answer)
<1>1. MaxFailures \in Nat
  BY StoreAssumption
<1> QED
  BY <1>1 DEF Answers, Continue, Raised, Landed

LEMMA OneRunMoves ==
    ASSUME IInv, NEW r \in Runs, NEW m, scan' = [scan EXCEPT ![r] = m],
           titles \subseteq titles', occs \subseteq occs',
           Stored', FiledUnderStoredTitles', ResolvedFiled',
           \A q \in Runs \ {r} : accepted'[q] = accepted[q] /\ runDoc'[q] = runDoc[q],
           Good(m, titles', occs', accepted'[r]),
           runDoc'[r] \in Closed => m.pc \in Over /\ Range(accepted'[r]) \subseteq occs'
    PROVE  IInv'
<1>1. scan \in [Runs -> RunMemory]
  BY DEF IInv
<1>2. /\ scan'[r] = m
      /\ \A q \in Runs \ {r} : scan'[q] = scan[q]
  BY <1>1
<1>3. m \in RunMemory
  BY DEF Good, Sound
<1>4. scan' \in [Runs -> RunMemory]
  BY <1>1, <1>3
<1>5. ASSUME NEW q \in Runs
      PROVE  Good(scan'[q], titles', occs', accepted'[q])
  <2>1. CASE q = r
    BY <2>1, <1>2
  <2>2. CASE q # r
    <3>1. Good(scan[q], titles, occs, accepted[q])
      BY DEF IInv
    <3>2. Good(scan[q], titles', occs', accepted[q])
      BY <3>1, GoodGrows
    <3> QED
      BY <3>2, <2>2, <1>2
  <2> QED
    BY <2>1, <2>2
<1>6. ASSUME NEW q \in Runs, runDoc'[q] \in Closed
      PROVE  scan'[q].pc \in Over /\ Range(accepted'[q]) \subseteq occs'
  <2>1. CASE q = r
    BY <2>1, <1>2, <1>6
  <2>2. CASE q # r
    <3>1. runDoc[q] \in Closed
      BY <2>2, <1>6
    <3>2. scan[q].pc \in Over /\ Range(accepted[q]) \subseteq occs
      BY <3>1 DEF IInv, ClosedWell
    <3> QED
      BY <3>2, <2>2, <1>2
  <2> QED
    BY <2>1, <2>2
<1>7. (\A q \in Runs : Good(scan[q], titles, occs, accepted[q]))'
  BY <1>5
<1>8. ClosedWell'
  BY <1>6 DEF ClosedWell
<1> QED
  BY <1>4, <1>7, <1>8 DEF IInv

(* A run that goes on is not closed. *)
LEMMA GoingOn ==
    ASSUME IInv, NEW r \in Runs, scan[r].pc \notin Over
    PROVE  /\ runDoc[r] \notin Closed
           /\ scan[r] \in RunMemory
           /\ Good(scan[r], titles, occs, accepted[r])
           /\ Sound(scan[r], titles, occs)
           /\ Kept(scan[r], occs, accepted[r])
  BY DEF IInv, ClosedWell, Good

(* The store is left as it is. *)
LEMMA MemoryMoves ==
    ASSUME IInv, NEW r \in Runs, scan[r].pc \notin Over, NEW m,
           scan' = [scan EXCEPT ![r] = m], Good(m, titles, occs, accepted[r]),
           UNCHANGED <<catalog, diagnostics, mappings, runDoc, latest, edits, accepted>>,
           failures' \in 0 .. MaxFailures, crashes' \in 0 .. MaxCrashes,
           troubled' \subseteq Runs
    PROVE  IInv'
<1>1. UNCHANGED <<titles, occs, logs, aged, mappings, runDoc, snaps, pointer, edits, accepted>>
  BY DEF catalog, diagnostics, latest
<1>2. Stored'
  BY <1>1 DEF IInv, Stored
<1>3. FiledUnderStoredTitles' /\ ResolvedFiled'
  BY <1>1 DEF IInv, FiledUnderStoredTitles, ResolvedFiled
<1>4. runDoc[r] \notin Closed
  BY GoingOn
<1> QED
  BY <1>1, <1>2, <1>3, <1>4, OneRunMoves

(* Logs are written, by a run that keeps to resolutions that are filed. *)
LEMMA LogsMove ==
    ASSUME IInv, NEW r \in Runs, scan[r].pc \notin Over, NEW m,
           scan' = [scan EXCEPT ![r] = m], Good(m, titles, occs, accepted[r]),
           UNCHANGED <<catalog, mappings, runDoc, latest, crashes, edits, observed>>,
           failures' \in 0 .. MaxFailures,
           logs' \in [Items -> Logs], aged' \subseteq {i \in Items : logs'[i] # NoLog},
           \A i \in Items : logs'[i].outcome = "matched" => <<logs'[i].title, i>> \in occs
    PROVE  IInv'
<1>1. UNCHANGED <<titles, occs, mappings, runDoc, snaps, pointer, crashes, edits, accepted, troubled>>
  BY DEF catalog, latest, observed
<1>2. Stored'
  BY <1>1 DEF IInv, Stored
<1>3. FiledUnderStoredTitles' /\ ResolvedFiled'
  BY <1>1 DEF IInv, FiledUnderStoredTitles, ResolvedFiled
<1>4. runDoc[r] \notin Closed
  BY GoingOn
<1> QED
  BY <1>1, <1>2, <1>3, <1>4, OneRunMoves

(* Merging two logs. *)
LEMMA MergedIsTyped ==
    ASSUME NEW old \in Logs, NEW new \in Logs
    PROVE  /\ Merged(old, new) \in Logs
           /\ Merged(old, new).state = new.state
           /\ Merged(old, new).outcome = "matched" =>
                 \/ old.outcome = "matched" /\ Merged(old, new).title = old.title
                 \/ new.outcome = "matched" /\ Merged(old, new).title = new.title
  BY DEF Merged, Logs, ResolutionMatches

LEMMA AddLogMoves ==
    ASSUME IInv, NEW i \in Items, NEW log \in Logs, log.state # "absent", NEW answer,
           AddLog(answer, i, log),
           log.outcome = "matched" => <<log.title, i>> \in occs
    PROVE  /\ logs' \in [Items -> Logs]
           /\ aged' \subseteq {k \in Items : logs'[k] # NoLog}
           /\ \A k \in Items : logs'[k].outcome = "matched" => <<logs'[k].title, k>> \in occs
           /\ \A k \in Items : logs[k] # NoLog => logs'[k] # NoLog
           /\ Landed(answer) => logs'[i] # NoLog
<1>1. /\ logs \in [Items -> Logs] /\ aged \subseteq {k \in Items : logs[k] # NoLog}
      /\ \A k \in Items : logs[k].outcome = "matched" => <<logs[k].title, k>> \in occs
  BY DEF IInv, Stored, ResolvedFiled
<1>2. CASE ~Landed(answer)
  <2>1. logs' = logs /\ aged' = aged
    BY <1>2 DEF AddLog, diagnostics
  <2> QED
    BY <2>1, <1>1, <1>2
<1>3. CASE Landed(answer)
  <2> DEFINE new == Merged(logs[i], log)
  <2>1. logs' = [logs EXCEPT ![i] = new] /\ aged' = aged \ {i}
    BY <1>3 DEF AddLog
  <2>2. /\ new \in Logs /\ new.state # "absent"
        /\ new.outcome = "matched" => <<new.title, i>> \in occs
    BY <1>1, MergedIsTyped
  <2> HIDE DEF new
  <2>3. new # NoLog
    BY <2>2 DEF NoLog, Unresolved
  <2> QED
    BY <1>1, <2>1, <2>2, <2>3
<1> QED
  BY <1>2, <1>3

-----------------------------------------------------------------------------
(* Before the phases *)

LEMMA StoreIsTyped ==
    ASSUME IInv
    PROVE  /\ Stored /\ FiledUnderStoredTitles /\ ResolvedFiled
           /\ failures \in 0 .. MaxFailures /\ crashes \in 0 .. MaxCrashes
           /\ troubled \subseteq Runs
  BY DEF IInv, Stored

LEMMA DeadIsGood ==
    ASSUME NEW T, NEW O, NEW A
    PROVE  Good(Blank("dead"), T, O, A)
  BY BlankIsGood DEF Over

LEMMA LoadMappingsStep ==
    ASSUME IInv, NEW r \in Runs, LoadMappings(r)
    PROVE  IInv'
<1> DEFINE b == Blank("open")
           ok == [b EXCEPT !.loaded = mappings]
<1>1. scan[r].pc = "idle"
  BY DEF LoadMappings
<1>2. PICK answer \in Answers \ {"lost"} : Continue(r, answer, ok, Blank("dead"))
  BY DEF LoadMappings
<1>3. scan[r].pc \notin Over
  BY <1>1 DEF Over
<1>4. Range(accepted[r]) \subseteq occs
  BY <1>1, <1>3, GoingOn, RangeOfEmpty DEF Good, Placed, Kept
<1>5. Good(b, titles, occs, accepted[r]) /\ b.pc = "open"
  BY <1>4, BlankIsGood DEF Blank
<1>6. Sound(b, titles, occs) /\ Kept(b, occs, accepted[r])
  BY <1>5 DEF Good, Over
<1> HIDE DEF b
<1>7. mappings \in [Items -> Titles \cup {NoTitle}]
  BY DEF IInv, Stored
<1>8. b \in RunMemory
  BY <1>6 DEF Sound
<1>9. Alike(b, ok) /\ ok.pc = "open"
  BY <1>5, <1>7, <1>8 DEF Alike, RunMemory
<1> HIDE DEF ok
<1>10. Good(ok, titles, occs, accepted[r])
  BY <1>6, <1>9, EasyIsGood DEF Easy
<1> DEFINE m == IF Raised(answer) THEN Blank("dead") ELSE ok
<1>11. Good(m, titles, occs, accepted[r])
  BY <1>10, DeadIsGood
<1>12. failures' \in 0 .. MaxFailures /\ scan' = [scan EXCEPT ![r] = m]
  BY <1>2, AnswerCounted, StoreIsTyped
<1>13. UNCHANGED <<catalog, diagnostics, mappings, runDoc, latest, crashes, edits, observed>>
  BY DEF LoadMappings
<1> HIDE DEF m
<1> QED
  BY <1>3, <1>11, <1>12, <1>13, MemoryMoves, StoreIsTyped DEF observed

LEMMA EasyMove ==
    ASSUME IInv, NEW r \in Runs, scan[r].pc \notin Over, NEW pc \in Easy
    PROVE  Good([scan[r] EXCEPT !.pc = pc], titles, occs, accepted[r])
  BY GoingOn, EasyMovedIsGood

LEMMA OpenRunStep ==
    ASSUME IInv, NEW r \in Runs, OpenRun(r)
    PROVE  IInv'
<1> DEFINE ok == [scan[r] EXCEPT !.pc = "query"]
<1>1. scan[r].pc \notin Over
  BY DEF OpenRun, Over
<1>2. PICK answer \in Answers :
        /\ runDoc' = IF Landed(answer) THEN [runDoc EXCEPT ![r] = "running"] ELSE runDoc
        /\ Continue(r, answer, ok, Blank("dead"))
  BY DEF OpenRun
<1>3. Good(ok, titles, occs, accepted[r])
  BY <1>1, EasyMove DEF Easy
<1> HIDE DEF ok
<1> DEFINE m == IF Raised(answer) THEN Blank("dead") ELSE ok
<1>4. Good(m, titles, occs, accepted[r])
  BY <1>3, DeadIsGood
<1>5. failures' \in 0 .. MaxFailures /\ scan' = [scan EXCEPT ![r] = m]
  BY <1>2, AnswerCounted, StoreIsTyped
<1>6. UNCHANGED <<titles, occs, logs, aged, mappings, snaps, pointer, crashes, edits, accepted, troubled>>
  BY DEF OpenRun, catalog, diagnostics, latest, observed
<1>7. runDoc \in [Runs -> {"absent", "running"} \cup Closed]
  BY StoreIsTyped DEF Stored
<1>8. /\ runDoc' \in [Runs -> {"absent", "running"} \cup Closed]
      /\ \A q \in Runs \ {r} : runDoc'[q] = runDoc[q]
      /\ runDoc'[r] \in {"running", runDoc[r]}
  BY <1>2, <1>7
<1>9. runDoc'[r] \notin Closed
  BY <1>1, <1>8, GoingOn DEF Closed
<1>10. Stored' /\ FiledUnderStoredTitles' /\ ResolvedFiled'
  BY <1>5, <1>6, <1>8, StoreIsTyped DEF Stored, FiledUnderStoredTitles, ResolvedFiled
<1> HIDE DEF m
<1> QED
  BY <1>4, <1>5, <1>6, <1>8, <1>9, <1>10, OneRunMoves

(* The memory of a query's or a deletion's answer. *)
LEMMA VictimsAreAlike ==
    ASSUME NEW s \in RunMemory, NEW v \in SUBSET Items
    PROVE  Alike(s, [s EXCEPT !.victims = v]) /\ [s EXCEPT !.victims = v].pc = s.pc
  BY DEF Alike, RunMemory

LEMMA FirstPhaseIsGood ==
    ASSUME NEW r, NEW s, NEW T, NEW O, NEW A, Sound(s, T, O), Kept(s, O, A)
    PROVE  Good(FirstPhase(r, s), T, O, A)
<1> DEFINE m == [s EXCEPT !.pc = "reload"]
<1>1. "reload" \in Easy
  BY DEF Easy
<1>2. Good(m, T, O, A)
  BY <1>1, EasyMovedIsGood
<1> HIDE DEF m
<1> QED
  BY <1>2, NextFeedIsGood DEF FirstPhase, m

LEMMA QueryOldLogsStep ==
    ASSUME IInv, NEW r \in Runs, QueryOldLogs(r)
    PROVE  IInv'
<1> DEFINE s == [scan[r] EXCEPT !.victims = Victims]
           prune == [s EXCEPT !.pc = "prune"]
           ok == IF Victims = {} /\ AgedUnreadable = {} THEN FirstPhase(r, s) ELSE prune
<1>0. s.pc = "query"
  BY DEF QueryOldLogs
<1>1. scan[r] \in RunMemory /\ Victims \in SUBSET Items
  BY DEF IInv, Stored, Victims
<1>2. Alike(scan[r], s) /\ s.pc = scan[r].pc
  BY <1>1, VictimsAreAlike
<1>3. PICK answer \in Answers \ {"lost"} : Continue(r, answer, ok, Blank("dead"))
  BY DEF QueryOldLogs
<1>4. scan[r].pc \notin Over
  BY <1>0, <1>2 DEF Over
<1>5. Sound(s, titles, occs) /\ Kept(s, occs, accepted[r])
  BY <1>2, <1>4, GoingOn, AlikeIsSound
<1> HIDE DEF s
<1>6. Good(prune, titles, occs, accepted[r])
  <2>1. "prune" \in Easy
    BY DEF Easy
  <2> QED
    BY <1>5, <2>1, EasyMovedIsGood
<1> HIDE DEF prune
<1>7. Good(ok, titles, occs, accepted[r])
  BY <1>5, <1>6, FirstPhaseIsGood
<1> HIDE DEF ok
<1> DEFINE m == IF Raised(answer) THEN Blank("dead") ELSE ok
<1>8. Good(m, titles, occs, accepted[r])
  BY <1>7, DeadIsGood
<1>9. failures' \in 0 .. MaxFailures /\ scan' = [scan EXCEPT ![r] = m]
  BY <1>3, AnswerCounted, StoreIsTyped
<1>10. UNCHANGED <<catalog, diagnostics, mappings, runDoc, latest, crashes, edits, observed>>
  BY DEF QueryOldLogs
<1> HIDE DEF m
<1> QED
  BY <1>4, <1>8, <1>9, <1>10, MemoryMoves, StoreIsTyped DEF observed

LEMMA PruneLogStep ==
    ASSUME IInv, NEW r \in Runs, PruneLog(r)
    PROVE  IInv'
<1>1. scan[r].pc = "prune" /\ scan[r] \in RunMemory
  BY DEF PruneLog, IInv
<1>2. scan[r].pc \notin Over
  BY <1>1 DEF Over
<1>3. PICK i \in scan[r].victims, answer \in Answers :
        LET s == [scan[r] EXCEPT !.victims = @ \ {i}] IN
          /\ IF Landed(answer)
             THEN logs' = [logs EXCEPT ![i] = NoLog] /\ aged' = aged \ {i}
             ELSE UNCHANGED diagnostics
          /\ Continue(r, answer,
                      IF s.victims = {} /\ AgedUnreadable = {} THEN FirstPhase(r, s) ELSE s,
                      Blank("dead"))
  BY DEF PruneLog
<1> DEFINE s == [scan[r] EXCEPT !.victims = @ \ {i}]
           ok == IF s.victims = {} /\ AgedUnreadable = {} THEN FirstPhase(r, s) ELSE s
<1>4. scan[r].victims \ {i} \in SUBSET Items /\ i \in Items
  BY <1>1 DEF RunMemory
<1>5. Alike(scan[r], s) /\ s.pc = "prune"
  BY <1>1, <1>4, VictimsAreAlike
<1>6. Sound(s, titles, occs) /\ Kept(s, occs, accepted[r])
  BY <1>2, <1>5, GoingOn, AlikeIsSound
<1>7. Good(s, titles, occs, accepted[r])
  BY <1>2, <1>5, GoingOn, EasyIsGood DEF Easy
<1>8. Continue(r, answer, ok, Blank("dead"))
  BY <1>3
<1> HIDE DEF s
<1>9. Good(ok, titles, occs, accepted[r])
  BY <1>6, <1>7, FirstPhaseIsGood
<1> HIDE DEF ok
<1> DEFINE m == IF Raised(answer) THEN Blank("dead") ELSE ok
<1>10. Good(m, titles, occs, accepted[r])
  BY <1>9, DeadIsGood
<1>11. failures' \in 0 .. MaxFailures /\ scan' = [scan EXCEPT ![r] = m]
  BY <1>8, AnswerCounted, StoreIsTyped
<1>12. UNCHANGED <<catalog, mappings, runDoc, latest, crashes, edits, observed>>
  BY DEF PruneLog
<1>13. \/ logs' = [logs EXCEPT ![i] = NoLog] /\ aged' = aged \ {i}
       \/ logs' = logs /\ aged' = aged
  BY <1>3 DEF diagnostics
<1>14. NoLog \in Logs /\ NoLog.outcome = "none"
  BY DEF NoLog, Unresolved, Logs
<1>15. /\ logs \in [Items -> Logs] /\ aged \subseteq {k \in Items : logs[k] # NoLog}
       /\ \A k \in Items : logs[k].outcome = "matched" => <<logs[k].title, k>> \in occs
  BY StoreIsTyped DEF Stored, ResolvedFiled
<1>16. /\ logs' \in [Items -> Logs] /\ aged' \subseteq {k \in Items : logs'[k] # NoLog}
       /\ \A k \in Items : logs'[k].outcome = "matched" => <<logs'[k].title, k>> \in occs
  BY <1>4, <1>13, <1>14, <1>15
<1> HIDE DEF m
<1> QED
  BY <1>2, <1>10, <1>11, <1>12, <1>16, LogsMove

LEMMA PruneRaisesStep ==
    ASSUME IInv, NEW r \in Runs, PruneRaises(r)
    PROVE  IInv'
<1>1. scan[r].pc \notin Over
  BY DEF PruneRaises, Over
<1>2. scan' = [scan EXCEPT ![r] = Blank("dead")]
  BY DEF PruneRaises
<1>3. Good(Blank("dead"), titles, occs, accepted[r])
  BY DeadIsGood
<1>4. UNCHANGED <<catalog, diagnostics, mappings, runDoc, latest, failures, crashes, edits, observed>>
  BY DEF PruneRaises
<1> QED
  BY <1>1, <1>2, <1>3, <1>4, MemoryMoves, StoreIsTyped DEF observed

LEMMA CrashStep ==
    ASSUME IInv, NEW r \in Runs, Crash(r)
    PROVE  IInv'
<1>1. scan[r].pc \notin Over
  BY DEF Crash, Active, Over
<1>2. scan' = [scan EXCEPT ![r] = Blank("dead")]
  BY DEF Crash
<1>3. Good(Blank("dead"), titles, occs, accepted[r])
  BY DeadIsGood
<1>4. UNCHANGED <<catalog, diagnostics, mappings, runDoc, latest, failures, edits, observed>>
  BY DEF Crash
<1>5. crashes' \in 0 .. MaxCrashes
  BY StoreIsTyped, StoreAssumption DEF Crash
<1> QED
  BY <1>1, <1>2, <1>3, <1>4, <1>5, MemoryMoves, StoreIsTyped DEF observed

-----------------------------------------------------------------------------
(* The four loops of a flush *)

LEMMA NextAtIsAlike ==
    ASSUME NEW s \in RunMemory
    PROVE  /\ Alike(s, [s EXCEPT !.at = @ + 1]) /\ [s EXCEPT !.at = @ + 1].pc = s.pc
           /\ [s EXCEPT !.at = @ + 1].at = s.at + 1
<1> DEFINE n == s.at + 1
<1>1. n \in Nat
  BY DEF RunMemory
<1> HIDE DEF n
<1>2. /\ Alike(s, [s EXCEPT !.at = n]) /\ [s EXCEPT !.at = n].pc = s.pc
      /\ [s EXCEPT !.at = n].at = n
  BY <1>1 DEF Alike, RunMemory
<1> QED
  BY <1>2 DEF n

LEMMA LogsCleared ==
    ASSUME NEW s, NEW T, NEW O, NEW A, Sound(s, T, O), Kept(s, O, A)
    PROVE  LET m == [s EXCEPT !.newLogs = <<>>] IN
           Sound(m, T, O) /\ Kept(m, O, A) /\ m.newLogs = <<>>
<1> DEFINE m == [s EXCEPT !.newLogs = <<>>]
<1>1. s \in RunMemory /\ <<>> \in Seq(Items \X Logs)
  BY DEF Sound
<1>2. /\ m \in RunMemory
      /\ m.newLogs = <<>> /\ m.newTitles = s.newTitles /\ m.newOccs = s.newOccs
      /\ m.used = s.used /\ m.cands = s.cands /\ m.feed = s.feed
  BY <1>1 DEF RunMemory
<1> HIDE DEF m
<1>3. Plain(m.newLogs)
  BY <1>2 DEF Plain
<1>4. Sound(m, T, O) /\ Kept(m, O, A)
  BY <1>2, <1>3 DEF Sound, Kept
<1> QED
  BY <1>2, <1>4 DEF m

LEMMA TitlesCleared ==
    ASSUME NEW s, NEW T, NEW O, NEW A, Sound(s, T, O), Kept(s, O, A),
           Range(s.newTitles) \subseteq T
    PROVE  LET m == [s EXCEPT !.newTitles = <<>>] IN
           Sound(m, T, O) /\ Kept(m, O, A) /\ m.newTitles = <<>> /\ m.newLogs = s.newLogs
<1> DEFINE m == [s EXCEPT !.newTitles = <<>>]
<1>1. s \in RunMemory /\ <<>> \in Seq(Titles)
  BY DEF Sound
<1>2. /\ m \in RunMemory
      /\ m.newLogs = s.newLogs /\ m.newTitles = <<>> /\ m.newOccs = s.newOccs
      /\ m.used = s.used /\ m.cands = s.cands /\ m.feed = s.feed
  BY <1>1 DEF RunMemory
<1> HIDE DEF m
<1>3. Sound(m, T, O) /\ Kept(m, O, A)
  BY <1>2 DEF Sound, Kept
<1> QED
  BY <1>2, <1>3 DEF m

LEMMA OccsCleared ==
    ASSUME NEW s, NEW T, NEW O, NEW A, Sound(s, T, O), Kept(s, O, A),
           Range(s.newOccs) \subseteq O
    PROVE  LET m == [s EXCEPT !.newOccs = <<>>] IN
           /\ Sound(m, T, O) /\ Kept(m, O, A) /\ m.newOccs = <<>>
           /\ m.newLogs = s.newLogs /\ m.newTitles = s.newTitles
<1> DEFINE m == [s EXCEPT !.newOccs = <<>>]
<1>1. s \in RunMemory /\ <<>> \in Seq(Titles \X Items)
  BY DEF Sound
<1>2. /\ m \in RunMemory
      /\ m.newLogs = s.newLogs /\ m.newTitles = s.newTitles /\ m.newOccs = <<>>
      /\ m.used = s.used /\ m.cands = s.cands /\ m.feed = s.feed
  BY <1>1 DEF RunMemory
<1> HIDE DEF m
<1>3. Sound(m, T, O) /\ Kept(m, O, A)
  BY <1>2, RangeOfEmpty DEF Sound, Kept
<1> QED
  BY <1>2, <1>3 DEF m

LEMMA FlushLogStep ==
    ASSUME IInv, NEW r \in Runs, FlushLog(r)
    PROVE  IInv'
<1> DEFINE s == scan[r]
           i == s.newLogs[s.at][1]
           log == s.newLogs[s.at][2]
           cleared == [s EXCEPT !.newLogs = <<>>]
           onward == [s EXCEPT !.at = @ + 1]
           ok == IF s.at < Len(s.newLogs) THEN onward ELSE ToTitles(r, cleared)
<1>1. s.pc = "logs"
  BY DEF FlushLog
<1>2. PICK answer \in LogAnswers(i) :
        AddLog(answer, i, log) /\ Continue(r, answer, ok, FlushFailed(r, s))
  BY DEF FlushLog
<1>3. s.pc \notin Over
  BY <1>1 DEF Over
<1>4. /\ Good(s, titles, occs, accepted[r]) /\ s \in RunMemory
      /\ Sound(s, titles, occs) /\ Kept(s, occs, accepted[r])
  BY <1>3, GoingOn
<1>5. answer \in Answers \cup {"unreadable"}
  BY DEF LogAnswers
<1>6. UNCHANGED <<catalog, mappings, runDoc, latest, crashes, edits, observed>>
  BY DEF FlushLog
<1>7. /\ Sound(cleared, titles, occs) /\ Kept(cleared, occs, accepted[r])
      /\ cleared.newLogs = <<>>
  BY <1>4, LogsCleared
<1>8. Alike(s, onward) /\ onward.pc = "logs" /\ onward.at = s.at + 1
  BY <1>1, <1>4, NextAtIsAlike
<1> HIDE DEF s, cleared, onward
<1>9. s.at \in 1 .. Len(s.newLogs) /\ s.newLogs \in Seq(Items \X Logs) /\ Plain(s.newLogs)
  BY <1>1, <1>4 DEF Good, Placed, Sound, RunMemory
<1>10. i \in Items /\ log \in Logs
  BY <1>9
<1>11. log.outcome = "none" /\ log.state # "absent"
  BY <1>9 DEF Plain, Unresolved, RetryStates
<1> HIDE DEF i, log
<1>12. /\ logs' \in [Items -> Logs]
       /\ aged' \subseteq {k \in Items : logs'[k] # NoLog}
       /\ \A k \in Items : logs'[k].outcome = "matched" => <<logs'[k].title, k>> \in occs
  BY <1>2, <1>10, <1>11, AddLogMoves
<1>13. Good(ToTitles(r, cleared), titles, occs, accepted[r])
  BY <1>7, ToTitlesIsGood
<1>14. ASSUME s.at < Len(s.newLogs)
       PROVE  Good(onward, titles, occs, accepted[r])
  <2>1. Sound(onward, titles, occs) /\ Kept(onward, occs, accepted[r])
    BY <1>4, <1>8, AlikeIsSound
  <2>2. onward.at \in 1 .. Len(onward.newLogs)
    BY <1>8, <1>9, <1>14 DEF Alike
  <2>3. Placed(onward) /\ Emptied(onward) /\ Written(onward, titles, occs)
    BY <1>8, <2>2 DEF Placed, Emptied, Written, Ending, Saving
  <2> QED
    BY <2>1, <2>3 DEF Good
<1>15. Good(ok, titles, occs, accepted[r])
  BY <1>13, <1>14
<1>16. Good(FlushFailed(r, s), titles, occs, accepted[r])
  BY <1>4, FlushFailedIsGood
<1> HIDE DEF ok
<1> DEFINE m == IF Raised(answer) THEN FlushFailed(r, s) ELSE ok
<1>17. Good(m, titles, occs, accepted[r])
  BY <1>15, <1>16
<1>18. failures' \in 0 .. MaxFailures /\ scan' = [scan EXCEPT ![r] = m]
  BY <1>2, <1>5, AnswerCounted, StoreIsTyped
<1> HIDE DEF m
<1> QED
  BY <1>3, <1>6, <1>12, <1>17, <1>18, LogsMove DEF s

LEMMA FlushTitleStep ==
    ASSUME IInv, NEW r \in Runs, FlushTitle(r)
    PROVE  IInv'
<1> DEFINE s == scan[r]
           cleared == [s EXCEPT !.newTitles = <<>>]
           onward == [s EXCEPT !.at = @ + 1]
           ok == IF s.at < Len(s.newTitles) THEN onward ELSE ToOccs(r, cleared)
<1>1. s.pc = "titles"
  BY DEF FlushTitle
<1>2. PICK answer \in Answers :
        UpsertTitle(answer, s.newTitles[s.at]) /\ Continue(r, answer, ok, FlushFailed(r, s))
  BY DEF FlushTitle
<1>3. s.pc \notin Over
  BY <1>1 DEF Over
<1>4. Good(s, titles, occs, accepted[r]) /\ s \in RunMemory /\ runDoc[r] \notin Closed
  BY <1>3, GoingOn
<1>5. UNCHANGED <<occs, logs, aged, mappings, runDoc, snaps, pointer, crashes, edits, accepted, troubled>>
  BY DEF FlushTitle, diagnostics, latest, observed
<1>6. Alike(s, onward) /\ onward.pc = "titles" /\ onward.at = s.at + 1
  BY <1>1, <1>4, NextAtIsAlike
<1>7. /\ titles \subseteq titles' /\ titles' \subseteq titles \cup {s.newTitles[s.at]}
      /\ Landed(answer) => s.newTitles[s.at] \in titles'
  BY <1>2 DEF UpsertTitle
<1>8. \/ /\ Sound(cleared, titles', occs) /\ Kept(cleared, occs, accepted[r])
         /\ cleared.newTitles = <<>> /\ cleared.newLogs = s.newLogs
      \/ ~(Range(s.newTitles) \subseteq titles' /\ Sound(s, titles', occs)
           /\ Kept(s, occs, accepted[r]))
  BY TitlesCleared
<1> HIDE DEF s, cleared, onward
<1>9. s.at \in 1 .. Len(s.newTitles) /\ s.newTitles \in Seq(Titles)
  BY <1>1, <1>4 DEF Good, Placed, RunMemory
<1>10. s.newTitles[s.at] \in Titles
  BY <1>9
<1>11. Good(s, titles', occs, accepted[r])
  BY <1>4, <1>7, GoodGrows
<1>12. Sound(s, titles', occs) /\ Kept(s, occs, accepted[r])
  BY <1>3, <1>11 DEF Good
<1>13. ASSUME Landed(answer), NEW n \in 1 .. s.at
       PROVE  s.newTitles[n] \in titles'
  <2>1. CASE n = s.at
    BY <2>1, <1>7, <1>13
  <2>2. CASE n # s.at
    <3>1. n \in 1 .. s.at - 1
      BY <2>2, <1>9
    <3> QED
      BY <3>1, <1>1, <1>11 DEF Good, Written
  <2> QED
    BY <2>1, <2>2
<1>14. ASSUME Landed(answer), s.at < Len(s.newTitles)
       PROVE  Good(onward, titles', occs, accepted[r])
  <2>1. Sound(onward, titles', occs) /\ Kept(onward, occs, accepted[r])
    BY <1>6, <1>12, AlikeIsSound
  <2>2. /\ onward.at \in 1 .. Len(onward.newTitles)
        /\ onward.newTitles = s.newTitles /\ onward.newLogs = s.newLogs
        /\ onward.at - 1 = s.at
    BY <1>6, <1>9, <1>14 DEF Alike
  <2>3. onward.newLogs = <<>>
    BY <1>1, <1>11, <2>2 DEF Good, Emptied
  <2>4. \A n \in 1 .. onward.at - 1 : onward.newTitles[n] \in titles'
    BY <2>2, <1>13, <1>14
  <2>5. Placed(onward) /\ Emptied(onward) /\ Written(onward, titles', occs)
    BY <1>6, <2>2, <2>3, <2>4 DEF Placed, Emptied, Written, Ending, Saving
  <2> QED
    BY <2>1, <2>5 DEF Good
<1>15. ASSUME Landed(answer), ~(s.at < Len(s.newTitles))
       PROVE  Good(ToOccs(r, cleared), titles', occs, accepted[r])
  <2>1. s.at = Len(s.newTitles) /\ DOMAIN s.newTitles = 1 .. s.at
    BY <1>9, <1>15
  <2>2. Range(s.newTitles) \subseteq titles'
    BY <2>1, <1>13, <1>15 DEF Range
  <2>3. s.newLogs = <<>>
    BY <1>1, <1>11 DEF Good, Emptied
  <2> QED
    BY <2>2, <2>3, <1>8, <1>12, ToOccsIsGood
<1>16. Good(FlushFailed(r, s), titles', occs, accepted[r])
  BY <1>12, FlushFailedIsGood
<1>17. Landed(answer) => Good(ok, titles', occs, accepted[r])
  BY <1>14, <1>15
<1> HIDE DEF ok
<1> DEFINE m == IF Raised(answer) THEN FlushFailed(r, s) ELSE ok
<1>18. /\ failures' \in 0 .. MaxFailures /\ scan' = [scan EXCEPT ![r] = m]
       /\ Raised(answer) \/ Landed(answer)
  BY <1>2, AnswerCounted, StoreIsTyped
<1>19. Good(m, titles', occs', accepted'[r])
  BY <1>5, <1>16, <1>17, <1>18
<1>20. titles' \subseteq Titles
  BY <1>7, <1>10, StoreIsTyped DEF Stored
<1>21. Stored' /\ FiledUnderStoredTitles' /\ ResolvedFiled'
  BY <1>5, <1>7, <1>18, <1>20, StoreIsTyped DEF Stored, FiledUnderStoredTitles, ResolvedFiled
<1> HIDE DEF m
<1> QED
  BY <1>4, <1>5, <1>7, <1>18, <1>19, <1>21, OneRunMoves DEF s

LEMMA FlushOccurrenceStep ==
    ASSUME IInv, NEW r \in Runs, FlushOccurrence(r)
    PROVE  IInv'
<1> DEFINE s == scan[r]
           cleared == [s EXCEPT !.newOccs = <<>>]
           onward == [s EXCEPT !.at = @ + 1]
           ok == IF s.at < Len(s.newOccs) THEN onward ELSE ToUsed(r, cleared)
<1>1. s.pc = "occs"
  BY DEF FlushOccurrence
<1>2. PICK answer \in Answers :
        /\ UpsertOccurrence(answer, s.newOccs[s.at][1], s.newOccs[s.at][2])
        /\ Continue(r, answer, ok, FlushFailed(r, s))
  BY DEF FlushOccurrence
<1>3. s.pc \notin Over
  BY <1>1 DEF Over
<1>4. Good(s, titles, occs, accepted[r]) /\ s \in RunMemory /\ runDoc[r] \notin Closed
  BY <1>3, GoingOn
<1>5. UNCHANGED <<titles, logs, aged, mappings, runDoc, snaps, pointer, crashes, edits, accepted, troubled>>
  BY DEF FlushOccurrence, diagnostics, latest, observed
<1>6. Alike(s, onward) /\ onward.pc = "occs" /\ onward.at = s.at + 1
  BY <1>1, <1>4, NextAtIsAlike
<1>7. /\ Sound(cleared, titles, occs') /\ Kept(cleared, occs', accepted[r])
      /\ cleared.newOccs = <<>> /\ cleared.newLogs = s.newLogs
      /\ cleared.newTitles = s.newTitles
      \/ ~(Range(s.newOccs) \subseteq occs' /\ Sound(s, titles, occs')
           /\ Kept(s, occs', accepted[r]))
  BY OccsCleared
<1> HIDE DEF s, cleared, onward
<1>8. s.at \in 1 .. Len(s.newOccs) /\ s.newOccs \in Seq(Titles \X Items)
  BY <1>1, <1>4 DEF Good, Placed, RunMemory
<1>9. /\ s.newOccs[s.at] \in Titles \X Items /\ s.newOccs[s.at] \in Range(s.newOccs)
      /\ <<s.newOccs[s.at][1], s.newOccs[s.at][2]>> = s.newOccs[s.at]
  <2>1. s.newOccs[s.at] \in Titles \X Items /\ s.at \in DOMAIN s.newOccs
    BY <1>8
  <2> QED
    BY <2>1 DEF Range
<1>10. /\ occs \subseteq occs' /\ occs' \subseteq occs \cup {s.newOccs[s.at]}
       /\ Landed(answer) => s.newOccs[s.at] \in occs'
  BY <1>2, <1>9 DEF UpsertOccurrence
<1>11. Good(s, titles, occs', accepted[r])
  BY <1>4, <1>10, GoodGrows
<1>12. Sound(s, titles, occs') /\ Kept(s, occs', accepted[r])
  BY <1>3, <1>11 DEF Good
<1>13. s.newLogs = <<>> /\ s.newTitles = <<>>
  BY <1>1, <1>4 DEF Good, Emptied
<1>14. s.newOccs[s.at][1] \in titles
  BY <1>4, <1>9, <1>13, RangeOfEmpty DEF Good, Sound
<1>15. ASSUME Landed(answer), NEW n \in 1 .. s.at
       PROVE  s.newOccs[n] \in occs'
  <2>1. CASE n = s.at
    BY <2>1, <1>10, <1>15
  <2>2. CASE n # s.at
    <3>1. n \in 1 .. s.at - 1
      BY <2>2, <1>8
    <3> QED
      BY <3>1, <1>1, <1>11 DEF Good, Written
  <2> QED
    BY <2>1, <2>2
<1>16. ASSUME Landed(answer), s.at < Len(s.newOccs)
       PROVE  Good(onward, titles, occs', accepted[r])
  <2>1. Sound(onward, titles, occs') /\ Kept(onward, occs', accepted[r])
    BY <1>6, <1>12, AlikeIsSound
  <2>2. /\ onward.at \in 1 .. Len(onward.newOccs) /\ onward.newOccs = s.newOccs
        /\ onward.newTitles = <<>> /\ onward.newLogs = <<>>
        /\ onward.at - 1 = s.at
    BY <1>6, <1>8, <1>13, <1>16 DEF Alike
  <2>3. \A n \in 1 .. onward.at - 1 : onward.newOccs[n] \in occs'
    BY <2>2, <1>15, <1>16
  <2>4. Placed(onward) /\ Emptied(onward) /\ Written(onward, titles, occs')
    BY <1>6, <2>2, <2>3 DEF Placed, Emptied, Written, Ending, Saving
  <2> QED
    BY <2>1, <2>4 DEF Good
<1>17. ASSUME Landed(answer), ~(s.at < Len(s.newOccs))
       PROVE  Good(ToUsed(r, cleared), titles, occs', accepted[r])
  <2>1. s.at = Len(s.newOccs) /\ DOMAIN s.newOccs = 1 .. s.at
    BY <1>8, <1>17
  <2>2. Range(s.newOccs) \subseteq occs'
    BY <2>1, <1>15, <1>17 DEF Range
  <2> QED
    BY <2>2, <1>7, <1>12, <1>13, ToUsedIsGood
<1>18. Good(FlushFailed(r, s), titles, occs', accepted[r])
  BY <1>12, FlushFailedIsGood
<1>19. Landed(answer) => Good(ok, titles, occs', accepted[r])
  BY <1>16, <1>17
<1> HIDE DEF ok
<1> DEFINE m == IF Raised(answer) THEN FlushFailed(r, s) ELSE ok
<1>20. /\ failures' \in 0 .. MaxFailures /\ scan' = [scan EXCEPT ![r] = m]
       /\ Raised(answer) \/ Landed(answer)
  BY <1>2, AnswerCounted, StoreIsTyped
<1>21. Good(m, titles', occs', accepted'[r])
  BY <1>5, <1>18, <1>19, <1>20
<1>22. occs' \subseteq Titles \X Items
  BY <1>9, <1>10, StoreIsTyped DEF Stored
<1>23. Stored'
  BY <1>5, <1>20, <1>22, StoreIsTyped DEF Stored
<1>24. FiledUnderStoredTitles' /\ ResolvedFiled'
  BY <1>5, <1>10, <1>14, StoreIsTyped DEF FiledUnderStoredTitles, ResolvedFiled
<1> HIDE DEF m
<1> QED
  BY <1>4, <1>5, <1>10, <1>20, <1>21, <1>23, <1>24, OneRunMoves DEF s

(* Forgetting a mapping touches nothing but what is loaded. *)
LEMMA ForgetIsAlike ==
    ASSUME NEW s \in RunMemory, NEW i \in Items, NEW t
    PROVE  Alike(s, Forget(s, i, t)) /\ Forget(s, i, t).pc = s.pc
<1> DEFINE l == [s.loaded EXCEPT ![i] = IF @ = t THEN NoTitle ELSE @]
           m == [s EXCEPT !.loaded = l]
<1>1. l \in [Items -> Titles \cup {NoTitle}]
  BY DEF RunMemory
<1>2. Forget(s, i, t) = m
  BY DEF Forget, RunMemory
<1> HIDE DEF l
<1>3. Alike(s, m) /\ m.pc = s.pc
  BY <1>1 DEF Alike, RunMemory
<1> QED
  BY <1>2, <1>3

(* Used mappings may go when they have been used. *)
LEMMA UsedShortened ==
    ASSUME NEW s, NEW T, NEW O, NEW A, Sound(s, T, O), Kept(s, O, A),
           NEW q \in Seq(Items \X Titles), Range(q) \subseteq Range(s.used)
    PROVE  LET m == [s EXCEPT !.used = q] IN
           /\ Sound(m, T, O) /\ Kept(m, O, A) /\ m.newOccs = s.newOccs
           /\ m.newLogs = s.newLogs /\ m.newTitles = s.newTitles
<1> DEFINE m == [s EXCEPT !.used = q]
<1>1. s \in RunMemory
  BY DEF Sound
<1>2. /\ m \in RunMemory
      /\ m.newLogs = s.newLogs /\ m.newTitles = s.newTitles /\ m.newOccs = s.newOccs
      /\ m.used = q /\ m.cands = s.cands /\ m.feed = s.feed
  BY <1>1 DEF RunMemory
<1> HIDE DEF m
<1>3. Sound(m, T, O) /\ Kept(m, O, A)
  BY <1>2 DEF Sound, Kept
<1> QED
  BY <1>2, <1>3 DEF m

(* Mappings come and go. *)
LEMMA MappingsMove ==
    ASSUME IInv, NEW r \in Runs, scan[r].pc \notin Over, NEW m,
           scan' = [scan EXCEPT ![r] = m], Good(m, titles, occs, accepted[r]),
           UNCHANGED <<catalog, diagnostics, runDoc, latest, crashes, edits, observed>>,
           failures' \in 0 .. MaxFailures, NEW i \in Items, NEW answer, DeleteMapping(answer, i)
    PROVE  IInv'
<1>1. UNCHANGED <<titles, occs, logs, aged, runDoc, snaps, pointer, crashes, edits, accepted, troubled>>
  BY DEF catalog, diagnostics, latest, observed
<1>2. mappings' \in [Items -> Titles \cup {NoTitle}]
  BY StoreIsTyped DEF Stored, DeleteMapping
<1>3. Stored'
  BY <1>1, <1>2 DEF IInv, Stored
<1>4. FiledUnderStoredTitles' /\ ResolvedFiled'
  BY <1>1 DEF IInv, FiledUnderStoredTitles, ResolvedFiled
<1>5. runDoc[r] \notin Closed
  BY GoingOn
<1> QED
  BY <1>1, <1>3, <1>4, <1>5, OneRunMoves

LEMMA FlushMappingStep ==
    ASSUME IInv, NEW r \in Runs, FlushMapping(r)
    PROVE  IInv'
<1> DEFINE s == scan[r]
           i == s.used[1][1]
           t == s.used[1][2]
           fewer == [s EXCEPT !.used = Tail(@)]
           left == Forget(fewer, i, t)
<1>1. s.pc = "used"
  BY DEF FlushMapping
<1>2. PICK answer \in Answers :
        DeleteMapping(answer, i) /\ Continue(r, answer, ToUsed(r, left), FlushFailed(r, s))
  BY DEF FlushMapping
<1>3. s.pc \notin Over
  BY <1>1 DEF Over
<1>4. /\ Good(s, titles, occs, accepted[r]) /\ s \in RunMemory
      /\ Sound(s, titles, occs) /\ Kept(s, occs, accepted[r])
  BY <1>3, GoingOn
<1>5. UNCHANGED <<catalog, diagnostics, runDoc, latest, crashes, edits, observed>>
  BY DEF FlushMapping
<1>6. s.newLogs = <<>> /\ s.newTitles = <<>> /\ s.newOccs = <<>>
  BY <1>1, <1>4 DEF Good, Emptied
<1>7. s.used \in Seq(Items \X Titles) /\ s.used # <<>>
  BY <1>1, <1>4 DEF Good, Placed, RunMemory
<1>8. /\ Tail(s.used) \in Seq(Items \X Titles) /\ s.used[1] \in Items \X Titles
      /\ Range(Tail(s.used)) \subseteq Range(s.used)
  BY <1>7, RangeOfTail
<1>9. i \in Items
  BY <1>8
<1>10. /\ Sound(fewer, titles, occs) /\ Kept(fewer, occs, accepted[r])
       /\ fewer.newLogs = <<>> /\ fewer.newTitles = <<>> /\ fewer.newOccs = <<>>
  BY <1>4, <1>6, <1>8, UsedShortened
<1> HIDE DEF s, i, t, fewer
<1>11. Alike(fewer, left)
  BY <1>9, <1>10, ForgetIsAlike DEF Sound
<1> HIDE DEF left
<1>12. /\ Sound(left, titles, occs) /\ Kept(left, occs, accepted[r])
       /\ left.newLogs = <<>> /\ left.newTitles = <<>> /\ left.newOccs = <<>>
  BY <1>10, <1>11, AlikeIsSound DEF Alike
<1>13. Good(ToUsed(r, left), titles, occs, accepted[r])
  BY <1>12, ToUsedIsGood
<1>14. Good(FlushFailed(r, s), titles, occs, accepted[r])
  BY <1>4, FlushFailedIsGood
<1> DEFINE m == IF Raised(answer) THEN FlushFailed(r, s) ELSE ToUsed(r, left)
<1>15. Good(m, titles, occs, accepted[r])
  BY <1>13, <1>14
<1>16. failures' \in 0 .. MaxFailures /\ scan' = [scan EXCEPT ![r] = m]
  BY <1>2, AnswerCounted, StoreIsTyped
<1> HIDE DEF m
<1> QED
  BY <1>2, <1>3, <1>5, <1>9, <1>15, <1>16, MappingsMove DEF s

-----------------------------------------------------------------------------
(* The RSS phase *)

(* A run is on an entry, and may or may not have dealt with it. *)
Reading(s, T, O, A) ==
    /\ Sound(s, T, O) /\ Kept(s, O, A)
    /\ s.pc = "entry"
    /\ s.feed \in 1 .. Len(Feeds) /\ s.entry \in 1 .. Len(Feeds[s.feed])
    /\ \A t \in Found(s.cands) : s.cands[t][1] = s.feed => s.cands[t][2] <= s.entry

LEMMA FeedsAreTyped ==
    /\ Len(Feeds) \in Nat
    /\ \A f \in 1 .. Len(Feeds) :
          /\ Feeds[f] \in Seq(Items) /\ Len(Feeds[f]) \in Nat
          /\ \A e \in 1 .. Len(Feeds[f]) : Feeds[f][e] \in Items
<1>1. Feeds \in Seq(Seq(Items))
  BY StoreAssumption
<1>2. \A f \in 1 .. Len(Feeds) : Feeds[f] \in Seq(Items)
  BY <1>1
<1> QED
  BY <1>1, <1>2

LEMMA EntryIsRead ==
    ASSUME IInv, NEW r \in Runs, scan[r].pc = "entry"
    PROVE  /\ Reading(scan[r], titles, occs, accepted[r]) /\ Entry(r) \in Items
           /\ \A t \in Found(scan[r].cands) :
                 scan[r].cands[t][1] = scan[r].feed => scan[r].cands[t][2] < scan[r].entry
<1> DEFINE s == scan[r]
<1>1. s.pc \notin Over
  BY DEF Over
<1>2. /\ Good(s, titles, occs, accepted[r]) /\ s \in RunMemory
      /\ Sound(s, titles, occs) /\ Kept(s, occs, accepted[r])
  BY <1>1, GoingOn
<1>3. s.pc = "entry"
  OBVIOUS
<1>4. Entry(r) = Feeds[s.feed][s.entry]
  BY DEF Entry
<1> HIDE DEF s
<1>5. /\ s.feed \in 1 .. Len(Feeds) /\ s.entry \in 1 .. Len(Feeds[s.feed])
      /\ \A t \in Found(s.cands) : s.cands[t][1] = s.feed => s.cands[t][2] < s.entry
  BY <1>2, <1>3 DEF Good, Placed
<1>6. \A t \in Found(s.cands) : s.cands[t][2] \in Nat /\ s.entry \in Nat
  BY <1>2, PositionOfFound DEF RunMemory
<1>7. Reading(s, titles, occs, accepted[r])
  BY <1>2, <1>3, <1>5, <1>6 DEF Reading
<1> QED
  BY <1>4, <1>5, <1>7, FeedsAreTyped DEF s

LEMMA NextEntryIsGood ==
    ASSUME NEW r, NEW s, NEW T, NEW O, NEW A, Reading(s, T, O, A)
    PROVE  Good(NextEntry(r, s), T, O, A)
<1>0. s \in RunMemory /\ Sound(s, T, O) /\ Kept(s, O, A)
  BY DEF Reading, Sound
<1>1. CASE s.entry < Len(Feeds[s.feed])
  <2> DEFINE e == s.entry + 1
             m == [s EXCEPT !.entry = e]
  <2>1. e \in Nat /\ s.entry \in Nat
    BY <1>0 DEF RunMemory
  <2>2. NextEntry(r, s) = m
    BY <1>1 DEF NextEntry
  <2>3. e \in 1 .. Len(Feeds[s.feed])
    BY <1>1, <2>1, FeedsAreTyped DEF Reading
  <2>4. \A t \in Found(s.cands) : s.cands[t][1] = s.feed => s.cands[t][2] < e
    BY <1>0, <2>1, PositionOfFound DEF Reading
  <2> HIDE DEF e
  <2>5. Alike(s, m) /\ m.pc = s.pc /\ m.entry = e
    BY <1>0, <2>1 DEF Alike, RunMemory
  <2> HIDE DEF m
  <2>6. Sound(m, T, O) /\ Kept(m, O, A)
    BY <1>0, <2>5, AlikeIsSound
  <2>7. m.pc = "entry" /\ m.feed = s.feed /\ m.cands = s.cands
    BY <2>5 DEF Alike, Reading
  <2>8. Placed(m) /\ Emptied(m) /\ Written(m, T, O)
    BY <2>3, <2>4, <2>5, <2>7 DEF Placed, Emptied, Written, Ending, Saving, Reading
  <2> QED
    BY <2>2, <2>6, <2>8 DEF Good
<1>2. CASE ~(s.entry < Len(Feeds[s.feed]))
  BY <1>0, <1>2, ToLogsIsGood DEF NextEntry
<1> QED
  BY <1>1, <1>2

LEMMA ErredReads ==
    ASSUME NEW s, NEW T, NEW O, NEW A, Reading(s, T, O, A)
    PROVE  Reading(RssErred(s), T, O, A)
<1> DEFINE m == RssErred(s)
<1>1. Alike(s, m) /\ m.pc = s.pc /\ m.entry = s.entry
  BY ErredIsAlike DEF Reading, Sound
<1> HIDE DEF m
<1>2. Sound(m, T, O) /\ Kept(m, O, A)
  BY <1>1, AlikeIsSound DEF Reading
<1> QED
  BY <1>1, <1>2 DEF Reading, Alike, m

LEMMA StagedLogReads ==
    ASSUME NEW s, NEW T, NEW O, NEW A, Reading(s, T, O, A),
           NEW i \in Items, NEW state \in RetryStates
    PROVE  LET m == StageLog(s, i, Unresolved(state)) IN
           /\ Reading(m, T, O, A)
           /\ m.newOccs = s.newOccs /\ m.newTitles = s.newTitles /\ m.used = s.used
           /\ m.cands = s.cands /\ m.feed = s.feed /\ m.entry = s.entry
<1> DEFINE q == Append(s.newLogs, <<i, Unresolved(state)>>)
           w == s.wrote \cup {i}
           m == [s EXCEPT !.newLogs = q, !.wrote = w]
<1>1. s \in RunMemory /\ Plain(s.newLogs)
  BY DEF Reading, Sound
<1>2. q \in Seq(Items \X Logs) /\ Plain(q)
  BY <1>1, PlainAppended DEF RunMemory
<1>3. w \in SUBSET Items
  BY <1>1 DEF RunMemory
<1>4. StageLog(s, i, Unresolved(state)) = m
  BY DEF StageLog
<1> HIDE DEF q, w
<1>5. /\ m \in RunMemory
      /\ m.newLogs = q /\ m.newTitles = s.newTitles /\ m.newOccs = s.newOccs
      /\ m.used = s.used /\ m.cands = s.cands /\ m.feed = s.feed
      /\ m.pc = s.pc /\ m.entry = s.entry
  BY <1>1, <1>2, <1>3 DEF RunMemory
<1> HIDE DEF m
<1>6. Sound(m, T, O) /\ Kept(m, O, A)
  BY <1>2, <1>5 DEF Reading, Sound, Kept
<1>7. Reading(m, T, O, A)
  BY <1>5, <1>6 DEF Reading
<1> QED
  BY <1>4, <1>5, <1>7

LEMMA StagedTitleReads ==
    ASSUME NEW s, NEW T, NEW O, NEW A, Reading(s, T, O, A), NEW t \in Titles
    PROVE  LET m == StageTitle(s, t) IN
           /\ Reading(m, T, O, A) /\ t \in Range(m.newTitles)
           /\ m.newOccs = s.newOccs /\ m.used = s.used
           /\ m.cands = s.cands /\ m.feed = s.feed /\ m.entry = s.entry
<1> DEFINE q == Staged(s.newTitles, t)
           d == s.read \cup {t}
           m == [s EXCEPT !.newTitles = q, !.read = d]
<1>1. s \in RunMemory
  BY DEF Reading, Sound
<1>2. q \in Seq(Titles) /\ Range(q) = Range(s.newTitles) \cup {t}
  BY <1>1, RangeOfStaged DEF RunMemory
<1>3. d \in SUBSET Titles
  BY <1>1 DEF RunMemory
<1>4. StageTitle(s, t) = m
  BY DEF StageTitle
<1> HIDE DEF q, d
<1>5. /\ m \in RunMemory
      /\ m.newLogs = s.newLogs /\ m.newTitles = q /\ m.newOccs = s.newOccs
      /\ m.used = s.used /\ m.cands = s.cands /\ m.feed = s.feed
      /\ m.pc = s.pc /\ m.entry = s.entry
  BY <1>1, <1>2, <1>3 DEF RunMemory
<1> HIDE DEF m
<1>6. Sound(m, T, O) /\ Kept(m, O, A)
  BY <1>2, <1>5 DEF Reading, Sound, Kept
<1>7. Reading(m, T, O, A)
  BY <1>5, <1>6 DEF Reading
<1> QED
  BY <1>2, <1>4, <1>5, <1>7

LEMMA StagedOccurrenceReads ==
    ASSUME NEW s, NEW T, NEW O, NEW A, Reading(s, T, O, A),
           NEW t \in Range(s.newTitles), NEW i \in Items
    PROVE  LET m == StageOccurrence(s, t, i) IN
           /\ Reading(m, T, O, A) /\ <<t, i>> \in Range(m.newOccs)
           /\ m.newTitles = s.newTitles /\ m.used = s.used
           /\ m.cands = s.cands /\ m.feed = s.feed /\ m.entry = s.entry
<1> DEFINE x == <<t, i>>
           q == Staged(s.newOccs, x)
           m == [s EXCEPT !.newOccs = q]
<1>1. s \in RunMemory
  BY DEF Reading, Sound
<1>2. x \in Titles \X Items
  BY <1>1, RangeIsTyped DEF RunMemory
<1>4. StageOccurrence(s, t, i) = m /\ x[1] = t
  BY DEF StageOccurrence
<1>8. s.newOccs \in Seq(Titles \X Items)
  BY <1>1 DEF RunMemory
<1> HIDE DEF x
<1>3. q \in Seq(Titles \X Items) /\ Range(q) = Range(s.newOccs) \cup {x}
  BY <1>2, <1>8, RangeOfStaged
<1> HIDE DEF q
<1>5. /\ m \in RunMemory
      /\ m.newLogs = s.newLogs /\ m.newTitles = s.newTitles /\ m.newOccs = q
      /\ m.used = s.used /\ m.cands = s.cands /\ m.feed = s.feed
      /\ m.pc = s.pc /\ m.entry = s.entry
  BY <1>1, <1>3 DEF RunMemory
<1> HIDE DEF m
<1>6. Sound(m, T, O) /\ Kept(m, O, A)
  BY <1>3, <1>4, <1>5 DEF Reading, Sound, Kept
<1>7. Reading(m, T, O, A)
  BY <1>5, <1>6 DEF Reading
<1> QED
  BY <1>3, <1>4, <1>5, <1>7 DEF x

(* The first place of a title counts, and no other title has it. *)
LEMMA FirstPlaceCounts ==
    ASSUME NEW c \in [Titles -> Positions], NEW t \in Titles,
           NEW p \in Positions, p # NoPosition, Ranked(c, p[1]),
           \A u \in Found(c) : c[u][1] = p[1] => c[u][2] < p[2]
    PROVE  /\ t \in Found(c) \/ Kind[t] = "unknown" => Candidate(c, t, p) = c
           /\ t \notin Found(c) /\ Kind[t] # "unknown" =>
                 Candidate(c, t, p) = [c EXCEPT ![t] = p]
           /\ \A u \in Found(c) : c[u] # p
<1>1. Kind[t] \in {"movie", "series", "unknown"}
  BY StoreAssumption
<1>2. /\ p[1] \in Nat /\ p[2] \in Nat
      /\ \A u \in Found(c) : c[u][1] \in Nat /\ c[u][2] \in Nat /\ c[u][1] <= p[1]
  BY DEF Found, Positions, Ranked
<1>4. \A u \in Found(c) : c[u] # p
  BY <1>2
<1>5. t \notin Found(c) => c[t] = NoPosition
  BY DEF Found
<1>6. ASSUME t \in Found(c) PROVE Candidate(c, t, p) = c
  <2>1. c[t] # NoPosition
    BY <1>6 DEF Found
  <2>2. ~(p[1] < c[t][1]) /\ ~(p[1] = c[t][1] /\ p[2] < c[t][2])
    BY <1>2, <1>6
  <2> QED
    BY <2>1, <2>2 DEF Candidate
<1>7. Kind[t] = "unknown" => Candidate(c, t, p) = c
  BY DEF Candidate
<1>8. ASSUME t \notin Found(c), Kind[t] # "unknown"
      PROVE  Candidate(c, t, p) = [c EXCEPT ![t] = p]
  BY <1>1, <1>5, <1>8 DEF Candidate
<1> QED
  BY <1>4, <1>6, <1>7, <1>8

LEMMA CandidateIsRanked ==
    ASSUME NEW c \in [Titles -> Positions], NEW t \in Titles,
           NEW p \in Positions, p # NoPosition, Ranked(c, p[1]),
           \A u \in Found(c) : c[u][1] = p[1] => c[u][2] < p[2],
           NEW k, k = Candidate(c, t, p)
    PROVE  /\ k \in [Titles -> Positions] /\ Ranked(k, p[1])
           /\ Found(k) \subseteq Found(c) \cup {t}
           /\ \A u \in Found(k) : k[u][1] = p[1] => k[u][2] <= p[2]
<1>1. /\ p[1] \in Nat /\ p[2] \in Nat
      /\ \A u \in Found(c) : c[u][1] \in Nat /\ c[u][2] \in Nat /\ c[u][1] <= p[1]
  BY DEF Found, Positions, Ranked
<1>2. \A u \in Found(c) : c[u] # p
  BY FirstPlaceCounts
<1>3. k = c \/ k = [c EXCEPT ![t] = p]
  BY FirstPlaceCounts
<1>4. CASE k = c
  BY <1>1, <1>4
<1>5. CASE k = [c EXCEPT ![t] = p]
  <2>1. /\ k \in [Titles -> Positions] /\ k[t] = p
        /\ \A u \in Titles \ {t} : k[u] = c[u]
    BY <1>5
  <2>2. Found(k) = Found(c) \cup {t}
    BY <2>1 DEF Found
  <2>3. IsFiniteSet(Found(k))
    BY <2>2, FS_AddElement DEF Ranked
  <2>4. ASSUME NEW u \in Found(k), NEW v \in Found(k), k[u] = k[v]
        PROVE  u = v
    <3>1. CASE u = t /\ v # t
      BY <3>1, <2>1, <2>2, <2>4, <1>2 DEF Found
    <3>2. CASE u # t /\ v = t
      BY <3>2, <2>1, <2>2, <2>4, <1>2 DEF Found
    <3>3. CASE u # t /\ v # t
      BY <3>3, <2>1, <2>2, <2>4 DEF Found, Ranked
    <3> QED
      BY <3>1, <3>2, <3>3
  <2>5. ASSUME NEW u \in Found(k)
        PROVE  k[u][1] <= p[1] /\ (k[u][1] = p[1] => k[u][2] <= p[2])
    <3>1. CASE u = t
      BY <3>1, <2>1, <1>1
    <3>2. CASE u # t
      BY <3>2, <2>1, <2>2, <1>1 DEF Found
    <3> QED
      BY <3>1, <3>2
  <2> QED
    BY <2>1, <2>2, <2>3, <2>4, <2>5 DEF Ranked
<1> QED
  BY <1>3, <1>4, <1>5

LEMMA FetchFeedStep ==
    ASSUME IInv, NEW r \in Runs, FetchFeed(r)
    PROVE  IInv'
<1> DEFINE s == scan[r]
           started == [s EXCEPT !.pc = "entry", !.entry = 1]
           first == IF Feeds[s.feed] = <<>> THEN ToLogs(r, s) ELSE started
           failed == NextFeed(r, RssErred(s))
<1>1. s.pc = "fetch"
  BY DEF FetchFeed
<1>2. PICK answer \in Answers \ {"lost"} :
        /\ Continue(r, answer, first, failed)
        /\ troubled' = IF Raised(answer) THEN troubled \cup {r} ELSE troubled
  BY DEF FetchFeed
<1>3. s.pc \notin Over
  BY <1>1 DEF Over
<1>4. /\ Good(s, titles, occs, accepted[r]) /\ s \in RunMemory
      /\ Sound(s, titles, occs) /\ Kept(s, occs, accepted[r])
  BY <1>3, GoingOn
<1>5. UNCHANGED <<catalog, diagnostics, mappings, runDoc, latest, crashes, edits, accepted>>
  BY DEF FetchFeed
<1>6. Alike(s, started) /\ started.pc = "entry" /\ started.entry = 1
  <2>1. "entry" \in Phases
    BY DEF Phases
  <2> QED
    BY <1>4, <2>1 DEF Alike, RunMemory
<1>7. Alike(s, RssErred(s))
  BY <1>4, ErredIsAlike
<1> HIDE DEF s, started
<1>8. Good(failed, titles, occs, accepted[r])
  BY <1>4, <1>7, AlikeIsSound, NextFeedIsGood
<1>9. /\ s.feed \in 1 .. Len(Feeds)
      /\ \A t \in Found(s.cands) : s.cands[t][1] < s.feed
  BY <1>1, <1>4 DEF Good, Placed
<1>10. ASSUME Feeds[s.feed] # <<>>
       PROVE  Good(started, titles, occs, accepted[r])
  <2>1. Sound(started, titles, occs) /\ Kept(started, occs, accepted[r])
    BY <1>4, <1>6, AlikeIsSound
  <2>2. 1 \in 1 .. Len(Feeds[s.feed])
    BY <1>9, <1>10, FeedsAreTyped, NotEmptyLen
  <2>3. \A t \in Found(s.cands) : s.cands[t][1] # s.feed
    BY <1>4, <1>9, PositionOfFound, FeedsAreTyped
  <2>4. Placed(started) /\ Emptied(started) /\ Written(started, titles, occs)
    BY <1>6, <1>9, <2>2, <2>3 DEF Alike, Placed, Emptied, Written, Ending, Saving
  <2> QED
    BY <2>1, <2>4 DEF Good
<1>11. Good(first, titles, occs, accepted[r])
  BY <1>4, <1>10, ToLogsIsGood
<1> HIDE DEF first, failed
<1> DEFINE m == IF Raised(answer) THEN failed ELSE first
<1>12. Good(m, titles, occs, accepted[r])
  BY <1>8, <1>11
<1>13. failures' \in 0 .. MaxFailures /\ scan' = [scan EXCEPT ![r] = m]
  BY <1>2, AnswerCounted, StoreIsTyped
<1>14. troubled' \subseteq Runs /\ crashes' \in 0 .. MaxCrashes
  BY <1>2, <1>5, StoreIsTyped
<1> HIDE DEF m
<1> QED
  BY <1>3, <1>5, <1>12, <1>13, <1>14, MemoryMoves DEF s

LEMMA EntryTooOldStep ==
    ASSUME IInv, NEW r \in Runs, EntryTooOld(r)
    PROVE  IInv'
<1>1. scan[r].pc = "entry" /\ scan[r].pc \notin Over
  BY DEF EntryTooOld, Over
<1>2. Good(NextEntry(r, scan[r]), titles, occs, accepted[r])
  BY <1>1, EntryIsRead, NextEntryIsGood
<1>3. scan' = [scan EXCEPT ![r] = NextEntry(r, scan[r])]
  BY DEF EntryTooOld
<1>4. UNCHANGED <<catalog, diagnostics, mappings, runDoc, latest, failures, crashes, edits, observed>>
  BY DEF EntryTooOld
<1> QED
  BY <1>1, <1>2, <1>3, <1>4, MemoryMoves, StoreIsTyped DEF observed

LEMMA EntryLoggedStep ==
    ASSUME IInv, NEW r \in Runs, NEW state \in {"retryable", "terminal"}, NEW erred \in BOOLEAN,
           EntryLogged(r, state, erred)
    PROVE  IInv'
<1> DEFINE s == StageLog(scan[r], Entry(r), Unresolved(state))
           read == IF erred THEN RssErred(s) ELSE s
<1>1. scan[r].pc = "entry" /\ scan[r].pc \notin Over
  BY DEF EntryLogged, Over
<1>2. Reading(scan[r], titles, occs, accepted[r]) /\ Entry(r) \in Items
  BY <1>1, EntryIsRead
<1>3. state \in RetryStates
  BY DEF RetryStates
<1>4. Reading(s, titles, occs, accepted[r])
  BY <1>2, <1>3, StagedLogReads
<1>5. scan' = [scan EXCEPT ![r] = NextEntry(r, read)]
  BY DEF EntryLogged
<1> HIDE DEF s
<1>6. Reading(read, titles, occs, accepted[r])
  BY <1>4, ErredReads
<1> HIDE DEF read
<1>7. Good(NextEntry(r, read), titles, occs, accepted[r])
  BY <1>6, NextEntryIsGood
<1>8. UNCHANGED <<catalog, diagnostics, mappings, runDoc, latest, failures, crashes, edits, accepted>>
  BY DEF EntryLogged
<1>9. troubled' \subseteq Runs
  BY StoreIsTyped DEF EntryLogged
<1> QED
  BY <1>1, <1>5, <1>7, <1>8, <1>9, MemoryMoves, StoreIsTyped

LEMMA EntryOverQuotaStep ==
    ASSUME IInv, NEW r \in Runs, EntryOverQuota(r)
    PROVE  IInv'
<1> DEFINE s == StageLog(scan[r], Entry(r), RetryLog)
           read == RssErred(s)
<1>1. scan[r].pc = "entry" /\ scan[r].pc \notin Over
  BY DEF EntryOverQuota, Over
<1>2. Reading(scan[r], titles, occs, accepted[r]) /\ Entry(r) \in Items
  BY <1>1, EntryIsRead
<1>3. "retryable" \in RetryStates /\ RetryLog = Unresolved("retryable")
  BY DEF RetryStates, RetryLog
<1>4. Reading(s, titles, occs, accepted[r])
  BY <1>2, <1>3, StagedLogReads
<1>5. scan' = [scan EXCEPT ![r] = ToLogs(r, read)]
  BY DEF EntryOverQuota
<1> HIDE DEF s
<1>6. Reading(read, titles, occs, accepted[r])
  BY <1>4, ErredReads
<1> HIDE DEF read
<1>7. Good(ToLogs(r, read), titles, occs, accepted[r])
  BY <1>6, ToLogsIsGood DEF Reading
<1>8. UNCHANGED <<catalog, diagnostics, mappings, runDoc, latest, failures, crashes, edits, accepted>>
  BY DEF EntryOverQuota
<1>9. troubled' \subseteq Runs
  BY StoreIsTyped DEF EntryOverQuota
<1> QED
  BY <1>1, <1>5, <1>7, <1>8, <1>9, MemoryMoves, StoreIsTyped

LEMMA ResolutionsAreTitles ==
    ASSUME NEW s \in RunMemory, NEW i \in Items, NEW t \in Resolutions(s, i)
    PROVE  t \in Titles
  BY DEF Resolutions, Usable, RunMemory

(* What the acceptance of an entry leaves in the memory. *)
LEMMA AcceptedReads ==
    ASSUME NEW s, NEW T, NEW O, NEW A \in Seq(Titles \X Items), Reading(s, T, O, A),
           \A u \in Found(s.cands) : s.cands[u][1] = s.feed => s.cands[u][2] < s.entry,
           NEW i \in Items, NEW t \in Titles, t \in Range(s.newTitles),
           <<t, i>> \in Range(s.newOccs), NEW k, NEW q,
           k = Candidate(s.cands, t, <<s.feed, s.entry>>),
           q = s.used \/ q = Append(s.used, <<i, t>>)
    PROVE  Reading([s EXCEPT !.cands = k, !.used = q], T, O, Append(A, <<t, i>>))
<1> DEFINE m == [s EXCEPT !.cands = k, !.used = q]
           p == <<s.feed, s.entry>>
<1>1. s \in RunMemory /\ Sound(s, T, O) /\ Ranked(s.cands, s.feed)
  BY DEF Reading, Sound
<1>2. s.feed \in Nat /\ s.entry \in Nat /\ s.feed # 0
  BY <1>1, FeedsAreTyped DEF RunMemory, Reading
<1>3. p \in Positions /\ p # NoPosition /\ p[1] = s.feed /\ p[2] = s.entry
  BY <1>2 DEF Positions, NoPosition
<1>4. s.cands \in [Titles -> Positions] /\ s.used \in Seq(Items \X Titles)
  BY <1>1 DEF RunMemory
<1>5. k = Candidate(s.cands, t, p)
  OBVIOUS
<1> HIDE DEF p
<1>6. /\ k \in [Titles -> Positions] /\ Ranked(k, s.feed)
      /\ Found(k) \subseteq Found(s.cands) \cup {t}
      /\ \A u \in Found(k) : k[u][1] = s.feed => k[u][2] <= s.entry
  <2>1. /\ Ranked(s.cands, p[1])
        /\ \A u \in Found(s.cands) : s.cands[u][1] = p[1] => s.cands[u][2] < p[2]
    BY <1>1, <1>3
  <2>2. /\ k \in [Titles -> Positions] /\ Ranked(k, p[1])
        /\ Found(k) \subseteq Found(s.cands) \cup {t}
        /\ \A u \in Found(k) : k[u][1] = p[1] => k[u][2] <= p[2]
    BY <1>3, <1>4, <1>5, <2>1, CandidateIsRanked
  <2> QED
    BY <1>3, <2>2
<1>7. /\ q \in Seq(Items \X Titles)
      /\ Range(q) \subseteq Range(s.used) \cup {<<i, t>>}
  <2> DEFINE x == <<i, t>>
  <2>1. x \in Items \X Titles
    OBVIOUS
  <2>2. q = s.used \/ q = Append(s.used, x)
    OBVIOUS
  <2> HIDE DEF x
  <2>3. q \in Seq(Items \X Titles) /\ Range(q) \subseteq Range(s.used) \cup {x}
    <3>1. /\ Append(s.used, x) \in Seq(Items \X Titles)
          /\ Range(Append(s.used, x)) = Range(s.used) \cup {x}
      BY <1>4, <2>1, RangeOfAppend
    <3> QED
      BY <1>4, <2>2, <3>1
  <2> QED
    BY <2>3 DEF x
<1>8. /\ m \in RunMemory
      /\ m.newLogs = s.newLogs /\ m.newTitles = s.newTitles /\ m.newOccs = s.newOccs
      /\ m.used = q /\ m.cands = k /\ m.feed = s.feed /\ m.pc = s.pc /\ m.entry = s.entry
  BY <1>1, <1>6, <1>7 DEF RunMemory
<1> HIDE DEF m
<1>9. \A x \in Range(m.used) : <<x[2], x[1]>> \in O \cup Range(m.newOccs)
  <2>1. ASSUME NEW x \in Range(s.used) PROVE <<x[2], x[1]>> \in O \cup Range(s.newOccs)
    BY <1>1 DEF Sound
  <2>2. <<i, t>>[1] = i /\ <<i, t>>[2] = t
    OBVIOUS
  <2> QED
    BY <1>7, <1>8, <2>1, <2>2
<1>10. Sound(m, T, O)
  BY <1>1, <1>6, <1>8, <1>9 DEF Sound
<1>11. Range(Append(A, <<t, i>>)) = Range(A) \cup {<<t, i>>}
  <2> DEFINE x == <<t, i>>
  <2>1. x \in Titles \X Items
    OBVIOUS
  <2> HIDE DEF x
  <2>2. Range(Append(A, x)) = Range(A) \cup {x}
    BY <2>1, RangeOfAppend
  <2> QED
    BY <2>2 DEF x
<1>12. Kept(m, O, Append(A, <<t, i>>))
  BY <1>8, <1>11 DEF Kept, Reading
<1>13. Reading(m, T, O, Append(A, <<t, i>>))
  BY <1>6, <1>8, <1>10, <1>12 DEF Reading
<1> QED
  BY <1>13 DEF m

LEMMA EntryAcceptedStep ==
    ASSUME IInv, NEW r \in Runs, NEW t \in Titles, EntryAccepted(r, t)
    PROVE  IInv'
<1> DEFINE i == Entry(r)
           a == StageLog(scan[r], i, Unresolved("resolved"))
           b == StageTitle(a, t)
           s == StageOccurrence(b, t, i)
           mapped == Usable(scan[r], i) # NoTitle
           k == Candidate(s.cands, t, <<s.feed, s.entry>>)
           q == IF mapped THEN Append(s.used, <<i, t>>) ELSE s.used
           n == [s EXCEPT !.cands = k, !.used = q]
           m == NextEntry(r, n)
           A == accepted[r]
<1>1. scan[r].pc = "entry" /\ scan[r].pc \notin Over
  BY DEF EntryAccepted, Over
<1>2. /\ scan' = [scan EXCEPT ![r] = m]
      /\ accepted' = [accepted EXCEPT ![r] = Append(@, <<t, i>>)]
      /\ UNCHANGED <<catalog, diagnostics, mappings, runDoc, latest, failures, crashes, edits, troubled>>
  BY DEF EntryAccepted
<1>3. /\ Reading(scan[r], titles, occs, A) /\ i \in Items
      /\ \A u \in Found(scan[r].cands) :
            scan[r].cands[u][1] = scan[r].feed => scan[r].cands[u][2] < scan[r].entry
  BY <1>1, EntryIsRead
<1>4. "resolved" \in RetryStates
  BY DEF RetryStates
<1>5. /\ Reading(a, titles, occs, A)
      /\ a.cands = scan[r].cands /\ a.feed = scan[r].feed /\ a.entry = scan[r].entry
  BY <1>3, <1>4, StagedLogReads
<1> HIDE DEF i, a
<1>6. /\ Reading(b, titles, occs, A) /\ t \in Range(b.newTitles)
      /\ b.cands = a.cands /\ b.feed = a.feed /\ b.entry = a.entry
  BY <1>5, StagedTitleReads
<1> HIDE DEF b
<1>7. /\ Reading(s, titles, occs, A) /\ t \in Range(s.newTitles) /\ <<t, i>> \in Range(s.newOccs)
      /\ s.cands = b.cands /\ s.feed = b.feed /\ s.entry = b.entry
  BY <1>3, <1>6, StagedOccurrenceReads
<1>8. \A u \in Found(s.cands) : s.cands[u][1] = s.feed => s.cands[u][2] < s.entry
  BY <1>3, <1>5, <1>6, <1>7
<1> HIDE DEF s
<1>9. accepted \in [Runs -> Seq(Titles \X Items)] /\ A \in Seq(Titles \X Items)
  BY StoreIsTyped DEF Stored
<1>10. q = s.used \/ q = Append(s.used, <<i, t>>)
  OBVIOUS
<1> HIDE DEF mapped, A
<1>11. k = Candidate(s.cands, t, <<s.feed, s.entry>>)
  OBVIOUS
<1> HIDE DEF k, q
<1>12. Reading(n, titles, occs, Append(A, <<t, i>>))
  BY <1>3, <1>7, <1>8, <1>9, <1>10, <1>11, AcceptedReads
<1> HIDE DEF n
<1>13. Good(m, titles, occs, Append(A, <<t, i>>))
  BY <1>12, NextEntryIsGood
<1> HIDE DEF m
<1>14. UNCHANGED <<titles, occs, logs, aged, mappings, runDoc, snaps, pointer, failures, crashes, edits, troubled>>
  BY <1>2 DEF catalog, diagnostics, latest
<1>15. /\ accepted' \in [Runs -> Seq(Titles \X Items)]
       /\ accepted'[r] = Append(A, <<t, i>>)
       /\ \A o \in Runs \ {r} : accepted'[o] = accepted[o]
  <2> DEFINE z == Append(A, <<t, i>>)
  <2>1. z \in Seq(Titles \X Items)
    BY <1>3, <1>9
  <2>2. accepted' = [accepted EXCEPT ![r] = z]
    BY <1>2 DEF A
  <2> HIDE DEF z
  <2>3. /\ accepted' \in [Runs -> Seq(Titles \X Items)] /\ accepted'[r] = z
        /\ \A o \in Runs \ {r} : accepted'[o] = accepted[o]
    BY <1>9, <2>1, <2>2
  <2> QED
    BY <2>3 DEF z
<1>16. Stored' /\ FiledUnderStoredTitles' /\ ResolvedFiled'
  BY <1>14, <1>15, StoreIsTyped DEF Stored, FiledUnderStoredTitles, ResolvedFiled
<1>17. runDoc[r] \notin Closed
  BY <1>1, GoingOn
<1>18. Good(m, titles', occs', accepted'[r])
  BY <1>13, <1>14, <1>15
<1> QED
  BY <1>2, <1>14, <1>15, <1>16, <1>17, <1>18, OneRunMoves

LEMMA EntryUnreadStep ==
    ASSUME IInv, NEW r \in Runs, NEW t \in Titles, NEW readTitle \in BOOLEAN,
           EntryUnread(r, t, readTitle)
    PROVE  IInv'
<1> DEFINE i == Entry(r)
           s == StageLog(scan[r], i, Unresolved("resolved"))
           titled == StageTitle(s, t)
           read == IF readTitle THEN titled ELSE s
           logged == StageLog(read, i, Unresolved("retryable"))
           n == RssErred(logged)
           A == accepted[r]
<1>1. scan[r].pc = "entry" /\ scan[r].pc \notin Over /\ failures < MaxFailures
  BY DEF EntryUnread, Over
<1>2. /\ scan' = [scan EXCEPT ![r] = NextEntry(r, n)]
      /\ failures' = failures + 1 /\ troubled' = troubled \cup {r}
      /\ UNCHANGED <<catalog, diagnostics, mappings, runDoc, latest, crashes, edits, accepted>>
  BY DEF EntryUnread, RetryLog
<1>3. Reading(scan[r], titles, occs, A) /\ i \in Items
  BY <1>1, EntryIsRead
<1>4. "resolved" \in RetryStates /\ "retryable" \in RetryStates
  BY DEF RetryStates
<1>5. Reading(s, titles, occs, A)
  BY <1>3, <1>4, StagedLogReads
<1> HIDE DEF i, s
<1>6. Reading(titled, titles, occs, A)
  BY <1>5, StagedTitleReads
<1> HIDE DEF titled
<1>7. Reading(read, titles, occs, A)
  BY <1>5, <1>6
<1> HIDE DEF read
<1>8. Reading(logged, titles, occs, A)
  BY <1>3, <1>4, <1>7, StagedLogReads
<1> HIDE DEF logged
<1>9. Reading(n, titles, occs, A)
  BY <1>8, ErredReads
<1> HIDE DEF n
<1>10. Good(NextEntry(r, n), titles, occs, accepted[r])
  BY <1>9, NextEntryIsGood
<1>11. failures' \in 0 .. MaxFailures /\ troubled' \subseteq Runs /\ crashes' \in 0 .. MaxCrashes
  BY <1>1, <1>2, StoreIsTyped, StoreAssumption
<1> QED
  BY <1>1, <1>2, <1>10, <1>11, MemoryMoves

-----------------------------------------------------------------------------
(* The reparse phase *)

LEMMA ReparseMovesAreAlike ==
    ASSUME NEW s \in RunMemory, NEW pc \in Phases,
           NEW loaded \in [Items -> Titles \cup {NoTitle}]
    PROVE  /\ Alike(s, [s EXCEPT !.pc = pc, !.loaded = loaded])
           /\ [s EXCEPT !.pc = pc, !.loaded = loaded].pc = pc
           /\ Alike(s, [s EXCEPT !.pc = pc, !.status = "failed"])
           /\ [s EXCEPT !.pc = pc, !.status = "failed"].pc = pc
<1>1. Alike(s, [s EXCEPT !.pc = pc, !.loaded = loaded])
      /\ [s EXCEPT !.pc = pc, !.loaded = loaded].pc = pc
  BY DEF Alike, RunMemory
<1>2. Alike(s, [s EXCEPT !.pc = pc, !.status = "failed"])
      /\ [s EXCEPT !.pc = pc, !.status = "failed"].pc = pc
  BY DEF Alike, RunMemory
<1> QED
  BY <1>1, <1>2

LEMMA PageIsAlike ==
    ASSUME NEW s \in RunMemory, NEW pc \in Phases, NEW page \in SUBSET Items
    PROVE  /\ Alike(s, [s EXCEPT !.pc = pc, !.page = page])
           /\ [s EXCEPT !.pc = pc, !.page = page].pc = pc
  BY DEF Alike, RunMemory

LEMMA DoneWithIsGood ==
    ASSUME NEW s, NEW T, NEW O, NEW A, Sound(s, T, O), Kept(s, O, A), NEW i
    PROVE  Good(DoneWith(s, i), T, O, A)
<1> DEFINE pc == IF s.page = {i} THEN "finish" ELSE "reparse"
           page == s.page \ {i}
           m == [s EXCEPT !.pc = pc, !.page = page, !.item = NoItem, !.title = NoTitle]
<1>1. s \in RunMemory
  BY DEF Sound
<1>2. page \in SUBSET Items
  BY <1>1 DEF RunMemory
<1>3. pc \in Phases /\ pc \in Easy
  BY DEF Phases, Easy
<1>4. DoneWith(s, i) = m
  BY DEF DoneWith
<1> HIDE DEF pc, page
<1>5. Alike(s, m) /\ m.pc = pc
  BY <1>1, <1>2, <1>3 DEF Alike, RunMemory
<1> HIDE DEF m
<1> QED
  BY <1>3, <1>4, <1>5, EasyIsGood

LEMMA ErredIsSound ==
    ASSUME NEW s, NEW T, NEW O, NEW A, Sound(s, T, O), Kept(s, O, A)
    PROVE  Sound(Erred(s), T, O) /\ Kept(Erred(s), O, A)
<1> DEFINE m == Erred(s)
<1>1. Alike(s, m)
  BY ErredIsAlike DEF Sound
<1> HIDE DEF m
<1> QED
  BY <1>1, AlikeIsSound DEF m

LEMMA ReloadMappingsStep ==
    ASSUME IInv, NEW r \in Runs, ReloadMappings(r)
    PROVE  IInv'
<1> DEFINE s == scan[r]
           reloaded == [i \in Items |-> IF mappings[i] # NoTitle THEN mappings[i] ELSE s.loaded[i]]
           ok == [s EXCEPT !.pc = "page", !.loaded = reloaded]
           failed == [s EXCEPT !.pc = "finish", !.status = "failed"]
<1>1. s.pc = "reload" /\ s.pc \notin Over
  BY DEF ReloadMappings, Over
<1>2. PICK answer \in Answers \ {"lost"} : Continue(r, answer, ok, failed)
  BY DEF ReloadMappings
<1>3. s \in RunMemory /\ Sound(s, titles, occs) /\ Kept(s, occs, accepted[r])
  BY <1>1, GoingOn
<1>4. UNCHANGED <<catalog, diagnostics, mappings, runDoc, latest, crashes, edits, observed>>
  BY DEF ReloadMappings
<1>5. reloaded \in [Items -> Titles \cup {NoTitle}]
  BY <1>3, StoreIsTyped DEF Stored, RunMemory
<1>6. /\ "page" \in Phases /\ "finish" \in Phases /\ "page" \in Easy /\ "finish" \in Easy
  BY DEF Phases, Easy
<1> HIDE DEF s, reloaded
<1>7. Alike(s, ok) /\ ok.pc = "page"
  BY <1>3, <1>5, <1>6, ReparseMovesAreAlike
<1>8. Alike(s, failed) /\ failed.pc = "finish"
  BY <1>3, <1>5, <1>6, ReparseMovesAreAlike
<1> HIDE DEF ok, failed
<1>9. Good(ok, titles, occs, accepted[r]) /\ Good(failed, titles, occs, accepted[r])
  BY <1>3, <1>6, <1>7, <1>8, EasyIsGood
<1> DEFINE m == IF Raised(answer) THEN failed ELSE ok
<1>10. Good(m, titles, occs, accepted[r])
  BY <1>9
<1>11. failures' \in 0 .. MaxFailures /\ scan' = [scan EXCEPT ![r] = m]
  BY <1>2, AnswerCounted, StoreIsTyped
<1> HIDE DEF m
<1> QED
  BY <1>1, <1>4, <1>10, <1>11, MemoryMoves, StoreIsTyped DEF s, observed

LEMMA ReadPageStep ==
    ASSUME IInv, NEW r \in Runs, ReadPage(r)
    PROVE  IInv'
<1> DEFINE s == scan[r]
           page == Retryable \ s.wrote
           pc == IF page = {} THEN "finish" ELSE "reparse"
           ok == [s EXCEPT !.pc = pc, !.page = page]
           failed == [s EXCEPT !.pc = "finish", !.status = "failed"]
<1>1. s.pc = "page" /\ s.pc \notin Over
  BY DEF ReadPage, Over
<1>2. PICK answer \in Answers \cup {"unreadable"} : Continue(r, answer, ok, failed)
  BY DEF ReadPage
<1>3. s \in RunMemory /\ Sound(s, titles, occs) /\ Kept(s, occs, accepted[r])
  BY <1>1, GoingOn
<1>4. UNCHANGED <<catalog, diagnostics, mappings, runDoc, latest, crashes, edits, observed>>
  BY DEF ReadPage
<1>5. page \in SUBSET Items
  BY DEF Retryable
<1>6. /\ pc \in Phases /\ "finish" \in Phases /\ pc \in Easy /\ "finish" \in Easy
      /\ s.loaded \in [Items -> Titles \cup {NoTitle}]
  BY <1>3 DEF Phases, Easy, RunMemory
<1> HIDE DEF s, page, pc
<1>7. Alike(s, ok) /\ ok.pc = pc
  BY <1>3, <1>5, <1>6, PageIsAlike
<1>8. Alike(s, failed) /\ failed.pc = "finish"
  BY <1>3, <1>5, <1>6, ReparseMovesAreAlike
<1> HIDE DEF ok, failed
<1>9. Good(ok, titles, occs, accepted[r]) /\ Good(failed, titles, occs, accepted[r])
  BY <1>3, <1>6, <1>7, <1>8, EasyIsGood
<1> DEFINE m == IF Raised(answer) THEN failed ELSE ok
<1>10. Good(m, titles, occs, accepted[r])
  BY <1>9
<1>11. failures' \in 0 .. MaxFailures /\ scan' = [scan EXCEPT ![r] = m]
  BY <1>2, AnswerCounted, StoreIsTyped
<1> HIDE DEF m
<1> QED
  BY <1>1, <1>4, <1>10, <1>11, MemoryMoves, StoreIsTyped DEF s, observed

LEMMA RecordOutcomeStep ==
    ASSUME IInv, NEW r \in Runs, NEW log \in {RetryLog, TerminalLog}, NEW erred \in BOOLEAN,
           RecordOutcome(r, log, erred)
    PROVE  IInv'
<1> DEFINE s == scan[r]
           e == IF erred THEN Erred(s) ELSE s
<1>1. s.pc = "reparse" /\ s.pc \notin Over
  BY DEF RecordOutcome, Over
<1>2. PICK i \in Due(s) : \E answer \in LogAnswers(i) :
        /\ AddLog(answer, i, log)
        /\ Continue(r, answer, DoneWith(e, i), DoneWith(Erred(s), i))
  BY DEF RecordOutcome
<1>3. PICK answer \in LogAnswers(i) :
        /\ AddLog(answer, i, log)
        /\ Continue(r, answer, DoneWith(e, i), DoneWith(Erred(s), i))
  BY <1>2
<1>4. s \in RunMemory /\ Sound(s, titles, occs) /\ Kept(s, occs, accepted[r])
  BY <1>1, GoingOn
<1>5. UNCHANGED <<catalog, mappings, runDoc, latest, crashes, edits, observed>>
  BY DEF RecordOutcome
<1>6. i \in Items
  BY <1>4 DEF Due, Mapped, RunMemory
<1>7. log \in Logs /\ log.state # "absent" /\ log.outcome # "matched"
  BY DEF RetryLog, TerminalLog, Unresolved, Logs, RetryStates
<1>8. answer \in Answers \cup {"unreadable"}
  BY DEF LogAnswers
<1> HIDE DEF s
<1>9. Sound(e, titles, occs) /\ Kept(e, occs, accepted[r])
  BY <1>4, ErredIsSound
<1>10. Sound(Erred(s), titles, occs) /\ Kept(Erred(s), occs, accepted[r])
  BY <1>4, ErredIsSound
<1> HIDE DEF e
<1> DEFINE m == IF Raised(answer) THEN DoneWith(Erred(s), i) ELSE DoneWith(e, i)
<1>11. Good(m, titles, occs, accepted[r])
  BY <1>9, <1>10, DoneWithIsGood
<1>12. failures' \in 0 .. MaxFailures /\ scan' = [scan EXCEPT ![r] = m]
  BY <1>3, <1>8, AnswerCounted, StoreIsTyped
<1>13. /\ logs' \in [Items -> Logs]
       /\ aged' \subseteq {k \in Items : logs'[k] # NoLog}
       /\ \A k \in Items : logs'[k].outcome = "matched" => <<logs'[k].title, k>> \in occs
  BY <1>3, <1>6, <1>7, AddLogMoves
<1> HIDE DEF m
<1> QED
  BY <1>1, <1>5, <1>11, <1>12, <1>13, LogsMove DEF s

LEMMA AcceptCandidateStep ==
    ASSUME IInv, NEW r \in Runs, AcceptCandidate(r)
    PROVE  IInv'
<1> DEFINE s == scan[r]
<1>1. s.pc = "reparse" /\ s.pc \notin Over
  BY DEF AcceptCandidate, Over
<1>2. PICK i \in Due(s) :
        \E t \in IF Usable(s, i) # NoTitle THEN {Usable(s, i)} ELSE Titles :
           scan' = [scan EXCEPT ![r].pc = "saveTitle", ![r].item = i, ![r].title = t]
  BY DEF AcceptCandidate
<1>3. PICK t \in IF Usable(s, i) # NoTitle THEN {Usable(s, i)} ELSE Titles :
        scan' = [scan EXCEPT ![r].pc = "saveTitle", ![r].item = i, ![r].title = t]
  BY <1>2
<1> DEFINE m == [s EXCEPT !.pc = "saveTitle", !.item = i, !.title = t]
<1>4. s \in RunMemory /\ Sound(s, titles, occs) /\ Kept(s, occs, accepted[r])
  BY <1>1, GoingOn
<1>5. UNCHANGED <<catalog, diagnostics, mappings, runDoc, latest, failures, crashes, edits, observed>>
  BY DEF AcceptCandidate
<1>6. i \in Items
  BY <1>4 DEF Due, Mapped, RunMemory
<1>7. t \in Titles
  <2>1. Usable(s, i) \in Titles \cup {NoTitle}
    BY <1>4, <1>6 DEF Usable, RunMemory
  <2> QED
    BY <2>1
<1>8. scan' = [scan EXCEPT ![r] = m]
  <2>1. scan \in [Runs -> RunMemory]
    BY DEF IInv
  <2> QED
    BY <1>3, <2>1
<1>9. Alike(s, m) /\ m.pc = "saveTitle" /\ m.item = i /\ m.title = t
  <2>1. "saveTitle" \in Phases
    BY DEF Phases
  <2> HIDE DEF s
  <2> QED
    BY <1>4, <1>6, <1>7, <2>1 DEF Alike, RunMemory
<1> HIDE DEF s, m
<1>10. Sound(m, titles, occs) /\ Kept(m, occs, accepted[r])
  BY <1>4, <1>9, AlikeIsSound
<1>11. Placed(m) /\ Emptied(m) /\ Written(m, titles, occs)
  BY <1>6, <1>7, <1>9 DEF Placed, Emptied, Written, Ending, Saving
<1>12. Good(m, titles, occs, accepted[r])
  BY <1>10, <1>11 DEF Good
<1> QED
  BY <1>1, <1>5, <1>8, <1>12, MemoryMoves, StoreIsTyped DEF s, observed

(* From one write of an acceptance to the next, or to giving it up. *)
LEMMA SavingIsGood ==
    ASSUME NEW s, NEW T, NEW O, NEW A, Sound(s, T, O), Kept(s, O, A),
           s.item \in Items, s.title \in Titles, NEW pc \in Saving,
           pc = "saveOcc" => s.title \in T,
           pc \in {"saveLog", "saveUsed"} => <<s.title, s.item>> \in O
    PROVE  Good([s EXCEPT !.pc = pc], T, O, A)
<1> DEFINE m == [s EXCEPT !.pc = pc]
<1>1. s \in RunMemory /\ pc \in Phases
  BY DEF Sound, Saving, Phases
<1>2. Alike(s, m) /\ m.pc = pc /\ m.item = s.item /\ m.title = s.title
  BY <1>1 DEF Alike, RunMemory
<1> HIDE DEF m
<1>3. Sound(m, T, O) /\ Kept(m, O, A)
  BY <1>2, AlikeIsSound
<1>4. Placed(m) /\ Emptied(m) /\ Written(m, T, O)
  BY <1>2 DEF Placed, Emptied, Written, Saving, Ending
<1>5. Good(m, T, O, A)
  BY <1>3, <1>4 DEF Good
<1> QED
  BY <1>5 DEF m

LEMMA GiveUpIsGood ==
    ASSUME NEW s, NEW T, NEW O, NEW A, Sound(s, T, O), Kept(s, O, A),
           s.item \in Items, s.title \in Titles
    PROVE  Good(GiveUp(s), T, O, A)
<1> DEFINE e == Erred(s)
<1>1. Sound(e, T, O) /\ Kept(e, O, A)
  BY ErredIsSound
<1>2. e.item = s.item /\ e.title = s.title
  BY DEF Erred, Sound, RunMemory
<1>3. GiveUp(s) = [e EXCEPT !.pc = "saveRetry"] /\ "saveRetry" \in Saving
  BY DEF GiveUp, Saving
<1> HIDE DEF e
<1>4. e.item \in Items /\ e.title \in Titles
  BY <1>2
<1>5. Good([e EXCEPT !.pc = "saveRetry"], T, O, A)
  BY <1>1, <1>3, <1>4, SavingIsGood
<1> QED
  BY <1>3, <1>5

(* What is known while an acceptance is written. *)
LEMMA SavingRun ==
    ASSUME IInv, NEW r \in Runs, scan[r].pc \in Saving
    PROVE  /\ scan[r].pc \notin Over /\ runDoc[r] \notin Closed
           /\ scan[r] \in RunMemory
           /\ Good(scan[r], titles, occs, accepted[r])
           /\ Sound(scan[r], titles, occs) /\ Kept(scan[r], occs, accepted[r])
           /\ scan[r].item \in Items /\ scan[r].title \in Titles
<1>1. scan[r].pc \notin Over
  BY DEF Saving, Over
<1> QED
  BY <1>1, GoingOn DEF Good, Placed

LEMMA SaveTitleStep ==
    ASSUME IInv, NEW r \in Runs, SaveTitle(r)
    PROVE  IInv'
<1> DEFINE s == scan[r]
           t == s.title
           ok == [s EXCEPT !.pc = "saveOcc"]
<1>1. s.pc = "saveTitle" /\ s.pc \in Saving
  BY DEF SaveTitle, Saving
<1>2. PICK answer \in Answers : UpsertTitle(answer, t) /\ Continue(r, answer, ok, GiveUp(s))
  BY DEF SaveTitle
<1>3. /\ s.pc \notin Over /\ runDoc[r] \notin Closed /\ Good(s, titles, occs, accepted[r])
      /\ s.item \in Items /\ t \in Titles
  BY <1>1, SavingRun
<1>4. UNCHANGED <<occs, logs, aged, mappings, runDoc, snaps, pointer, crashes, edits, accepted, troubled>>
  BY DEF SaveTitle, diagnostics, latest, observed
<1>5. /\ titles \subseteq titles' /\ titles' \subseteq titles \cup {t}
      /\ Landed(answer) => t \in titles'
  BY <1>2 DEF UpsertTitle
<1> HIDE DEF s
<1>6. Good(s, titles', occs, accepted[r])
  BY <1>3, <1>5, GoodGrows
<1>7. Sound(s, titles', occs) /\ Kept(s, occs, accepted[r])
  BY <1>3, <1>6 DEF Good
<1>8. "saveOcc" \in Saving
  BY DEF Saving
<1>9. Landed(answer) => Good(ok, titles', occs, accepted[r])
  BY <1>3, <1>5, <1>7, <1>8, SavingIsGood
<1>10. Good(GiveUp(s), titles', occs, accepted[r])
  BY <1>3, <1>7, GiveUpIsGood
<1> HIDE DEF ok
<1> DEFINE m == IF Raised(answer) THEN GiveUp(s) ELSE ok
<1>11. /\ failures' \in 0 .. MaxFailures /\ scan' = [scan EXCEPT ![r] = m]
       /\ Raised(answer) \/ Landed(answer)
  BY <1>2, AnswerCounted, StoreIsTyped
<1>12. Good(m, titles', occs', accepted'[r])
  BY <1>4, <1>9, <1>10, <1>11
<1>13. Stored' /\ FiledUnderStoredTitles' /\ ResolvedFiled'
  BY <1>3, <1>4, <1>5, <1>11, StoreIsTyped DEF Stored, FiledUnderStoredTitles, ResolvedFiled
<1> HIDE DEF m
<1> QED
  BY <1>3, <1>4, <1>5, <1>11, <1>12, <1>13, OneRunMoves

LEMMA SaveOccurrenceStep ==
    ASSUME IInv, NEW r \in Runs, SaveOccurrence(r)
    PROVE  IInv'
<1> DEFINE s == scan[r]
           t == s.title
           i == s.item
           ok == [s EXCEPT !.pc = "saveLog"]
<1>1. s.pc = "saveOcc" /\ s.pc \in Saving
  BY DEF SaveOccurrence, Saving
<1>2. PICK answer \in Answers :
        UpsertOccurrence(answer, t, i) /\ Continue(r, answer, ok, GiveUp(s))
  BY DEF SaveOccurrence
<1>3. /\ s.pc \notin Over /\ runDoc[r] \notin Closed /\ Good(s, titles, occs, accepted[r])
      /\ i \in Items /\ t \in Titles
  BY <1>1, SavingRun
<1>4. UNCHANGED <<titles, logs, aged, mappings, runDoc, snaps, pointer, crashes, edits, accepted, troubled>>
  BY DEF SaveOccurrence, diagnostics, latest, observed
<1>5. /\ occs \subseteq occs' /\ occs' \subseteq occs \cup {<<t, i>>}
      /\ Landed(answer) => <<t, i>> \in occs'
  BY <1>2 DEF UpsertOccurrence
<1>6. t \in titles
  BY <1>1, <1>3 DEF Good, Written
<1> HIDE DEF s
<1>7. Good(s, titles, occs', accepted[r])
  BY <1>3, <1>5, GoodGrows
<1>8. Sound(s, titles, occs') /\ Kept(s, occs', accepted[r])
  BY <1>3, <1>7 DEF Good
<1>9. "saveLog" \in Saving
  BY DEF Saving
<1>10. Landed(answer) => Good(ok, titles, occs', accepted[r])
  BY <1>3, <1>5, <1>8, <1>9, SavingIsGood
<1>11. Good(GiveUp(s), titles, occs', accepted[r])
  BY <1>3, <1>8, GiveUpIsGood
<1> HIDE DEF ok
<1> DEFINE m == IF Raised(answer) THEN GiveUp(s) ELSE ok
<1>12. /\ failures' \in 0 .. MaxFailures /\ scan' = [scan EXCEPT ![r] = m]
       /\ Raised(answer) \/ Landed(answer)
  BY <1>2, AnswerCounted, StoreIsTyped
<1>13. Good(m, titles', occs', accepted'[r])
  BY <1>4, <1>10, <1>11, <1>12
<1>14. Stored'
  BY <1>3, <1>4, <1>5, <1>12, StoreIsTyped DEF Stored
<1>15. FiledUnderStoredTitles' /\ ResolvedFiled'
  BY <1>4, <1>5, <1>6, StoreIsTyped DEF FiledUnderStoredTitles, ResolvedFiled
<1> HIDE DEF m
<1> QED
  BY <1>3, <1>4, <1>5, <1>12, <1>13, <1>14, <1>15, OneRunMoves

LEMMA SaveLogStep ==
    ASSUME IInv, NEW r \in Runs, SaveLog(r)
    PROVE  IInv'
<1> DEFINE s == scan[r]
           t == s.title
           i == s.item
           consume == [s EXCEPT !.pc = "saveUsed"]
           saved == IF Usable(s, i) # NoTitle THEN consume ELSE DoneWith(s, i)
<1>1. s.pc = "saveLog" /\ s.pc \in Saving
  BY DEF SaveLog, Saving
<1>2. PICK answer \in LogAnswers(i) :
        AddLog(answer, i, ResolvedLog(t)) /\ Continue(r, answer, saved, GiveUp(s))
  BY DEF SaveLog
<1>3. /\ s.pc \notin Over /\ Good(s, titles, occs, accepted[r])
      /\ Sound(s, titles, occs) /\ Kept(s, occs, accepted[r])
      /\ i \in Items /\ t \in Titles
  BY <1>1, SavingRun
<1>4. UNCHANGED <<catalog, mappings, runDoc, latest, crashes, edits, observed>>
  BY DEF SaveLog
<1>5. <<t, i>> \in occs
  BY <1>1, <1>3 DEF Good, Written
<1>6. answer \in Answers \cup {"unreadable"}
  BY DEF LogAnswers
<1> HIDE DEF s
<1>7. "saveUsed" \in Saving
  BY DEF Saving
<1>8. Good(consume, titles, occs, accepted[r])
  BY <1>3, <1>5, <1>7, SavingIsGood
<1>9. Good(saved, titles, occs, accepted[r])
  BY <1>3, <1>8, DoneWithIsGood
<1>10. Good(GiveUp(s), titles, occs, accepted[r])
  BY <1>3, GiveUpIsGood
<1> HIDE DEF saved
<1> DEFINE m == IF Raised(answer) THEN GiveUp(s) ELSE saved
<1>11. Good(m, titles, occs, accepted[r])
  BY <1>9, <1>10
<1>12. failures' \in 0 .. MaxFailures /\ scan' = [scan EXCEPT ![r] = m]
  BY <1>2, <1>6, AnswerCounted, StoreIsTyped
<1>13. /\ ResolvedLog(t) \in Logs /\ ResolvedLog(t).state # "absent"
       /\ ResolvedLog(t).title = t
  BY <1>3 DEF ResolvedLog, Logs, RetryStates
<1>14. /\ logs' \in [Items -> Logs]
       /\ aged' \subseteq {k \in Items : logs'[k] # NoLog}
       /\ \A k \in Items : logs'[k].outcome = "matched" => <<logs'[k].title, k>> \in occs
  BY <1>2, <1>3, <1>5, <1>13, AddLogMoves
<1> HIDE DEF m
<1> QED
  BY <1>3, <1>4, <1>11, <1>12, <1>14, LogsMove DEF s

LEMMA SaveMappingStep ==
    ASSUME IInv, NEW r \in Runs, SaveMapping(r)
    PROVE  IInv'
<1> DEFINE s == scan[r]
           i == s.item
           f == Forget(s, i, s.title)
           e == Erred(s)
<1>1. s.pc = "saveUsed" /\ s.pc \in Saving
  BY DEF SaveMapping, Saving
<1>2. PICK answer \in Answers :
        DeleteMapping(answer, i) /\ Continue(r, answer, DoneWith(f, i), DoneWith(e, i))
  BY DEF SaveMapping
<1>3. /\ s.pc \notin Over /\ s \in RunMemory
      /\ Sound(s, titles, occs) /\ Kept(s, occs, accepted[r]) /\ i \in Items
  BY <1>1, SavingRun
<1>4. UNCHANGED <<catalog, diagnostics, runDoc, latest, crashes, edits, observed>>
  BY DEF SaveMapping
<1> HIDE DEF s
<1>5. Alike(s, f)
  BY <1>3, ForgetIsAlike
<1> HIDE DEF f
<1>6. Sound(f, titles, occs) /\ Kept(f, occs, accepted[r])
  BY <1>3, <1>5, AlikeIsSound
<1>7. Sound(e, titles, occs) /\ Kept(e, occs, accepted[r])
  BY <1>3, ErredIsSound
<1> HIDE DEF e
<1> DEFINE m == IF Raised(answer) THEN DoneWith(e, i) ELSE DoneWith(f, i)
<1>8. Good(m, titles, occs, accepted[r])
  BY <1>6, <1>7, DoneWithIsGood
<1>9. failures' \in 0 .. MaxFailures /\ scan' = [scan EXCEPT ![r] = m]
  BY <1>2, AnswerCounted, StoreIsTyped
<1> HIDE DEF m
<1> QED
  BY <1>2, <1>3, <1>4, <1>8, <1>9, MappingsMove DEF s

LEMMA SaveRetryStep ==
    ASSUME IInv, NEW r \in Runs, SaveRetry(r)
    PROVE  IInv'
<1> DEFINE s == scan[r]
           i == s.item
           e == Erred(s)
<1>1. s.pc = "saveRetry" /\ s.pc \in Saving
  BY DEF SaveRetry, Saving
<1>2. PICK answer \in LogAnswers(i) :
        AddLog(answer, i, RetryLog) /\ Continue(r, answer, DoneWith(s, i), DoneWith(e, i))
  BY DEF SaveRetry
<1>3. /\ s.pc \notin Over
      /\ Sound(s, titles, occs) /\ Kept(s, occs, accepted[r]) /\ i \in Items
  BY <1>1, SavingRun
<1>4. UNCHANGED <<catalog, mappings, runDoc, latest, crashes, edits, observed>>
  BY DEF SaveRetry
<1>5. answer \in Answers \cup {"unreadable"}
  BY DEF LogAnswers
<1> HIDE DEF s
<1>6. Sound(e, titles, occs) /\ Kept(e, occs, accepted[r])
  BY <1>3, ErredIsSound
<1> HIDE DEF e
<1> DEFINE m == IF Raised(answer) THEN DoneWith(e, i) ELSE DoneWith(s, i)
<1>7. Good(m, titles, occs, accepted[r])
  BY <1>3, <1>6, DoneWithIsGood
<1>8. failures' \in 0 .. MaxFailures /\ scan' = [scan EXCEPT ![r] = m]
  BY <1>2, <1>5, AnswerCounted, StoreIsTyped
<1>9. RetryLog \in Logs /\ RetryLog.state # "absent" /\ RetryLog.outcome # "matched"
  BY DEF RetryLog, Unresolved, Logs, RetryStates
<1>10. /\ logs' \in [Items -> Logs]
       /\ aged' \subseteq {k \in Items : logs'[k] # NoLog}
       /\ \A k \in Items : logs'[k].outcome = "matched" => <<logs'[k].title, k>> \in occs
  BY <1>2, <1>3, <1>9, AddLogMoves
<1> HIDE DEF m
<1> QED
  BY <1>3, <1>4, <1>7, <1>8, <1>10, LogsMove DEF s

-----------------------------------------------------------------------------
(* Publishing: the candidates can be sorted *)

(* A finite set can be laid out in any strict total order, each element at  *)
(* the number of those before it, plus one.                                 *)
LEMMA FiniteSetsAreSorted ==
    ASSUME NEW F, IsFiniteSet(F), NEW R,
           \A t \in F : <<t, t>> \notin R,
           \A t, u, v \in F : <<t, u>> \in R /\ <<u, v>> \in R => <<t, v>> \in R,
           \A t, u \in F : t = u \/ <<t, u>> \in R \/ <<u, t>> \in R
    PROVE  /\ Cardinality(F) \in Nat
           /\ \E q \in [1 .. Cardinality(F) -> F] :
                 \A m, n \in 1 .. Cardinality(F) : m < n => <<q[m], q[n]>> \in R
<1> DEFINE N == Cardinality(F)
           below(t) == {u \in F : <<u, t>> \in R}
           rank == [t \in F |-> Cardinality(below(t)) + 1]
<1>1. N \in Nat
  BY FS_CardinalityType
<1>2. ASSUME NEW t \in F
      PROVE  /\ IsFiniteSet(below(t)) /\ Cardinality(below(t)) \in Nat
             /\ Cardinality(below(t)) <= N - 1
  <2>1. IsFiniteSet(F \ {t}) /\ Cardinality(F \ {t}) = N - 1
    BY FS_RemoveElement
  <2>2. below(t) \in SUBSET (F \ {t})
    OBVIOUS
  <2>3. IsFiniteSet(below(t)) /\ Cardinality(below(t)) <= N - 1
    <3> DEFINE V == below(t)
               W == F \ {t}
    <3>1. V \in SUBSET W /\ IsFiniteSet(W) /\ Cardinality(W) = N - 1
      BY <2>1, <2>2
    <3> HIDE DEF V, W
    <3>2. IsFiniteSet(V) /\ Cardinality(V) <= Cardinality(W)
      BY <3>1, FS_Subset
    <3> QED
      BY <3>1, <3>2 DEF V
  <2>4. Cardinality(below(t)) \in Nat
    BY <2>3, FS_CardinalityType
  <2> QED
    BY <2>3, <2>4
<1>3. ASSUME NEW t \in F, NEW u \in F, <<t, u>> \in R
      PROVE  Cardinality(below(t)) + 1 <= Cardinality(below(u))
  <2> DEFINE b == below(t) \cup {t}
  <2>1. t \notin below(t)
    OBVIOUS
  <2>2. b \in SUBSET below(u)
    BY <1>3
  <2>3. Cardinality(b) = Cardinality(below(t)) + 1
    BY <1>2, <2>1, FS_AddElement
  <2>4. Cardinality(b) <= Cardinality(below(u))
    BY <1>2, <2>2, FS_Subset
  <2> QED
    BY <2>3, <2>4
<1>4. rank \in [F -> 1 .. N]
  <2>1. ASSUME NEW t \in F PROVE Cardinality(below(t)) + 1 \in 1 .. N
    <3> DEFINE k == Cardinality(below(t))
    <3>1. k \in Nat /\ k <= N - 1
      BY <1>2
    <3> HIDE DEF k
    <3>2. k + 1 \in 1 .. N
      BY <1>1, <3>1
    <3> QED
      BY <3>2 DEF k
  <2> QED
    BY <2>1
<1>5. \A t \in F : rank[t] = Cardinality(below(t)) + 1
  OBVIOUS
<1> HIDE DEF rank
<1>6. ASSUME NEW t \in F, NEW u \in F, <<t, u>> \in R
      PROVE  rank[t] < rank[u]
  <2>1. Cardinality(below(t)) \in Nat /\ Cardinality(below(u)) \in Nat
    BY <1>2
  <2> HIDE DEF below
  <2> QED
    BY <1>3, <1>5, <1>6, <2>1
<1>7. \A t \in F : rank[t] \in Nat
  BY <1>1, <1>4
<1>8. rank \in Injection(F, 1 .. N)
  <2>1. ASSUME NEW t \in F, NEW u \in F, rank[t] = rank[u]
        PROVE  t = u
    <3>1. ~(rank[t] < rank[u]) /\ ~(rank[u] < rank[t])
      BY <1>7, <2>1
    <3>2. <<t, u>> \notin R /\ <<u, t>> \notin R
      BY <1>6, <3>1
    <3> QED
      BY <3>2
  <2> QED
    BY <1>4, <2>1 DEF Injection, IsInjective
<1>9. IsFiniteSet(1 .. N) /\ Cardinality(1 .. N) = N
  <2>1. IsFiniteSet(1 .. N) /\ Cardinality(1 .. N) = IF 1 > N THEN 0 ELSE N - 1 + 1
    BY <1>1, FS_Interval
  <2> QED
    BY <1>1, <2>1
<1>10. rank \in Surjection(F, 1 .. N)
  BY <1>8, <1>9, FS_Injection
<1> DEFINE q == [n \in 1 .. N |-> CHOOSE t \in F : rank[t] = n]
<1>11. \A n \in 1 .. N : q[n] \in F /\ rank[q[n]] = n
  BY <1>10 DEF Surjection
<1>12. q \in [1 .. N -> F]
  BY <1>11
<1> HIDE DEF q
<1>13. ASSUME NEW m \in 1 .. N, NEW n \in 1 .. N, m < n
       PROVE  <<q[m], q[n]>> \in R
  <2>1. q[m] \in F /\ q[n] \in F /\ rank[q[m]] = m /\ rank[q[n]] = n
    BY <1>11
  <2>2. q[m] # q[n]
    BY <1>1, <1>13, <2>1
  <2>3. <<q[n], q[m]>> \notin R
    <3>1. ASSUME <<q[n], q[m]>> \in R PROVE n < m
      BY <1>6, <2>1, <3>1
    <3> QED
      BY <1>1, <1>13, <3>1
  <2> QED
    BY <2>1, <2>2, <2>3
<1> HIDE DEF N
<1>14. \E k \in [1 .. N -> F] : \A m, n \in 1 .. N : m < n => <<k[m], k[n]>> \in R
  BY <1>12, <1>13
<1> QED
  BY <1>1, <1>14 DEF N

(* build_items orders all candidates, each in one place. *)
LEMMA BuiltIsSorted ==
    ASSUME NEW c \in [Titles -> Positions], NEW f, Ranked(c, f)
    PROVE  LET N == Cardinality(Found(c))
               q == BuiltItems(c)
           IN
           /\ N \in Nat /\ q \in [1 .. N -> Found(c)] /\ Len(q) = N /\ DOMAIN q = 1 .. N
           /\ \A m, n \in 1 .. N : m < n => Before(c, q[m], q[n])
           /\ \A m, n \in 1 .. N : q[m] = q[n] => m = n
           /\ \A t \in Found(c) : \E n \in 1 .. N : q[n] = t
<1> DEFINE F == Found(c)
           N == Cardinality(F)
           R == {x \in F \X F : Before(c, x[1], x[2])}
<1>1. IsFiniteSet(F) /\ \A t, u \in F : c[t] = c[u] => t = u
  BY DEF Ranked
<1>2. \A t \in F : /\ c[t] \in Nat \X Nat /\ c[t][1] \in Nat /\ c[t][2] \in Nat
                   /\ c[t] = <<c[t][1], c[t][2]>>
  BY DEF Found, Positions
<1>3. \A t, u \in F : <<t, u>> \in R <=> Before(c, t, u)
  OBVIOUS
<1> HIDE DEF F, R
<1>4. \A t \in F : ~Before(c, t, t)
  BY <1>2 DEF Before
<1>5. \A t, u, v \in F : Before(c, t, u) /\ Before(c, u, v) => Before(c, t, v)
  BY <1>2 DEF Before
<1>6. \A t, u \in F : t = u \/ Before(c, t, u) \/ Before(c, u, t)
  <2>1. ASSUME NEW t \in F, NEW u \in F, ~Before(c, t, u), ~Before(c, u, t)
        PROVE  t = u
    <3>1. c[t][1] = c[u][1] /\ c[t][2] = c[u][2]
      BY <1>2, <2>1 DEF Before
    <3> QED
      BY <1>1, <1>2, <3>1
  <2> QED
    BY <2>1
<1>7. /\ N \in Nat
      /\ \E q \in [1 .. N -> F] : \A m, n \in 1 .. N : m < n => <<q[m], q[n]>> \in R
  <2>1. \A t \in F : <<t, t>> \notin R
    BY <1>3, <1>4
  <2>2. \A t, u, v \in F : <<t, u>> \in R /\ <<u, v>> \in R => <<t, v>> \in R
    BY <1>3, <1>5
  <2>3. \A t, u \in F : t = u \/ <<t, u>> \in R \/ <<u, t>> \in R
    BY <1>3, <1>6
  <2> QED
    BY <1>1, <2>1, <2>2, <2>3, FiniteSetsAreSorted
<1>8. PICK p \in [1 .. N -> F] : \A m, n \in 1 .. N : m < n => <<p[m], p[n]>> \in R
  BY <1>7
<1>9. \A m, n \in DOMAIN p : m < n => Before(c, p[m], p[n])
  BY <1>3, <1>8
<1> DEFINE q == BuiltItems(c)
<1>10. /\ q \in [1 .. N -> F]
       /\ \A m, n \in DOMAIN q : m < n => Before(c, q[m], q[n])
  BY <1>9 DEF BuiltItems, F, Found
<1> HIDE DEF q
<1>11. DOMAIN q = 1 .. N /\ Len(q) = N
  BY <1>7, <1>10
<1>12. \A m, n \in 1 .. N : q[m] = q[n] => m = n
  <2>1. ASSUME NEW m \in 1 .. N, NEW n \in 1 .. N, m < n PROVE q[m] # q[n]
    BY <1>4, <1>10, <1>11, <2>1
  <2> QED
    BY <1>7, <2>1
<1>13. \A t \in F : \E n \in 1 .. N : q[n] = t
  <2>1. q \in Injection(1 .. N, F)
    BY <1>10, <1>12 DEF Injection, IsInjective
  <2>2. Cardinality(1 .. N) = N
    <3>1. Cardinality(1 .. N) = IF 1 > N THEN 0 ELSE N - 1 + 1
      BY <1>7, FS_Interval
    <3> QED
      BY <1>7, <3>1
  <2>3. q \in Surjection(1 .. N, F)
    BY <1>1, <2>1, <2>2, FS_Injection
  <2> QED
    BY <2>3 DEF Surjection
<1> QED
  BY <1>7, <1>10, <1>11, <1>12, <1>13 DEF F, q

(* The steps of publishing keep to their own. *)
LEMMA EndingIsGood ==
    ASSUME NEW s, NEW m, NEW T, NEW O, NEW A, Good(s, T, O, A), s.pc \in Ending,
           Alike(s, m), m.pc \in Ending,
           m.pc = "items" => m.at \in 1 .. Cardinality(Found(s.cands))
    PROVE  Good(m, T, O, A)
<1>1. s.pc \notin Over /\ Sound(s, T, O) /\ Kept(s, O, A)
  BY DEF Good, Ending, Over
<1>2. Sound(m, T, O) /\ Kept(m, O, A)
  BY <1>1, AlikeIsSound
<1>3. s.newLogs = <<>> /\ s.newTitles = <<>> /\ s.newOccs = <<>> /\ s.used = <<>>
  BY DEF Good, Emptied
<1>4. Placed(m) /\ Emptied(m) /\ Written(m, T, O)
  BY <1>3 DEF Alike, Placed, Emptied, Written, Ending, Saving
<1> QED
  BY <1>2, <1>4 DEF Good

LEMMA NotPublishedIsGood ==
    ASSUME NEW s, NEW T, NEW O, NEW A, Good(s, T, O, A), s.pc \in Ending
    PROVE  Good(NotPublished(s), T, O, A)
<1> DEFINE e == Erred(s)
           m == [e EXCEPT !.pc = "close"]
<1>1. s \in RunMemory
  BY DEF Good, Sound
<1>2. Alike(s, e) /\ "close" \in Phases
  BY <1>1, ErredIsAlike DEF Phases
<1>3. NotPublished(s) = m
  BY DEF NotPublished
<1> HIDE DEF e
<1>4. Alike(e, m) /\ m.pc = "close"
  BY <1>2, MovedIsAlike DEF Alike
<1> HIDE DEF m
<1>5. Alike(s, m)
  BY <1>2, <1>4 DEF Alike
<1>6. m.pc \in Ending /\ m.pc # "items"
  BY <1>4 DEF Ending
<1> QED
  BY <1>3, <1>5, <1>6, EndingIsGood

LEMMA EndingRun ==
    ASSUME IInv, NEW r \in Runs, scan[r].pc \in Ending
    PROVE  /\ scan[r].pc \notin Over /\ runDoc[r] \notin Closed
           /\ scan[r] \in RunMemory
           /\ Good(scan[r], titles, occs, accepted[r])
           /\ scan[r].cands \in [Titles -> Positions]
           /\ Ranked(scan[r].cands, scan[r].feed)
<1>1. scan[r].pc \notin Over
  BY DEF Ending, Over
<1>2. scan[r] \in RunMemory /\ Sound(scan[r], titles, occs)
  BY <1>1, GoingOn
<1> QED
  BY <1>1, <1>2, GoingOn DEF Sound, RunMemory

LEMMA SnapsMove ==
    ASSUME IInv, NEW r \in Runs, scan[r].pc \notin Over, NEW m,
           scan' = [scan EXCEPT ![r] = m], Good(m, titles, occs, accepted[r]),
           UNCHANGED <<catalog, diagnostics, mappings, runDoc, crashes, edits, observed>>,
           failures' \in 0 .. MaxFailures,
           snaps' \in [Runs -> Snapshots], pointer' \in Runs \cup {NoRun}
    PROVE  IInv'
<1>1. UNCHANGED <<titles, occs, logs, aged, mappings, runDoc, crashes, edits, accepted, troubled>>
  BY DEF catalog, diagnostics, observed
<1>2. Stored'
  BY <1>1 DEF IInv, Stored
<1>3. FiledUnderStoredTitles' /\ ResolvedFiled'
  BY <1>1 DEF IInv, FiledUnderStoredTitles, ResolvedFiled
<1>4. runDoc[r] \notin Closed
  BY GoingOn
<1> QED
  BY <1>1, <1>2, <1>3, <1>4, OneRunMoves

LEMMA StageSnapshotStep ==
    ASSUME IInv, NEW r \in Runs, StageSnapshot(r)
    PROVE  IInv'
<1> DEFINE s == scan[r]
           count == Len(BuiltItems(s.cands))
           pc == IF count = 0 THEN "promote" ELSE "items"
           snap == [status |-> "staging", count |-> count, items |-> {}]
           ok == [s EXCEPT !.pc = pc, !.at = 1]
<1>1. s.pc = "stage" /\ s.pc \in Ending
  BY DEF StageSnapshot, Ending
<1>2. PICK answer \in Answers :
        /\ snaps' = IF Landed(answer) THEN [snaps EXCEPT ![r] = snap] ELSE snaps
        /\ Continue(r, answer, ok, NotPublished(s))
  BY DEF StageSnapshot
<1>3. /\ s.pc \notin Over /\ s \in RunMemory /\ Good(s, titles, occs, accepted[r])
      /\ s.cands \in [Titles -> Positions] /\ Ranked(s.cands, s.feed)
  BY <1>1, EndingRun
<1>4. UNCHANGED <<catalog, diagnostics, mappings, runDoc, pointer, crashes, edits, observed>>
  BY DEF StageSnapshot
<1> HIDE DEF s
<1>5. count = Cardinality(Found(s.cands)) /\ count \in Nat
  BY <1>3, BuiltIsSorted
<1> HIDE DEF count
<1>6. pc \in Phases /\ pc \in Ending
  BY DEF Phases, Ending
<1>7. pc = "items" => 1 \in 1 .. Cardinality(Found(s.cands))
  BY <1>5
<1> HIDE DEF pc
<1>8. Alike(s, ok) /\ ok.pc = pc /\ ok.at = 1
  BY <1>3, <1>6, MovedIsAlike
<1> HIDE DEF ok
<1>9. Good(ok, titles, occs, accepted[r])
  BY <1>1, <1>3, <1>6, <1>7, <1>8, EndingIsGood
<1>10. Good(NotPublished(s), titles, occs, accepted[r])
  BY <1>1, <1>3, NotPublishedIsGood
<1> DEFINE m == IF Raised(answer) THEN NotPublished(s) ELSE ok
<1>11. Good(m, titles, occs, accepted[r])
  BY <1>9, <1>10
<1>12. failures' \in 0 .. MaxFailures /\ scan' = [scan EXCEPT ![r] = m]
  BY <1>2, AnswerCounted, StoreIsTyped
<1>13. snap \in Snapshots
  BY <1>5 DEF Snapshots
<1> HIDE DEF snap
<1>14. snaps' \in [Runs -> Snapshots] /\ pointer' \in Runs \cup {NoRun}
  BY <1>2, <1>4, <1>13, StoreIsTyped DEF Stored
<1> HIDE DEF m
<1> QED
  BY <1>3, <1>4, <1>11, <1>12, <1>14, SnapsMove DEF s

LEMMA StageItemsStep ==
    ASSUME IInv, NEW r \in Runs, StageItems(r)
    PROVE  IInv'
<1> DEFINE s == scan[r]
           built == BuiltItems(s.cands)
           next == s.at + BatchSize
           batch == {n \in DOMAIN built : s.at <= n /\ n < next}
           new == {<<built[n], n>> : n \in batch}
           onward == [s EXCEPT !.at = next]
           last == [s EXCEPT !.pc = "promote"]
           ok == IF next <= Len(built) THEN onward ELSE last
<1>1. s.pc = "items" /\ s.pc \in Ending
  BY DEF StageItems, Ending
<1>2. PICK answer \in Answers :
        /\ snaps' = IF Landed(answer) THEN [snaps EXCEPT ![r].items = @ \cup new] ELSE snaps
        /\ Continue(r, answer, ok, NotPublished(s))
  BY DEF StageItems
<1>3. /\ s.pc \notin Over /\ s \in RunMemory /\ Good(s, titles, occs, accepted[r])
      /\ s.cands \in [Titles -> Positions] /\ Ranked(s.cands, s.feed)
  BY <1>1, EndingRun
<1>4. UNCHANGED <<catalog, diagnostics, mappings, runDoc, pointer, crashes, edits, observed>>
  BY DEF StageItems
<1> HIDE DEF s
<1> DEFINE N == Cardinality(Found(s.cands))
<1>5. N \in Nat /\ built \in [1 .. N -> Found(s.cands)] /\ Len(built) = N
  BY <1>3, BuiltIsSorted
<1>6. s.at \in 1 .. N
  BY <1>1, <1>3 DEF Good, Placed
<1>7. next \in Nat /\ next >= 1
  BY <1>5, <1>6, StoreAssumption
<1>8. new \subseteq Titles \X Nat
  <2>1. ASSUME NEW n \in batch PROVE built[n] \in Titles /\ n \in Nat
    <3>1. n \in DOMAIN built
      OBVIOUS
    <3> HIDE DEF built, batch
    <3>2. n \in 1 .. N /\ built[n] \in Found(s.cands)
      BY <1>5, <3>1
    <3>3. built[n] \in Titles
      BY <3>2 DEF Found
    <3>4. n \in Nat
      BY <3>2
    <3> QED
      BY <3>3, <3>4
  <2> HIDE DEF built, batch
  <2> QED
    BY <2>1
<1>9. Good(last, titles, occs, accepted[r])
  <2>1. Alike(s, last) /\ last.pc = "promote"
    BY <1>3, MovedIsAlike DEF Phases
  <2>2. last.pc \in Ending /\ last.pc # "items"
    BY <2>1 DEF Ending
  <2> HIDE DEF last
  <2> QED
    BY <1>1, <1>3, <2>1, <2>2, EndingIsGood
<1> HIDE DEF next
<1>10. next <= Len(built) => Good(onward, titles, occs, accepted[r])
  <2>1. Alike(s, onward) /\ onward.pc = s.pc /\ onward.at = next
    BY <1>3, <1>7 DEF Alike, RunMemory
  <2> HIDE DEF onward
  <2>2. next <= Len(built) => onward.at \in 1 .. N
    BY <1>5, <1>7, <2>1
  <2> QED
    BY <1>1, <1>3, <2>1, <2>2, EndingIsGood
<1>11. Good(NotPublished(s), titles, occs, accepted[r])
  BY <1>1, <1>3, NotPublishedIsGood
<1>12. Good(ok, titles, occs, accepted[r])
  BY <1>9, <1>10
<1> HIDE DEF ok
<1> DEFINE m == IF Raised(answer) THEN NotPublished(s) ELSE ok
<1>13. Good(m, titles, occs, accepted[r])
  BY <1>11, <1>12
<1>14. failures' \in 0 .. MaxFailures /\ scan' = [scan EXCEPT ![r] = m]
  BY <1>2, AnswerCounted, StoreIsTyped
<1> HIDE DEF new
<1>15. snaps' \in [Runs -> Snapshots]
  <2>1. snaps \in [Runs -> Snapshots]
    BY StoreIsTyped DEF Stored
  <2> DEFINE snap == [snaps[r] EXCEPT !.items = @ \cup new]
  <2>2. snap \in Snapshots
    BY <1>8, <2>1 DEF Snapshots
  <2>3. snaps' = [snaps EXCEPT ![r] = snap] \/ snaps' = snaps
    BY <1>2, <2>1
  <2> HIDE DEF snap
  <2> QED
    BY <2>1, <2>2, <2>3
<1>16. pointer' \in Runs \cup {NoRun}
  BY <1>4, StoreIsTyped DEF Stored
<1> HIDE DEF m
<1> QED
  BY <1>3, <1>4, <1>13, <1>14, <1>15, <1>16, SnapsMove DEF s

LEMMA PromoteStep ==
    ASSUME IInv, NEW r \in Runs, Promote(r)
    PROVE  IInv'
<1> DEFINE s == scan[r]
           ok == [s EXCEPT !.pc = "close"]
<1>1. s.pc = "promote" /\ s.pc \in Ending
  BY DEF Promote, Ending
<1>2. PICK answer \in Answers :
        /\ IF Landed(answer)
           THEN snaps' = [snaps EXCEPT ![r].status = "ready"] /\ pointer' = r
           ELSE UNCHANGED latest
        /\ Continue(r, answer, ok, NotPublished(s))
  BY DEF Promote
<1>3. s.pc \notin Over /\ s \in RunMemory /\ Good(s, titles, occs, accepted[r])
  BY <1>1, EndingRun
<1>4. UNCHANGED <<catalog, diagnostics, mappings, runDoc, crashes, edits, observed>>
  BY DEF Promote
<1> HIDE DEF s
<1>5. Good(ok, titles, occs, accepted[r])
  <2>1. Alike(s, ok) /\ ok.pc = "close"
    BY <1>3, MovedIsAlike DEF Phases
  <2>2. ok.pc \in Ending /\ ok.pc # "items"
    BY <2>1 DEF Ending
  <2> HIDE DEF ok
  <2> QED
    BY <1>1, <1>3, <2>1, <2>2, EndingIsGood
<1>6. Good(NotPublished(s), titles, occs, accepted[r])
  BY <1>1, <1>3, NotPublishedIsGood
<1> HIDE DEF ok
<1> DEFINE m == IF Raised(answer) THEN NotPublished(s) ELSE ok
<1>7. Good(m, titles, occs, accepted[r])
  BY <1>5, <1>6
<1>8. failures' \in 0 .. MaxFailures /\ scan' = [scan EXCEPT ![r] = m]
  BY <1>2, AnswerCounted, StoreIsTyped
<1>9. snaps' \in [Runs -> Snapshots] /\ pointer' \in Runs \cup {NoRun}
  <2>1. snaps \in [Runs -> Snapshots] /\ pointer \in Runs \cup {NoRun}
    BY StoreIsTyped DEF Stored
  <2> DEFINE snap == [snaps[r] EXCEPT !.status = "ready"]
  <2>2. snap \in Snapshots
    BY <2>1 DEF Snapshots
  <2>3. \/ snaps' = [snaps EXCEPT ![r] = snap] /\ pointer' = r
        \/ snaps' = snaps /\ pointer' = pointer
    BY <1>2, <2>1 DEF latest
  <2> HIDE DEF snap
  <2> QED
    BY <2>1, <2>2, <2>3
<1> HIDE DEF m
<1> QED
  BY <1>3, <1>4, <1>7, <1>8, <1>9, SnapsMove DEF s

LEMMA FinalFlushStep ==
    ASSUME IInv, NEW r \in Runs, FinalFlush(r)
    PROVE  IInv'
<1> DEFINE s == scan[r]
           f == [s EXCEPT !.final = TRUE]
<1>1. s.pc = "finish" /\ s.pc \notin Over
  BY DEF FinalFlush, Over
<1>2. scan' = [scan EXCEPT ![r] = ToLogs(r, f)]
  BY DEF FinalFlush, IInv
<1>3. s \in RunMemory /\ Sound(s, titles, occs) /\ Kept(s, occs, accepted[r])
  BY <1>1, GoingOn
<1>4. UNCHANGED <<catalog, diagnostics, mappings, runDoc, latest, failures, crashes, edits, observed>>
  BY DEF FinalFlush
<1> HIDE DEF s
<1>5. Alike(s, f)
  BY <1>3 DEF Alike, RunMemory
<1> HIDE DEF f
<1>6. Sound(f, titles, occs) /\ Kept(f, occs, accepted[r])
  BY <1>3, <1>5, AlikeIsSound
<1>7. Good(ToLogs(r, f), titles, occs, accepted[r])
  BY <1>6, ToLogsIsGood
<1> QED
  BY <1>1, <1>2, <1>4, <1>7, MemoryMoves, StoreIsTyped DEF s, observed

LEMMA CloseRunStep ==
    ASSUME IInv, NEW r \in Runs, CloseRun(r)
    PROVE  IInv'
<1>1. scan[r].pc = "close" /\ scan[r].pc \in Ending
  BY DEF CloseRun, Ending
<1>2. PICK answer \in Answers :
        /\ runDoc' = IF Landed(answer) THEN [runDoc EXCEPT ![r] = scan[r].status] ELSE runDoc
        /\ Continue(r, answer, Blank("done"), Blank("dead"))
  BY DEF CloseRun
<1>3. /\ scan[r].pc \notin Over /\ Good(scan[r], titles, occs, accepted[r])
      /\ scan[r] \in RunMemory
  BY <1>1, EndingRun
<1>4. UNCHANGED <<titles, occs, logs, aged, mappings, snaps, pointer, crashes, edits, accepted, troubled>>
  BY DEF CloseRun, catalog, diagnostics, latest, observed
<1>5. Range(accepted[r]) \subseteq occs
  <2>1. scan[r].newOccs = <<>> /\ Kept(scan[r], occs, accepted[r])
    BY <1>1, <1>3 DEF Good, Emptied
  <2> QED
    BY <2>1, RangeOfEmpty DEF Kept
<1> DEFINE m == IF Raised(answer) THEN Blank("dead") ELSE Blank("done")
<1>6. Good(m, titles, occs, accepted[r]) /\ m.pc \in Over
  <2>1. "dead" \in Over /\ "done" \in Over /\ Blank("dead").pc = "dead" /\ Blank("done").pc = "done"
    BY DEF Over, Blank
  <2> QED
    BY <2>1, BlankIsGood
<1>7. failures' \in 0 .. MaxFailures /\ scan' = [scan EXCEPT ![r] = m]
  BY <1>2, AnswerCounted, StoreIsTyped
<1> HIDE DEF m
<1>8. scan[r].status \in Closed
  BY <1>3 DEF RunMemory, Closed
<1>9. /\ runDoc' \in [Runs -> {"absent", "running"} \cup Closed]
      /\ \A q \in Runs \ {r} : runDoc'[q] = runDoc[q]
  BY <1>2, <1>8, StoreIsTyped DEF Stored
<1>10. Stored' /\ FiledUnderStoredTitles' /\ ResolvedFiled'
  BY <1>4, <1>7, <1>9, StoreIsTyped DEF Stored, FiledUnderStoredTitles, ResolvedFiled
<1> QED
  BY <1>4, <1>5, <1>6, <1>7, <1>9, <1>10, OneRunMoves

-----------------------------------------------------------------------------
(* Around the runs *)

LEMMA AWeekPassesStep ==
    ASSUME IInv, AWeekPasses
    PROVE  IInv'
<1>1. UNCHANGED <<titles, occs, logs, mappings, runDoc, snaps, pointer, scan, failures,
                  crashes, edits, accepted, troubled>>
  BY DEF AWeekPasses, catalog, latest, observed
<1>2. aged' = {i \in Items : logs[i] # NoLog}
  BY DEF AWeekPasses
<1> QED
  BY <1>1, <1>2 DEF IInv, Stored, ClosedWell, ResolvedFiled, FiledUnderStoredTitles

LEMMA SaveManualMappingStep ==
    ASSUME IInv, NEW i \in Items, NEW t \in Titles, SaveManualMapping(i, t)
    PROVE  IInv'
<1>1. UNCHANGED <<titles, occs, logs, aged, runDoc, snaps, pointer, scan, failures,
                  crashes, accepted, troubled>>
  BY DEF SaveManualMapping, catalog, diagnostics, latest, observed
<1>2. mappings' \in [Items -> Titles \cup {NoTitle}] /\ edits' \in 0 .. MaxEdits
  BY StoreAssumption DEF SaveManualMapping, IInv, Stored
<1> QED
  BY <1>1, <1>2 DEF IInv, Stored, ClosedWell, ResolvedFiled, FiledUnderStoredTitles

LEMMA InitIInv == Init => IInv
<1> SUFFICES ASSUME Init PROVE IInv
  OBVIOUS
<1>1. NoLog \in Logs /\ NoLog.outcome = "none"
  BY DEF NoLog, Unresolved, Logs
<1>2. NoSnapshot \in Snapshots
  BY DEF NoSnapshot, Snapshots
<1>3. Stored
  BY <1>1, <1>2, StoreAssumption DEF Init, Stored
<1> DEFINE b == Blank("idle")
<1>4. Sound(b, titles, occs) /\ b.newOccs = <<>> /\ b.pc = "idle"
  BY BlankIsSound DEF Phases
<1> HIDE DEF b
<1>5. Placed(b) /\ Emptied(b) /\ Written(b, titles, occs)
  BY <1>4 DEF Placed, Emptied, Written, Ending, Saving
<1>6. \A r \in Runs : scan[r] = b /\ accepted[r] = <<>>
  BY DEF Init, b
<1>7. Kept(b, occs, <<>>)
  BY RangeOfEmpty DEF Kept
<1>8. \A r \in Runs : Good(scan[r], titles, occs, accepted[r])
  BY <1>4, <1>5, <1>6, <1>7 DEF Good
<1>9. scan \in [Runs -> RunMemory]
  BY <1>4 DEF Init, Sound, b
<1>10. FiledUnderStoredTitles /\ ClosedWell /\ ResolvedFiled
  BY <1>1 DEF Init, FiledUnderStoredTitles, ClosedWell, ResolvedFiled, Closed
<1> QED
  BY <1>3, <1>8, <1>9, <1>10 DEF IInv

LEMMA RunStepKeepsIInv ==
    ASSUME IInv, NEW r \in Runs, RunStep(r)
    PROVE  IInv'
<1>1. CASE OpenRun(r) \/ QueryOldLogs(r) \/ PruneLog(r) \/ PruneRaises(r)
  BY <1>1, OpenRunStep, QueryOldLogsStep, PruneLogStep, PruneRaisesStep
<1>2. CASE RssStep(r)
  <2>1. CASE FetchFeed(r) \/ EntryTooOld(r) \/ EntryOverQuota(r)
    BY <2>1, FetchFeedStep, EntryTooOldStep, EntryOverQuotaStep
  <2>2. CASE \E state \in {"retryable", "terminal"}, erred \in BOOLEAN : EntryLogged(r, state, erred)
    BY <2>2, EntryLoggedStep
  <2>3. CASE \E t \in Titles : EntryAccepted(r, t)
    BY <2>3, EntryAcceptedStep
  <2>4. CASE \E t \in Titles, readTitle \in BOOLEAN : EntryUnread(r, t, readTitle)
    BY <2>4, EntryUnreadStep
  <2> QED
    BY <1>2, <2>1, <2>2, <2>3, <2>4 DEF RssStep
<1>3. CASE ReparseStep(r)
  <2>1. CASE ReloadMappings(r) \/ ReadPage(r) \/ AcceptCandidate(r)
    BY <2>1, ReloadMappingsStep, ReadPageStep, AcceptCandidateStep
  <2>2. CASE (\E erred \in BOOLEAN : RecordOutcome(r, RetryLog, erred))
             \/ RecordOutcome(r, TerminalLog, FALSE)
    BY <2>2, RecordOutcomeStep
  <2>3. CASE SaveTitle(r) \/ SaveOccurrence(r) \/ SaveLog(r)
    BY <2>3, SaveTitleStep, SaveOccurrenceStep, SaveLogStep
  <2>4. CASE SaveMapping(r) \/ SaveRetry(r)
    BY <2>4, SaveMappingStep, SaveRetryStep
  <2> QED
    BY <1>3, <2>1, <2>2, <2>3, <2>4 DEF ReparseStep
<1>4. CASE Flushing(r)
  BY <1>4, FlushLogStep, FlushTitleStep, FlushOccurrenceStep, FlushMappingStep DEF Flushing
<1>5. CASE FinalFlush(r) \/ PublishStep(r) \/ CloseRun(r)
  BY <1>5, FinalFlushStep, StageSnapshotStep, StageItemsStep, PromoteStep, CloseRunStep
     DEF PublishStep
<1> QED
  BY <1>1, <1>2, <1>3, <1>4, <1>5 DEF RunStep

LEMMA StepIInv == IInv /\ [Next]_vars => IInv'
<1> SUFFICES ASSUME IInv, [Next]_vars PROVE IInv'
  OBVIOUS
<1>1. ASSUME NEW r \in Runs, LoadMappings(r) \/ RunStep(r) \/ Crash(r)
      PROVE  IInv'
  BY <1>1, LoadMappingsStep, RunStepKeepsIInv, CrashStep
<1>2. CASE AWeekPasses
  BY <1>2, AWeekPassesStep
<1>3. CASE \E i \in Items, t \in Titles : SaveManualMapping(i, t)
  BY <1>3, SaveManualMappingStep
<1>4. CASE UNCHANGED vars
  BY <1>4 DEF vars, IInv, Stored, ClosedWell, ResolvedFiled, FiledUnderStoredTitles
<1> QED
  BY <1>1, <1>2, <1>3, <1>4 DEF Next

LEMMA SpecIInv == Spec => []IInv
  BY InitIInv, StepIInv, PTL DEF Spec

-----------------------------------------------------------------------------
(* The store holds documents, the memory of every run a run's memory, and   *)
(* the counters stay under their bounds, whatever runs interleave.          *)
THEOREM ScannerTypes == Spec => []TypeOK
<1>1. IInv => TypeOK
  BY DEF IInv, Stored, TypeOK
<1> QED
  BY <1>1, SpecIInv, PTL

(* No occurrence is ever stored under a title that is not: not between any  *)
(* two writes of flush_pending_db_upserts or ReparsePersistence.persist,    *)
(* not after any call that raised or any run that died, and not with other  *)
(* runs going on.                                                           *)
THEOREM OccurrencesFollowTitles == Spec => []FiledUnderStoredTitles
<1>1. IInv => FiledUnderStoredTitles
  BY DEF IInv
<1> QED
  BY <1>1, SpecIInv, PTL

(* Whatever flushes failed on the way, when a scan run's document says that *)
(* it is over, every title and occurrence its RSS phase accepted is stored. *)
THEOREM ClosedRunsStoredAll == Spec => []ClosedRunsAreDurable
<1>1. IInv => ClosedRunsAreDurable
  <2> SUFFICES ASSUME IInv, NEW r \in Runs, runDoc[r] \in Closed, NEW n \in DOMAIN accepted[r]
               PROVE  InCatalog(accepted[r][n][1], accepted[r][n][2])
    BY DEF ClosedRunsAreDurable
  <2> DEFINE x == accepted[r][n]
  <2>1. x \in Titles \X Items
    BY DEF IInv, Stored
  <2>2. x \in occs
    BY DEF IInv, ClosedWell, Range
  <2> HIDE DEF x
  <2>3. x = <<x[1], x[2]>> /\ x[1] \in titles
    BY <2>1, <2>2 DEF IInv, FiledUnderStoredTitles
  <2>4. InCatalog(x[1], x[2])
    BY <2>2, <2>3 DEF InCatalog
  <2> QED
    BY <2>4 DEF x
<1> QED
  BY <1>1, SpecIInv, PTL

(* A parse log that is resolved to a title is about an entry that is filed  *)
(* under that title, which exists: merging keeps resolutions only of        *)
(* entries that were filed before.                                          *)
THEOREM ResolvedLogsAreFiled == Spec => []ResolutionsAreDurable
<1>1. IInv => ResolutionsAreDurable
  BY DEF IInv, ResolvedFiled, FiledUnderStoredTitles, ResolutionsAreDurable, InCatalog
<1> QED
  BY <1>1, SpecIInv, PTL

=============================================================================
