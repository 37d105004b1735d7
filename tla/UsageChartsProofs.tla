--------------------------- MODULE UsageChartsProofs ---------------------------
(* Proofs about UsageCharts, for any pages, devices, threads and requests, and *)
(* windows and seconds of any length: the values of a chart are drawn over     *)
(* their times, a rate covers one second, and a disturbed history heals.       *)
EXTENDS UsageCharts, SequenceTheorems, TLAPS

Sample == [n : Nat, span : Int]
Window == Seq(Sample)
Cookies == [Series -> Window]
Windows == UNION {[S -> Window] : S \in SUBSET Series}

Sent == [at : {"sent"}, chart : Charts, cookies : Cookies, alone : BOOLEAN]
Taken == [at : {"sampling"}, chart : Charts, cookies : Cookies, alone : BOOLEAN,
          n : Nat, age : Nat, counters : {"same", "reset"}]
Done == [at : {"answered"}, chart : Charts, alone : BOOLEAN, n : Nat, windows : Windows]

(* Every loop of a thread waits for a sample of its own.                       *)
LoopsSample == \A w \in Workers : \A i \in 1..Len(loops[w]) : polls[loops[w][i]].at = "sampling"
LoopsApart ==
    \A v, w \in Workers : \A i \in 1..Len(loops[v]), j \in 1..Len(loops[w]) :
        loops[v][i] = loops[w][j] => v = w /\ i = j

TypeInv ==
    /\ running \subseteq Domains
    /\ jar \in [Paths -> Cookies]
    /\ polls \in [Polls -> {Idle} \cup Sent \cup Taken \cup Done]
    /\ loops \in [Workers -> Seq(Polls)]
    /\ label \in Nat
    /\ overrun \subseteq Nat
    /\ streak \in [Paths -> Seq([chart : Charts, n : Nat])]
    /\ LoopsSample /\ LoopsApart

(* The same requests in two windows.                                           *)
SameRequests(a, b) == Len(a) = Len(b) /\ \A i \in 1..Len(a) : a[i].n = b[i].n
AlwaysOf(path) == IF path = "hostusage" THEN {"timer", "cpu", "mem"} ELSE {"timer", "cpu"}
Timed(windows, path) ==
    /\ AlwaysOf(path) \subseteq DOMAIN windows
    /\ \A s \in AlwaysOf(path) : SameRequests(windows[s], windows["timer"])
TimesInv ==
    /\ \A path \in Paths : Timed(jar[path], path)
    /\ \A p \in Polls :
         /\ polls[p].at \in {"sent", "sampling"} => Timed(polls[p].cookies, Path(polls[p].chart))
         /\ polls[p].at = "answered" => Timed(polls[p].windows, Path(polls[p].chart))

(* Rates of one second, unless they were overrun.                              *)
Rated(windows) ==
    \A s \in DeviceSeries \cap DOMAIN windows : \A i \in 1..Len(windows[s]) :
        windows[s][i].n \notin overrun => windows[s][i].span = Second
InTime(p) ==
    polls[p].at = "sampling" /\ polls[p].n \notin overrun =>
        /\ polls[p].counters = "same" /\ polls[p].age <= Second
        /\ \E w \in Workers : loops[w] # <<>> /\ Head(loops[w]) = p
RatesInv ==
    /\ \A path \in Paths : Rated(jar[path])
    /\ \A p \in Polls :
         /\ polls[p].at \in {"sent", "sampling"} => Rated(polls[p].cookies)
         /\ polls[p].at = "answered" => Rated(polls[p].windows)
         /\ InTime(p)

(* A request that is alone carries what the jar holds, and no other does.      *)
Alone(p) == polls[p].at # "idle" /\ polls[p].alone
LastRequests(window, numbers) ==
    /\ Len(window) >= Len(numbers)
    /\ \A i \in 1..Len(numbers) : window[Len(window) - Len(numbers) + i].n = numbers[i].n
Healed(path) ==
    /\ Len(streak[path]) <= Points
    /\ \A i \in 1..Len(streak[path]) :
         streak[path][i].chart = streak[path][1].chart /\ Path(streak[path][i].chart) = path
    /\ streak[path] # <<>> =>
         \A s \in SeriesOf(streak[path][1].chart) : LastRequests(jar[path][s], streak[path])
UpToDate(p) ==
    Alone(p) =>
        LET windows == jar[Path(polls[p].chart)]
        IN  /\ \A q \in Polls : q # p => ~Under(q, polls[p].chart)
            /\ polls[p].at \in {"sent", "sampling"} => polls[p].cookies = windows
            /\ polls[p].at = "answered" =>
                 \A s \in DOMAIN polls[p].windows : \E x \in Sample :
                     polls[p].windows[s] = Moved(windows[s], x) /\ x.n = polls[p].n
HealInv == (\A path \in Paths : Healed(path)) /\ (\A p \in Polls : UpToDate(p))

-------------------------------------------------------------------------------
(* Windows.                                                                    *)

(* A window that moves on ends in the new sample, and before that holds the    *)
(* latest samples it held.                                                     *)
MovedLen(w) == IF Len(w) < Points THEN Len(w) + 1 ELSE Points

LEMMA MovedWindow ==
    ASSUME NEW S, NEW w \in Seq(S), NEW x \in S
    PROVE  /\ Moved(w, x) \in Seq(S)
           /\ Len(w) \in Nat /\ MovedLen(w) \in 1..(Len(w) + 1) /\ MovedLen(w) <= Points
           /\ Len(Moved(w, x)) = MovedLen(w)
           /\ Moved(w, x)[MovedLen(w)] = x
           /\ \A i \in 1..(MovedLen(w) - 1) :
                /\ i + Len(w) + 1 - MovedLen(w) \in 1..Len(w)
                /\ Moved(w, x)[i] = w[i + Len(w) + 1 - MovedLen(w)]
<1> DEFINE all == Append(w, x)
<1>1. /\ all \in Seq(S)
      /\ Len(all) = Len(w) + 1
      /\ \A i \in 1..Len(w) : all[i] = w[i]
      /\ all[Len(w) + 1] = x
      /\ Len(w) \in Nat
  BY AppendProperties
<1> HIDE DEF all
<1>2. CASE Len(w) < Points
  <2>1. Moved(w, x) = all
    BY <1>1, <1>2, PointsAssumption DEF Moved, all
  <2>2. MovedLen(w) = Len(w) + 1 /\ Len(w) + 1 <= Points
    BY <1>1, <1>2, PointsAssumption DEF MovedLen
  <2>3. \A i \in 1..Len(w) : i + Len(w) + 1 - (Len(w) + 1) = i
    BY <1>1
  <2> QED
    BY <1>1, <2>1, <2>2, <2>3
<1>3. CASE ~(Len(w) < Points)
  <2> DEFINE m == Len(w) + 2 - Points
             n == Len(w) + 1
  <2>1. m \in Int /\ n \in Int /\ m <= n /\ m \in 1..n /\ n - m + 1 = Points
    BY <1>1, <1>3, PointsAssumption
  <2>2. \A i \in m..n : all[i] \in S
    BY <1>1, <2>1, ElementOfSeq
  <2>3. Moved(w, x) = SubSeq(all, m, n)
    BY <1>1, <1>3, PointsAssumption DEF Moved, all
  <2>4. /\ SubSeq(all, m, n) \in Seq(S)
        /\ Len(SubSeq(all, m, n)) = n - m + 1
        /\ \A i \in 1..(n - m + 1) : SubSeq(all, m, n)[i] = all[m + i - 1]
    BY <2>1, <2>2, SubSeqProperties
  <2> DEFINE moved == Moved(w, x)
  <2>5. moved \in Seq(S) /\ Len(moved) = Points
    BY <2>1, <2>3, <2>4
  <2>6. \A i \in 1..Points : moved[i] = all[Len(w) + 1 - Points + i]
    BY <1>1, <2>1, <2>3, <2>4, PointsAssumption
  <2> HIDE DEF moved
  <2>7. moved[Points] = x
    BY <1>1, <2>6, PointsAssumption
  <2>8. ASSUME NEW i \in 1..(Points - 1)
        PROVE  /\ i + Len(w) + 1 - Points \in 1..Len(w)
               /\ moved[i] = w[i + Len(w) + 1 - Points]
    <3>1. i + Len(w) + 1 - Points \in 1..Len(w)
      BY <1>1, <1>3, PointsAssumption
    <3>2. i \in 1..Points /\ Len(w) + 1 - Points + i = i + Len(w) + 1 - Points
      BY <1>1, PointsAssumption
    <3> QED
      BY <1>1, <2>6, <3>1, <3>2
  <2> QED
    BY <1>1, <1>3, <2>5, <2>7, <2>8, PointsAssumption DEF moved, MovedLen
<1> QED
  BY <1>1, <1>2, <1>3, PointsAssumption

(* What the pages' series are.                                                 *)
LEMMA SeriesKnown ==
    ASSUME NEW x \in Charts
    PROVE  /\ Path(x) \in Paths
           /\ Always(x) \subseteq SeriesOf(x) /\ SeriesOf(x) \subseteq Series
           /\ "timer" \in Always(x)
           /\ AlwaysOf(Path(x)) = Always(x)
  BY DEF Charts, Path, Paths, Always, SeriesOf, Series, DeviceSeries, AlwaysOf

NewSample(s, n, span) == [n |-> n, span |-> Covered(s, span)]

LEMMA AnswerType ==
    ASSUME NEW cookies \in Cookies, NEW n \in Nat, NEW series \in SUBSET Series,
           NEW span \in Int
    PROVE  /\ Answer(cookies, n, series, span) \in Windows
           /\ DOMAIN Answer(cookies, n, series, span) = series
           /\ \A s \in series :
                /\ cookies[s] \in Window
                /\ NewSample(s, n, span) \in Sample /\ NewSample(s, n, span).n = n
                /\ Answer(cookies, n, series, span)[s] = Moved(cookies[s], NewSample(s, n, span))
<1>1. \A s \in series : /\ cookies[s] \in Window
                        /\ NewSample(s, n, span) \in Sample /\ NewSample(s, n, span).n = n
  BY DEF Cookies, Covered, Sample, NewSample
<1>2. \A s \in series : Moved(cookies[s], NewSample(s, n, span)) \in Window
  BY <1>1, MovedWindow DEF Window
<1>3. Answer(cookies, n, series, span) = [s \in series |-> Moved(cookies[s], NewSample(s, n, span))]
  BY DEF Answer, NewSample
<1>4. Answer(cookies, n, series, span) \in [series -> Window]
  BY <1>2, <1>3
<1> QED
  BY <1>1, <1>3, <1>4 DEF Windows

-------------------------------------------------------------------------------
(* Types.                                                                      *)

LEMMA InitTypes == Init => TypeInv
<1> SUFFICES ASSUME Init PROVE TypeInv
  OBVIOUS
<1>1. <<>> \in Window
  BY EmptySeq DEF Window
<1>2. jar \in [Paths -> Cookies]
  BY <1>1 DEF Init, Cookies
<1>3. loops \in [Workers -> Seq(Polls)] /\ \A w \in Workers : loops[w] = <<>>
  BY DEF Init
<1> QED
  BY <1>2, <1>3 DEF Init, TypeInv, LoopsSample, LoopsApart

(* What a request's state says about its fields.                               *)
LEMMA States ==
    ASSUME TypeInv, NEW p \in Polls
    PROVE  /\ polls[p].at \in {"idle", "sent", "sampling", "answered"}
           /\ polls[p].at = "idle" => polls[p] = Idle
           /\ polls[p].at = "sent" => polls[p] \in Sent
           /\ polls[p].at = "sampling" => polls[p] \in Taken
           /\ polls[p].at = "answered" => polls[p] \in Done
           /\ polls[p].at # "idle" => polls[p].chart \in Charts /\ polls[p].alone \in BOOLEAN
           /\ polls[p].at \in {"sent", "sampling"} => polls[p].cookies \in Cookies
           /\ polls[p].at = "sampling" => /\ polls[p].n \in Nat /\ polls[p].age \in Nat
                                         /\ polls[p].counters \in {"same", "reset"}
           /\ polls[p].at = "answered" => polls[p].windows \in Windows /\ polls[p].n \in Nat
  BY DEF TypeInv, Sent, Taken, Done, Idle

(* An answer's fields.                                                         *)
LEMMA AnsweredFields ==
    ASSUME TypeInv, NEW p \in Polls, polls[p].at \in {"sent", "sampling"},
           NEW n \in Nat, NEW series \in SUBSET Series, NEW span \in Int
    PROVE  /\ Answered(p, n, series, span) \in Done
           /\ Answered(p, n, series, span).at = "answered"
           /\ Answered(p, n, series, span).chart = polls[p].chart
           /\ Answered(p, n, series, span).alone = polls[p].alone
           /\ Answered(p, n, series, span).n = n
           /\ Answered(p, n, series, span).windows = Answer(polls[p].cookies, n, series, span)
<1>1. Answer(polls[p].cookies, n, series, span) \in Windows
  BY States, AnswerType
<1> QED
  BY <1>1, States DEF Answered, Done

(* The loops: those of a request that is being sampled stay, the innermost one *)
(* of a thread may leave, and a new one is that of a request just taken up.    *)
LEMMA LoopsKept ==
    ASSUME TypeInv, UNCHANGED loops,
           \A p \in Polls : polls[p].at = "sampling" => polls'[p].at = "sampling"
    PROVE  LoopsSample' /\ LoopsApart' /\ loops' \in [Workers -> Seq(Polls)]
<1>1. \A w \in Workers : \A i \in 1..Len(loops[w]) : loops[w][i] \in Polls
  BY ElementOfSeq DEF TypeInv
<1> QED
  BY <1>1 DEF TypeInv, LoopsSample, LoopsApart

LEMMA LoopEntered ==
    ASSUME TypeInv, NEW p \in Polls, NEW w \in Workers, polls[p].at # "sampling",
           loops' = [loops EXCEPT ![w] = <<p>> \o @],
           \A q \in Polls : q = p \/ polls[q].at = "sampling" => polls'[q].at = "sampling"
    PROVE  LoopsSample' /\ LoopsApart' /\ loops' \in [Workers -> Seq(Polls)]
<1>1. \A v \in Workers : loops[v] \in Seq(Polls) /\ Len(loops[v]) \in Nat
                         /\ \A i \in 1..Len(loops[v]) : loops[v][i] \in Polls
  BY ElementOfSeq DEF TypeInv
<1>2. /\ <<p>> \o loops[w] \in Seq(Polls)
      /\ Len(<<p>> \o loops[w]) = Len(loops[w]) + 1
      /\ \A i \in 1..(Len(loops[w]) + 1) :
           (<<p>> \o loops[w])[i] = IF i = 1 THEN p ELSE loops[w][i - 1]
  <2>1. <<p>> \in Seq(Polls) /\ Len(<<p>>) = 1 /\ <<p>>[1] = p
    OBVIOUS
  <2> HIDE DEF TypeInv
  <2>2. /\ <<p>> \o loops[w] \in Seq(Polls)
        /\ Len(<<p>> \o loops[w]) = 1 + Len(loops[w])
        /\ \A i \in 1..(1 + Len(loops[w])) :
             (<<p>> \o loops[w])[i] = IF i <= 1 THEN <<p>>[i] ELSE loops[w][i - 1]
    BY <1>1, <2>1, ConcatProperties
  <2> QED
    BY <1>1, <2>1, <2>2
<1>3. /\ loops' \in [Workers -> Seq(Polls)]
      /\ loops'[w] = <<p>> \o loops[w]
      /\ \A v \in Workers : v # w => loops'[v] = loops[v]
  BY <1>2 DEF TypeInv
<1>4. \A v \in Workers : \A i \in 1..Len(loops'[v]) :
        \/ v = w /\ i = 1 /\ loops'[v][i] = p
        \/ LET j == IF v = w THEN i - 1 ELSE i
           IN  j \in 1..Len(loops[v]) /\ loops'[v][i] = loops[v][j]
  BY <1>1, <1>2, <1>3
<1>5. \A v \in Workers : \A i \in 1..Len(loops[v]) : loops[v][i] # p
  BY DEF TypeInv, LoopsSample
<1>6. LoopsSample'
  BY <1>1, <1>4 DEF TypeInv, LoopsSample
<1>7. LoopsApart'
  BY <1>1, <1>2, <1>3, <1>4, <1>5 DEF TypeInv, LoopsApart
<1> QED
  BY <1>3, <1>6, <1>7

LEMMA LoopLeft ==
    ASSUME TypeInv, NEW w \in Workers, loops[w] # <<>>,
           loops' = [loops EXCEPT ![w] = Tail(@)],
           \A q \in Polls : q # Head(loops[w]) /\ polls[q].at = "sampling"
                            => polls'[q].at = "sampling"
    PROVE  /\ Head(loops[w]) \in Polls /\ polls[Head(loops[w])].at = "sampling"
           /\ LoopsSample' /\ LoopsApart' /\ loops' \in [Workers -> Seq(Polls)]
<1>1. \A v \in Workers : loops[v] \in Seq(Polls) /\ Len(loops[v]) \in Nat
                         /\ \A i \in 1..Len(loops[v]) : loops[v][i] \in Polls
  BY ElementOfSeq DEF TypeInv
<1>2. /\ Tail(loops[w]) \in Seq(Polls)
      /\ Len(Tail(loops[w])) = Len(loops[w]) - 1
      /\ \A i \in 1..Len(Tail(loops[w])) : Tail(loops[w])[i] = loops[w][i + 1]
      /\ Head(loops[w]) = loops[w][1] /\ Len(loops[w]) >= 1
  BY <1>1, HeadTailProperties
<1>3. /\ loops' \in [Workers -> Seq(Polls)]
      /\ loops'[w] = Tail(loops[w])
      /\ \A v \in Workers : v # w => loops'[v] = loops[v]
  BY <1>2 DEF TypeInv
<1>4. \A v \in Workers : \A i \in 1..Len(loops'[v]) :
        LET j == IF v = w THEN i + 1 ELSE i
        IN  j \in 1..Len(loops[v]) /\ loops'[v][i] = loops[v][j]
  BY <1>1, <1>2, <1>3
<1>5. Head(loops[w]) \in Polls /\ polls[Head(loops[w])].at = "sampling"
  BY <1>1, <1>2 DEF TypeInv, LoopsSample
<1>6. \A v \in Workers : \A i \in 1..Len(loops'[v]) : loops'[v][i] # Head(loops[w])
  BY <1>1, <1>2, <1>4 DEF TypeInv, LoopsApart
<1> DEFINE At(v, i) == IF v = w THEN i + 1 ELSE i
<1>7. \A v \in Workers : \A i \in 1..Len(loops'[v]) :
        i \in Nat /\ At(v, i) \in 1..Len(loops[v]) /\ loops'[v][i] = loops[v][At(v, i)]
  BY <1>1, <1>2, <1>3, <1>4
<1>8. LoopsSample'
  <2> SUFFICES ASSUME NEW v \in Workers, NEW i \in 1..Len(loops'[v])
               PROVE  polls'[loops'[v][i]].at = "sampling"
    BY DEF LoopsSample
  <2> HIDE DEF At
  <2>1. loops'[v][i] \in Polls /\ polls[loops'[v][i]].at = "sampling"
    BY <1>1, <1>7 DEF TypeInv, LoopsSample
  <2> QED
    BY <1>6, <2>1
<1>9. LoopsApart'
  <2> SUFFICES ASSUME NEW u \in Workers, NEW v \in Workers, NEW i \in 1..Len(loops'[u]),
                      NEW j \in 1..Len(loops'[v]), loops'[u][i] = loops'[v][j]
               PROVE  u = v /\ i = j
    BY DEF LoopsApart
  <2>1. u = v /\ At(u, i) = At(v, j)
    <3> HIDE DEF At
    <3> QED
      BY <1>7 DEF TypeInv, LoopsApart
  <2> QED
    BY <1>7, <2>1
<1> QED
  BY <1>3, <1>5, <1>8, <1>9

-------------------------------------------------------------------------------
(* The steps of one request. Its cookies stay as they are until it answers.    *)
Kept(q) ==
    /\ polls'[q].at = polls[q].at /\ polls'[q].chart = polls[q].chart
    /\ polls'[q].alone => polls[q].alone
    /\ polls[q].at \in {"sent", "sampling"} => polls'[q].cookies = polls[q].cookies
    /\ polls[q].at = "answered" => polls'[q].windows = polls[q].windows
    /\ polls[q].at \in {"sampling", "answered"} => polls'[q].n = polls[q].n
Fresh(q) ==
    /\ polls[q].at = "idle" /\ polls'[q].at = "sent" /\ polls'[q].chart \in Charts
    /\ polls'[q].cookies = jar[Path(polls'[q].chart)]
    /\ \A p \in Polls : p # q /\ Under(p, polls'[q].chart) => ~polls'[q].alone /\ ~polls'[p].alone
Begun(q) ==
    /\ polls[q].at = "sent" /\ polls'[q].at = "sampling"
    /\ polls'[q].chart = polls[q].chart /\ polls'[q].alone = polls[q].alone
    /\ polls'[q].cookies = polls[q].cookies /\ polls'[q].n = label + 1
Replied(q, n, series, span) ==
    /\ polls[q].at \in {"sent", "sampling"} /\ polls'[q].at = "answered"
    /\ polls'[q].chart = polls[q].chart /\ polls'[q].alone = polls[q].alone
    /\ Always(polls[q].chart) \subseteq series /\ series \subseteq SeriesOf(polls[q].chart)
    /\ polls'[q].n = n /\ polls'[q].windows = Answer(polls[q].cookies, n, series, span)
Gone(q) == polls'[q] = Idle

Moves(q) ==
    \/ Kept(q) \/ Fresh(q) \/ Begun(q) \/ Gone(q)
    \/ \E n \in Nat, series \in SUBSET Series, span \in Int : Replied(q, n, series, span)

TypedPolls == polls \in [Polls -> {Idle} \cup Sent \cup Taken \cup Done]

LEMMA StepSend ==
    ASSUME TypeInv, NEW p \in Polls, NEW x \in Charts, Send(p, x)
    PROVE  TypeInv' /\ \A q \in Polls : Moves(q) /\ (q # p => Kept(q))
<1> DEFINE others == {q \in Polls : Under(q, x)}
           new == [at |-> "sent", chart |-> x, cookies |-> jar[Path(x)], alone |-> others = {}]
<1>1. polls' = [q \in Polls |-> IF q = p THEN new
                               ELSE IF q \in others THEN [polls[q] EXCEPT !.alone = FALSE]
                               ELSE polls[q]]
  BY DEF Send
<1>2. new \in Sent
  BY SeriesKnown DEF TypeInv, Sent
<1>3. polls[p].at = "idle" /\ UNCHANGED <<running, jar, loops, label, overrun, streak>>
  BY DEF Send
<1>4. ASSUME NEW q \in Polls, q # p
      PROVE  /\ polls'[q] \in {Idle} \cup Sent \cup Taken \cup Done
             /\ Kept(q)
  <2>1. CASE q \in others
    <3>1. polls'[q] = [polls[q] EXCEPT !.alone = FALSE] /\ polls[q].at # "idle"
      BY <1>1, <1>4, <2>1 DEF Under
    <3> QED
      BY <3>1, States DEF Sent, Taken, Done, Kept
  <2>2. CASE q \notin others
    BY <1>1, <1>4, <2>2 DEF TypeInv, Kept
  <2> QED
    BY <2>1, <2>2
<1>5. polls'[p] = new
  BY <1>1
<1>6. Fresh(p)
  <2>1. /\ polls'[p].at = "sent" /\ polls'[p].chart = x
        /\ polls'[p].cookies = jar[Path(x)] /\ polls'[p].alone = (others = {})
    BY <1>5
  <2>2. ASSUME NEW q \in Polls, q # p, Under(q, x) PROVE ~polls'[p].alone /\ ~polls'[q].alone
    <3>1. q \in others /\ polls'[q] = [polls[q] EXCEPT !.alone = FALSE] /\ polls[q].at # "idle"
      BY <1>1, <2>2 DEF Under
    <3>2. ~polls'[q].alone
      BY <3>1, States DEF Sent, Taken, Done
    <3> QED
      BY <2>1, <3>1, <3>2
  <2> QED
    BY <1>3, <2>1, <2>2 DEF Fresh
<1> HIDE DEF new
<1>7. TypedPolls'
  BY <1>1, <1>2, <1>4, <1>5 DEF TypedPolls
<1>8. LoopsSample' /\ LoopsApart' /\ loops' \in [Workers -> Seq(Polls)]
  <2>1. \A q \in Polls : polls[q].at = "sampling" => polls'[q].at = "sampling"
    BY <1>3, <1>4 DEF Kept
  <2> QED
    BY <1>3, <2>1, LoopsKept
<1>9. TypeInv'
  BY <1>3, <1>7, <1>8 DEF TypeInv, TypedPolls
<1> QED
  BY <1>4, <1>6, <1>9 DEF Moves

LEMMA StepFail ==
    ASSUME TypeInv, NEW p \in Polls, Fail(p)
    PROVE  TypeInv' /\ \A q \in Polls : Moves(q) /\ (q # p => Kept(q))
<1>1. /\ polls[p].at \in {"sent", "answered"}
      /\ polls' = [polls EXCEPT ![p] = Idle]
      /\ UNCHANGED <<running, jar, loops, label, overrun, streak>>
  BY DEF Fail
<1>2. Gone(p) /\ \A q \in Polls : q # p => polls'[q] = polls[q]
  BY <1>1 DEF TypeInv, Gone
<1>3. TypedPolls'
  BY <1>1 DEF TypeInv, TypedPolls
<1>4. LoopsSample' /\ LoopsApart' /\ loops' \in [Workers -> Seq(Polls)]
  <2>1. \A q \in Polls : polls[q].at = "sampling" => polls'[q].at = "sampling"
    BY <1>1, <1>2
  <2> QED
    BY <1>1, <2>1, LoopsKept
<1>5. TypeInv'
  BY <1>1, <1>3, <1>4 DEF TypeInv, TypedPolls
<1> QED
  BY <1>2, <1>5 DEF Moves, Kept

LEMMA StepAnswerAtOnce ==
    ASSUME TypeInv, NEW p \in Polls, AnswerAtOnce(p)
    PROVE  /\ TypeInv' /\ \A q \in Polls : Moves(q) /\ (q # p => Kept(q))
           /\ \E n \in Nat : Replied(p, n, Always(polls[p].chart), 0)
<1>1. /\ polls[p].at = "sent"
      /\ polls' = [polls EXCEPT ![p] = Answered(p, label + 1, Always(polls[p].chart), 0)]
      /\ label' = label + 1
      /\ UNCHANGED <<running, jar, loops, overrun, streak>>
  BY DEF AnswerAtOnce
<1>2. label + 1 \in Nat /\ polls[p].chart \in Charts
  <2>1. label + 1 \in Nat
    BY DEF TypeInv
  <2> QED
    BY <1>1, <2>1, States
<1> DEFINE series == Always(polls[p].chart)
<1>3. series \in SUBSET Series /\ series \subseteq SeriesOf(polls[p].chart)
  BY <1>2, SeriesKnown
<1>4. polls'[p] = Answered(p, label + 1, series, 0) /\ \A q \in Polls : q # p => polls'[q] = polls[q]
  BY <1>1 DEF TypeInv
<1> HIDE DEF series
<1>5. polls'[p] \in Done /\ polls'[p].at = "answered" /\ polls'[p].chart = polls[p].chart
      /\ polls'[p].alone = polls[p].alone /\ polls'[p].n = label + 1
      /\ polls'[p].windows = Answer(polls[p].cookies, label + 1, series, 0)
  BY <1>1, <1>2, <1>3, <1>4, AnsweredFields
<1>6. Replied(p, label + 1, series, 0)
  BY <1>1, <1>3, <1>5 DEF Replied, series
<1>7. TypedPolls'
  BY <1>1, <1>4, <1>5 DEF TypeInv, TypedPolls
<1>8. LoopsSample' /\ LoopsApart' /\ loops' \in [Workers -> Seq(Polls)]
  <2>1. \A q \in Polls : polls[q].at = "sampling" => polls'[q].at = "sampling"
    BY <1>1, <1>4
  <2> QED
    BY <1>1, <2>1, LoopsKept
<1>9. TypeInv'
  BY <1>1, <1>2, <1>7, <1>8 DEF TypeInv, TypedPolls
<1>10. \A q \in Polls : q # p => Kept(q)
  BY <1>4 DEF Kept
<1>11. Moves(p)
  <2>1. 0 \in Int
    OBVIOUS
  <2> QED
    BY <1>2, <1>3, <1>6, <2>1 DEF Moves
<1> QED
  BY <1>2, <1>6, <1>9, <1>10, <1>11 DEF Moves, series

LEMMA StepBeginSample ==
    ASSUME TypeInv, NEW p \in Polls, NEW w \in Workers, BeginSample(p, w)
    PROVE  TypeInv' /\ \A q \in Polls : Moves(q) /\ (q # p => Kept(q))
<1> DEFINE begun == [at |-> "sampling", chart |-> polls[p].chart, cookies |-> polls[p].cookies,
                     alone |-> polls[p].alone, n |-> label + 1, age |-> 0, counters |-> "same"]
<1>1. /\ polls[p].at = "sent"
      /\ polls' = [polls EXCEPT ![p] = begun]
      /\ overrun' = IF loops[w] = <<>> THEN overrun ELSE overrun \cup {polls[Head(loops[w])].n}
      /\ loops' = [loops EXCEPT ![w] = <<p>> \o @]
      /\ label' = label + 1
      /\ UNCHANGED <<running, jar, streak>>
  BY DEF BeginSample, TypeInv
<1>2. polls[p].chart \in Charts /\ polls[p].cookies \in Cookies /\ polls[p].alone \in BOOLEAN
      /\ label + 1 \in Nat
  <2>1. label + 1 \in Nat
    BY DEF TypeInv
  <2> QED
    BY <1>1, <2>1, States
<1>3. begun \in Taken
  BY <1>2 DEF Taken
<1>4. polls'[p] = begun /\ \A q \in Polls : q # p => polls'[q] = polls[q]
  BY <1>1 DEF TypeInv
<1>5. Begun(p)
  BY <1>1, <1>4 DEF Begun
<1>6. polls'[p].at = "sampling"
  BY <1>4
<1> HIDE DEF begun
<1>7. TypedPolls'
  BY <1>1, <1>3 DEF TypeInv, TypedPolls
<1>8. LoopsSample' /\ LoopsApart' /\ loops' \in [Workers -> Seq(Polls)]
  BY <1>1, <1>4, <1>6, LoopEntered
<1>9. overrun' \subseteq Nat
  <2>1. CASE loops[w] # <<>>
    <3>1. loops[w] \in Seq(Polls)
      BY DEF TypeInv
    <3>2. 1 \in 1..Len(loops[w]) /\ Head(loops[w]) = loops[w][1] /\ Head(loops[w]) \in Polls
      BY <2>1, <3>1, HeadTailProperties, EmptySeq
    <3>3. polls[Head(loops[w])].at = "sampling"
      BY <3>2 DEF TypeInv, LoopsSample
    <3> QED
      BY <1>1, <3>2, <3>3, States DEF TypeInv
  <2> QED
    BY <1>1, <2>1 DEF TypeInv
<1>10. TypeInv'
  BY <1>1, <1>2, <1>7, <1>8, <1>9 DEF TypeInv, TypedPolls
<1> QED
  BY <1>4, <1>5, <1>10 DEF Moves, Kept

LEMMA StepEndSample ==
    ASSUME TypeInv, NEW w \in Workers, EndSample(w)
    PROVE  LET p == Head(loops[w]) IN
           /\ TypeInv' /\ \A q \in Polls : Moves(q) /\ (q # p => Kept(q))
           /\ p \in Polls /\ polls[p].at = "sampling" /\ Due(p)
           /\ Replied(p, polls[p].n, SeriesOf(polls[p].chart), Span(p))
<1> DEFINE p == Head(loops[w])
           series == SeriesOf(polls[p].chart)
<1>1. /\ loops[w] # <<>> /\ Due(p)
      /\ polls' = [polls EXCEPT ![p] = Answered(p, @.n, SeriesOf(@.chart), Span(p))]
      /\ loops' = [loops EXCEPT ![w] = Tail(@)]
      /\ UNCHANGED <<running, jar, label, overrun, streak>>
  BY DEF EndSample
<1>2. p \in Polls /\ polls[p].at = "sampling"
  <2>1. loops[w] \in Seq(Polls)
    BY DEF TypeInv
  <2>2. 1 \in 1..Len(loops[w]) /\ p = loops[w][1] /\ p \in Polls
    BY <1>1, <2>1, HeadTailProperties, EmptySeq
  <2> QED
    BY <2>2 DEF TypeInv, LoopsSample
<1> HIDE DEF p
<1>3. polls[p].chart \in Charts /\ polls[p].n \in Nat /\ polls[p].age \in Nat
      /\ polls[p].counters \in {"same", "reset"}
  BY <1>2, States
<1>4. series \in SUBSET Series /\ Always(polls[p].chart) \subseteq series
  BY <1>3, SeriesKnown
<1>5. Span(p) \in Int
  BY <1>3 DEF Span
<1>6. polls'[p] = Answered(p, polls[p].n, series, Span(p))
      /\ \A q \in Polls : q # p => polls'[q] = polls[q]
  BY <1>1, <1>2 DEF TypeInv
<1> HIDE DEF series
<1>7. polls'[p] \in Done /\ polls'[p].at = "answered" /\ polls'[p].chart = polls[p].chart
      /\ polls'[p].alone = polls[p].alone /\ polls'[p].n = polls[p].n
      /\ polls'[p].windows = Answer(polls[p].cookies, polls[p].n, series, Span(p))
  BY <1>2, <1>3, <1>4, <1>5, <1>6, AnsweredFields
<1>8. Replied(p, polls[p].n, series, Span(p))
  BY <1>2, <1>4, <1>7 DEF Replied, series
<1>9. TypedPolls'
  BY <1>1, <1>2, <1>6, <1>7 DEF TypeInv, TypedPolls
<1>10. LoopsSample' /\ LoopsApart' /\ loops' \in [Workers -> Seq(Polls)]
  <2>1. \A q \in Polls : q # p /\ polls[q].at = "sampling" => polls'[q].at = "sampling"
    BY <1>6
  <2> QED
    BY <1>1, <2>1, LoopLeft DEF p
<1>11. TypeInv'
  BY <1>1, <1>9, <1>10 DEF TypeInv, TypedPolls
<1>12. \A q \in Polls : q # p => Kept(q)
  BY <1>6 DEF Kept
<1>13. Moves(p)
  BY <1>3, <1>4, <1>5, <1>8 DEF Moves
<1> QED
  BY <1>1, <1>2, <1>8, <1>11, <1>12, <1>13 DEF Moves, series, p

(* What an answer's windows do to a directory's cookies.                       *)
Landed(old, windows) == [s \in Series |-> IF s \in DOMAIN windows THEN windows[s] ELSE old[s]]

LEMMA StepLand ==
    ASSUME TypeInv, NEW p \in Polls, Land(p)
    PROVE  LET path == Path(polls[p].chart) IN
           /\ TypeInv' /\ Gone(p) /\ \A q \in Polls : Moves(q) /\ (q # p => Kept(q))
           /\ polls[p].at = "answered" /\ path \in Paths
           /\ jar'[path] = Landed(jar[path], polls[p].windows)
           /\ streak'[path] = Continued(streak[path], p)
           /\ \A other \in Paths : other # path => /\ jar'[other] = jar[other]
                                                  /\ streak'[other] = streak[other]
<1> DEFINE path == Path(polls[p].chart)
           landed == Landed(jar[path], polls[p].windows)
<1>1. /\ polls[p].at = "answered"
      /\ jar' = [jar EXCEPT ![path] = landed]
      /\ streak' = [streak EXCEPT ![path] = Continued(@, p)]
      /\ polls' = [polls EXCEPT ![p] = Idle]
      /\ UNCHANGED <<running, loops, label, overrun>>
  <2>1. path \in Paths
    BY DEF Path, Paths
  <2> QED
    BY <2>1 DEF Land, Landed, TypeInv
<1>2. /\ polls[p].windows \in Windows /\ polls[p].chart \in Charts /\ polls[p].n \in Nat
      /\ path \in Paths
  BY <1>1, States, SeriesKnown
<1>3. landed \in Cookies
  <2>1. jar[path] \in Cookies
    BY <1>2 DEF TypeInv
  <2>2. PICK S \in SUBSET Series : polls[p].windows \in [S -> Window]
    BY <1>2 DEF Windows
  <2> QED
    BY <2>1, <2>2 DEF Landed, Cookies
<1>4. Continued(streak[path], p) \in Seq([chart : Charts, n : Nat])
  <2> DEFINE Entry == [chart : Charts, n : Nat]
             new == [chart |-> polls[p].chart, n |-> polls[p].n]
  <2>1. streak[path] \in Seq(Entry) /\ new \in Entry /\ <<>> \in Seq(Entry)
    <3>1. streak[path] \in Seq(Entry)
      BY <1>2 DEF TypeInv
    <3>2. new \in Entry
      BY <1>2
    <3> HIDE DEF Entry, new
    <3> QED
      BY <3>1, <3>2, EmptySeq
  <2>2. \A old \in Seq(Entry) : Append(old, new) \in Seq(Entry)
    BY <2>1, AppendProperties
  <2>3. \A old \in Seq(Entry) : old # <<>> => Tail(old) \in Seq(Entry)
    BY HeadTailProperties
  <2> DEFINE old == streak[path]
             kept == IF Len(old) < Points THEN old ELSE Tail(old)
             from == IF old # <<>> /\ old[1].chart = polls[p].chart THEN kept ELSE <<>>
  <2>4. from \in Seq(Entry)
    BY <2>1, <2>3
  <2>5. Continued(old, p) \in {<<>>, Append(from, new)}
    BY DEF Continued
  <2> HIDE DEF from, new, Entry
  <2> QED
    BY <2>1, <2>2, <2>4, <2>5 DEF Entry
<1> HIDE DEF path, landed
<1>5. /\ jar'[path] = landed /\ streak'[path] = Continued(streak[path], p)
      /\ \A other \in Paths : other # path => jar'[other] = jar[other] /\ streak'[other] = streak[other]
      /\ jar' \in [Paths -> Cookies] /\ streak' \in [Paths -> Seq([chart : Charts, n : Nat])]
  BY <1>1, <1>2, <1>3, <1>4 DEF TypeInv
<1>6. Gone(p) /\ \A q \in Polls : q # p => polls'[q] = polls[q]
  BY <1>1 DEF TypeInv, Gone
<1>7. TypedPolls'
  BY <1>1 DEF TypeInv, TypedPolls
<1>8. LoopsSample' /\ LoopsApart' /\ loops' \in [Workers -> Seq(Polls)]
  <2>1. \A q \in Polls : polls[q].at = "sampling" => polls'[q].at = "sampling"
    BY <1>1, <1>6
  <2> QED
    BY <1>1, <2>1, LoopsKept
<1>9. TypeInv'
  BY <1>1, <1>5, <1>7, <1>8 DEF TypeInv, TypedPolls
<1> QED
  BY <1>1, <1>2, <1>5, <1>6, <1>9 DEF Moves, Kept, path, landed

(* Starts and stops of domains, and time, only touch what is being sampled.    *)
LEMMA StepChange ==
    ASSUME TypeInv, NEW d \in Domains, Change(d)
    PROVE  TypeInv' /\ \A q \in Polls : Moves(q) /\ Kept(q)
<1> DEFINE caught == {p \in Polls : polls[p].at = "sampling" /\ polls[p].chart = d}
<1>1. UNCHANGED <<jar, loops, label, streak>>
  BY DEF Change
<1>2. CASE d \in running
  <2>1. /\ running' = running \ {d}
        /\ polls' = [p \in Polls |-> IF p \in caught
                                     THEN [polls[p] EXCEPT !.counters = "reset"] ELSE polls[p]]
        /\ overrun' = overrun \cup {polls[p].n : p \in caught}
    BY <1>2 DEF Change
  <2>2. ASSUME NEW q \in Polls
        PROVE  polls'[q] \in {Idle} \cup Sent \cup Taken \cup Done /\ Kept(q)
    <3>1. CASE q \in caught
      <4>1. polls'[q] = [polls[q] EXCEPT !.counters = "reset"] /\ polls[q].at = "sampling"
        BY <2>1, <3>1
      <4> QED
        BY <4>1, States DEF Taken, Kept
    <3>2. CASE q \notin caught
      BY <2>1, <3>2 DEF TypeInv, Kept
    <3> QED
      BY <3>1, <3>2
  <2>3. TypedPolls'
    BY <2>1, <2>2 DEF TypedPolls
  <2>4. overrun' \subseteq Nat
    <3>1. \A p \in caught : polls[p].n \in Nat
      BY States
    <3> QED
      BY <2>1, <3>1 DEF TypeInv
  <2>5. LoopsSample' /\ LoopsApart' /\ loops' \in [Workers -> Seq(Polls)]
    <3>1. \A q \in Polls : polls[q].at = "sampling" => polls'[q].at = "sampling"
      BY <2>2 DEF Kept
    <3> QED
      BY <1>1, <3>1, LoopsKept
  <2> QED
    BY <1>1, <2>1, <2>2, <2>3, <2>4, <2>5 DEF TypeInv, TypedPolls, Moves
<1>3. CASE d \notin running
  <2>1. running' = running \cup {d} /\ UNCHANGED <<polls, overrun>>
    BY <1>3 DEF Change
  <2>2. LoopsSample' /\ LoopsApart' /\ loops' \in [Workers -> Seq(Polls)]
    BY <1>1, <2>1, LoopsKept
  <2> QED
    BY <1>1, <2>1, <2>2 DEF TypeInv, Moves, Kept
<1> QED
  BY <1>2, <1>3

LEMMA StepTick ==
    ASSUME TypeInv, Tick
    PROVE  TypeInv' /\ \A q \in Polls : Moves(q) /\ Kept(q)
<1>1. /\ polls' = [p \in Polls |-> IF p \in Sampling
                                  THEN [polls[p] EXCEPT !.age = @ + 1] ELSE polls[p]]
      /\ UNCHANGED <<running, jar, loops, label, overrun, streak>>
  BY DEF Tick
<1>2. ASSUME NEW q \in Polls
      PROVE  polls'[q] \in {Idle} \cup Sent \cup Taken \cup Done /\ Kept(q)
  <2>1. CASE q \in Sampling
    <3>1. polls'[q] = [polls[q] EXCEPT !.age = polls[q].age + 1] /\ polls[q].at = "sampling"
      BY <1>1, <2>1 DEF Sampling
    <3> QED
      BY <3>1, States DEF Taken, Kept
  <2>2. CASE q \notin Sampling
    BY <1>1, <2>2 DEF TypeInv, Kept
  <2> QED
    BY <2>1, <2>2
<1>3. TypedPolls'
  BY <1>1, <1>2 DEF TypedPolls
<1>4. LoopsSample' /\ LoopsApart' /\ loops' \in [Workers -> Seq(Polls)]
  <2>1. \A q \in Polls : polls[q].at = "sampling" => polls'[q].at = "sampling"
    BY <1>2 DEF Kept
  <2> QED
    BY <1>1, <2>1, LoopsKept
<1> QED
  BY <1>1, <1>2, <1>3, <1>4 DEF TypeInv, TypedPolls, Moves

(* Every step in one: types are kept, every request moves as above, and the    *)
(* cookies change only when an answer lands.                                   *)
OthersKept == \A q, r \in Polls : q # r => Kept(q) \/ Kept(r)

LEMMA Steps ==
    ASSUME TypeInv, [Next]_vars
    PROVE  /\ TypeInv' /\ (\A q \in Polls : Moves(q)) /\ OthersKept
           /\ \/ UNCHANGED <<jar, streak>>
              \/ \E p \in Polls : Land(p)
<1>1. ASSUME NEW p \in Polls, NEW x \in Charts, Send(p, x)
      PROVE  TypeInv' /\ (\A q \in Polls : Moves(q)) /\ OthersKept
             /\ UNCHANGED <<jar, streak>>
  <2>1. UNCHANGED <<jar, streak>>
    BY <1>1 DEF Send
  <2> QED
    BY <1>1, <2>1, StepSend DEF OthersKept
<1>2. ASSUME NEW p \in Polls, Fail(p) \/ AnswerAtOnce(p)
      PROVE  TypeInv' /\ (\A q \in Polls : Moves(q)) /\ OthersKept
             /\ UNCHANGED <<jar, streak>>
  <2>1. UNCHANGED <<jar, streak>>
    BY <1>2 DEF Fail, AnswerAtOnce
  <2> QED
    BY <1>2, <2>1, StepFail, StepAnswerAtOnce DEF OthersKept
<1>3. ASSUME NEW p \in Polls, Land(p)
      PROVE  TypeInv' /\ (\A q \in Polls : Moves(q)) /\ OthersKept
  BY <1>3, StepLand DEF OthersKept
<1>4. ASSUME NEW p \in Polls, NEW w \in Workers, BeginSample(p, w)
      PROVE  TypeInv' /\ (\A q \in Polls : Moves(q)) /\ OthersKept
             /\ UNCHANGED <<jar, streak>>
  <2>1. UNCHANGED <<jar, streak>>
    BY <1>4 DEF BeginSample
  <2> QED
    BY <1>4, <2>1, StepBeginSample DEF OthersKept
<1>5. ASSUME NEW w \in Workers, EndSample(w)
      PROVE  TypeInv' /\ (\A q \in Polls : Moves(q)) /\ OthersKept
             /\ UNCHANGED <<jar, streak>>
  <2>1. UNCHANGED <<jar, streak>>
    BY <1>5 DEF EndSample
  <2> QED
    BY <1>5, <2>1, StepEndSample DEF OthersKept
<1>6. ASSUME NEW d \in Domains, Change(d)
      PROVE  TypeInv' /\ (\A q \in Polls : Moves(q)) /\ OthersKept
             /\ UNCHANGED <<jar, streak>>
  <2>1. UNCHANGED <<jar, streak>>
    BY <1>6 DEF Change
  <2> QED
    BY <1>6, <2>1, StepChange DEF OthersKept
<1>7. ASSUME Tick
      PROVE  TypeInv' /\ (\A q \in Polls : Moves(q)) /\ OthersKept
             /\ UNCHANGED <<jar, streak>>
  <2>1. UNCHANGED <<jar, streak>>
    BY <1>7 DEF Tick
  <2> QED
    BY <1>7, <2>1, StepTick DEF OthersKept
<1>8. CASE UNCHANGED vars
  <2>1. UNCHANGED vars
    BY <1>8
  <2>2. TypeInv'
    <3>1. UNCHANGED <<running, jar, polls, loops, label, overrun, streak>>
      BY <2>1 DEF vars
    <3>2. LoopsSample' /\ LoopsApart'
      BY <3>1, LoopsKept
    <3> QED
      BY <3>1, <3>2 DEF TypeInv
  <2>3. \A q \in Polls : Kept(q)
    BY <2>1 DEF vars, Kept
  <2> QED
    BY <2>1, <2>2, <2>3 DEF vars, Moves, OthersKept
<1> QED
  BY <1>1, <1>2, <1>3, <1>4, <1>5, <1>6, <1>7, <1>8 DEF Next

(* The variables of UsageCharts keep their types, and every loop belongs to a  *)
(* sample of its own.                                                          *)
THEOREM ChartsTypes == Spec => []TypeInv
<1>1. TypeInv /\ [Next]_vars => TypeInv'
  BY Steps
<1> QED
  BY <1>1, InitTypes, PTL DEF Spec

-------------------------------------------------------------------------------
(* Values under their times.                                                   *)

(* Windows that hold the same requests do so after both moved on by one.       *)
LEMMA MovedTogether ==
    ASSUME NEW v \in Window, NEW w \in Window, SameRequests(v, w),
           NEW x \in Sample, NEW y \in Sample, x.n = y.n
    PROVE  SameRequests(Moved(v, x), Moved(w, y))
<1> DEFINE len == MovedLen(v)
           a == Moved(v, x)
           b == Moved(w, y)
<1>1. Len(v) = Len(w) /\ MovedLen(w) = len
  BY DEF SameRequests, MovedLen
<1>2. /\ Len(v) \in Nat /\ len \in Nat /\ len >= 1 /\ Len(a) = len /\ a[len] = x
      /\ \A i \in 1..(len - 1) : i + Len(v) + 1 - len \in 1..Len(v) /\ a[i] = v[i + Len(v) + 1 - len]
  BY MovedWindow DEF Window
<1>3. /\ Len(b) = len /\ b[len] = y
      /\ \A i \in 1..(len - 1) : b[i] = w[i + Len(v) + 1 - len]
  <2>1. /\ Len(b) = MovedLen(w) /\ b[MovedLen(w)] = y
        /\ \A i \in 1..(MovedLen(w) - 1) : b[i] = w[i + Len(w) + 1 - MovedLen(w)]
    BY MovedWindow DEF Window
  <2> QED
    BY <1>1, <2>1
<1> HIDE DEF a, b, len
<1>5. ASSUME NEW i \in 1..len PROVE a[i].n = b[i].n
  <2>1. CASE i = len
    BY <1>2, <1>3, <2>1
  <2>2. CASE i # len
    <3>1. i \in 1..(len - 1)
      BY <1>2, <2>2
    <3>2. i + Len(v) + 1 - len \in 1..Len(v)
      BY <1>2, <3>1
    <3>3. v[i + Len(v) + 1 - len].n = w[i + Len(v) + 1 - len].n
      BY <3>2 DEF SameRequests
    <3> QED
      BY <1>2, <1>3, <3>1, <3>3
  <2> QED
    BY <2>1, <2>2
<1> QED
  BY <1>2, <1>3, <1>5 DEF SameRequests, a, b

LEMMA AnswerTimed ==
    ASSUME NEW x \in Charts, NEW cookies \in Cookies, NEW n \in Nat, NEW span \in Int,
           NEW series \in SUBSET Series, Always(x) \subseteq series, Timed(cookies, Path(x))
    PROVE  Timed(Answer(cookies, n, series, span), Path(x))
<1> DEFINE answer == Answer(cookies, n, series, span)
           new(s) == NewSample(s, n, span)
<1>1. AlwaysOf(Path(x)) \subseteq series /\ "timer" \in series
  BY SeriesKnown
<1>2. DOMAIN answer = series
      /\ \A s \in series : /\ answer[s] = Moved(cookies[s], new(s))
                           /\ cookies[s] \in Window /\ new(s) \in Sample
  BY AnswerType
<1>3. \A s \in series : new(s).n = n
  BY AnswerType
<1> HIDE DEF answer, new
<1>4. ASSUME NEW s \in AlwaysOf(Path(x)) PROVE SameRequests(answer[s], answer["timer"])
  <2>1. s \in series /\ SameRequests(cookies[s], cookies["timer"])
    BY <1>1 DEF Timed
  <2>2. new(s).n = new("timer").n
    BY <1>1, <1>3, <2>1
  <2>3. SameRequests(Moved(cookies[s], new(s)), Moved(cookies["timer"], new("timer")))
    BY <1>1, <1>2, <2>1, <2>2, MovedTogether
  <2> QED
    BY <1>1, <1>2, <2>1, <2>3
<1> QED
  BY <1>1, <1>2, <1>4 DEF Timed, answer

LEMMA InitTimes == Init => TimesInv
  BY DEF Init, TimesInv, Timed, SameRequests, AlwaysOf, Series, Idle

LEMMA StepTimes == TypeInv /\ TimesInv /\ [Next]_vars => TimesInv'
<1> SUFFICES ASSUME TypeInv, TimesInv, [Next]_vars PROVE TimesInv'
  OBVIOUS
<1>1. (\A q \in Polls : Moves(q)) /\ (UNCHANGED <<jar, streak>> \/ \E p \in Polls : Land(p))
  BY Steps
<1>2. ASSUME NEW q \in Polls
      PROVE  /\ polls'[q].at \in {"sent", "sampling"} =>
                    Timed(polls'[q].cookies, Path(polls'[q].chart))
             /\ polls'[q].at = "answered" => Timed(polls'[q].windows, Path(polls'[q].chart))
  <2>1. CASE Kept(q) \/ Begun(q)
    BY <2>1 DEF Kept, Begun, TimesInv
  <2>2. CASE Fresh(q)
    BY <2>2, SeriesKnown DEF Fresh, TimesInv
  <2>3. CASE Gone(q)
    BY <2>3 DEF Gone, Idle
  <2>4. ASSUME NEW n \in Nat, NEW series \in SUBSET Series, NEW span \in Int,
               Replied(q, n, series, span)
        PROVE  polls'[q].at = "answered" /\ Timed(polls'[q].windows, Path(polls'[q].chart))
    <3>1. polls[q].chart \in Charts /\ polls[q].cookies \in Cookies
      BY <2>4, States DEF Replied
    <3>2. Timed(polls[q].cookies, Path(polls[q].chart))
      BY <2>4 DEF Replied, TimesInv
    <3> QED
      BY <2>4, <3>1, <3>2, AnswerTimed DEF Replied
  <2> QED
    BY <1>1, <2>1, <2>2, <2>3, <2>4 DEF Moves
<1>3. ASSUME NEW path \in Paths PROVE Timed(jar'[path], path)
  <2>1. CASE jar'[path] = jar[path]
    BY <2>1 DEF TimesInv
  <2>2. ASSUME NEW p \in Polls, Land(p), path = Path(polls[p].chart)
        PROVE  Timed(jar'[path], path)
    <3>1. /\ polls[p].at = "answered"
          /\ jar'[path] = Landed(jar[path], polls[p].windows)
      BY <2>2, StepLand
    <3>2. Timed(polls[p].windows, path)
      BY <2>2, <3>1 DEF TimesInv
    <3>3. AlwaysOf(path) \subseteq Series /\ "timer" \in AlwaysOf(path)
      BY DEF AlwaysOf, Series
    <3> QED
      BY <3>1, <3>2, <3>3 DEF Timed, Landed
  <2> QED
    BY <1>1, <2>1, <2>2, StepLand
<1> QED
  BY <1>2, <1>3 DEF TimesInv

(* The values of a chart are drawn over the times they were taken at, however  *)
(* requests overlap, are lost or overtake each other.                          *)
THEOREM ValuesMatchTheirTimes == Spec => []ValuesUnderTheirTimes
<1>1. TypeInv /\ TimesInv => ValuesUnderTheirTimes
  <2> SUFFICES ASSUME TypeInv, TimesInv, NEW x \in Charts, NEW s \in Always(x)
               PROVE  Requests(jar[Path(x)][s]) = Requests(jar[Path(x)]["timer"])
    BY DEF ValuesUnderTheirTimes
  <2>1. /\ jar[Path(x)] \in Cookies /\ s \in Series /\ "timer" \in Series
        /\ SameRequests(jar[Path(x)][s], jar[Path(x)]["timer"])
    BY SeriesKnown DEF TypeInv, TimesInv, Timed
  <2>2. jar[Path(x)][s] \in Seq(Sample) /\ jar[Path(x)]["timer"] \in Seq(Sample)
    BY <2>1 DEF Cookies, Window
  <2> QED
    BY <2>1, <2>2 DEF Requests, SameRequests
<1>2. TypeInv /\ TimesInv /\ [Next]_vars => (TypeInv /\ TimesInv)'
  BY Steps, StepTimes
<1>3. Init => TypeInv /\ TimesInv
  BY InitTypes, InitTimes
<1> QED
  BY <1>1, <1>2, <1>3, PTL DEF Spec

-------------------------------------------------------------------------------
(* Rates.                                                                      *)

(* A window that moves on holds what it held, and the new sample.              *)
LEMMA MovedSamples ==
    ASSUME NEW S, NEW w \in Seq(S), NEW x \in S, NEW i \in 1..Len(Moved(w, x))
    PROVE  Moved(w, x)[i] = x \/ \E j \in 1..Len(w) : Moved(w, x)[i] = w[j]
<1> DEFINE len == MovedLen(w)
<1>1. /\ Len(w) \in Nat /\ len \in 1..(Len(w) + 1) /\ Len(Moved(w, x)) = len /\ Moved(w, x)[len] = x
      /\ \A k \in 1..(len - 1) : /\ k + Len(w) + 1 - len \in 1..Len(w)
                                 /\ Moved(w, x)[k] = w[k + Len(w) + 1 - len]
  BY MovedWindow
<1> HIDE DEF len
<1>2. i = len \/ i \in 1..(len - 1)
  BY <1>1
<1> QED
  BY <1>1, <1>2

LEMMA OverrunGrows == TypeInv /\ [Next]_vars => overrun \subseteq overrun'
<1> SUFFICES ASSUME TypeInv, [Next]_vars PROVE overrun \subseteq overrun'
  OBVIOUS
<1>1. ASSUME NEW d \in Domains, Change(d) PROVE overrun \subseteq overrun'
  BY <1>1 DEF Change
<1>2. ASSUME NEW p \in Polls, NEW w \in Workers, BeginSample(p, w) PROVE overrun \subseteq overrun'
  BY <1>2 DEF BeginSample
<1>3. ASSUME NEW p \in Polls, NEW x \in Charts, Send(p, x) PROVE overrun \subseteq overrun'
  BY <1>3 DEF Send
<1>4. ASSUME NEW p \in Polls, Fail(p) \/ AnswerAtOnce(p) \/ Land(p) PROVE overrun \subseteq overrun'
  BY <1>4 DEF Fail, AnswerAtOnce, Land
<1>5. ASSUME NEW w \in Workers, EndSample(w) PROVE overrun \subseteq overrun'
  BY <1>5 DEF EndSample
<1>6. ASSUME Tick \/ UNCHANGED vars PROVE overrun \subseteq overrun'
  BY <1>6 DEF Tick, vars
<1> QED
  BY <1>1, <1>2, <1>3, <1>4, <1>5, <1>6 DEF Next

(* The two ways to answer.                                                     *)
LEMMA AnsweringSteps ==
    ASSUME TypeInv, [Next]_vars, NEW q \in Polls,
           polls[q].at \in {"sent", "sampling"}, polls'[q].at = "answered"
    PROVE  AnswerAtOnce(q) \/ \E w \in Workers : EndSample(w) /\ q = Head(loops[w])
<1>1. ~Kept(q)
  BY DEF Kept
<1>2. ASSUME NEW p \in Polls, NEW x \in Charts, Send(p, x) PROVE FALSE
  <2>1. q = p
    BY <1>1, <1>2, StepSend
  <2> QED
    BY <1>2, <2>1 DEF Send
<1>3. ASSUME NEW p \in Polls, Fail(p) PROVE FALSE
  <2>1. q = p
    BY <1>1, <1>3, StepFail
  <2> QED
    BY <1>3, <2>1 DEF Fail, TypeInv, Idle
<1>4. ASSUME NEW p \in Polls, AnswerAtOnce(p) PROVE q = p
  BY <1>1, <1>4, StepAnswerAtOnce
<1>5. ASSUME NEW p \in Polls, Land(p) PROVE FALSE
  <2>1. q = p
    BY <1>1, <1>5, StepLand
  <2> QED
    BY <1>5, <2>1 DEF Land
<1>6. ASSUME NEW p \in Polls, NEW w \in Workers, BeginSample(p, w) PROVE FALSE
  <2>1. q = p
    BY <1>1, <1>6, StepBeginSample
  <2> QED
    BY <1>6, <2>1 DEF BeginSample, TypeInv
<1>7. ASSUME NEW w \in Workers, EndSample(w) PROVE q = Head(loops[w])
  BY <1>1, <1>7, StepEndSample
<1>8. ASSUME NEW d \in Domains, Change(d) PROVE FALSE
  BY <1>1, <1>8, StepChange
<1>9. ASSUME Tick PROVE FALSE
  BY <1>1, <1>9, StepTick
<1>10. ASSUME UNCHANGED vars PROVE FALSE
  BY <1>10 DEF vars
<1> QED
  BY <1>2, <1>3, <1>4, <1>5, <1>6, <1>7, <1>8, <1>9, <1>10 DEF Next

LEMMA AnswerRated ==
    ASSUME NEW cookies \in Cookies, NEW n \in Nat, NEW span \in Int,
           NEW series \in SUBSET Series, Rated(cookies),
           series \cap DeviceSeries # {} /\ n \notin overrun => span = Second
    PROVE  Rated(Answer(cookies, n, series, span))
<1> DEFINE answer == Answer(cookies, n, series, span)
<1>1. DOMAIN answer = series
  BY AnswerType
<1>2. ASSUME NEW s \in DeviceSeries \cap series, NEW i \in 1..Len(answer[s]),
             answer[s][i].n \notin overrun
      PROVE  answer[s][i].span = Second
  <2> DEFINE new == NewSample(s, n, span)
  <2>1. /\ cookies[s] \in Window /\ new \in Sample
        /\ answer[s] = Moved(cookies[s], new) /\ DOMAIN cookies = Series
    BY AnswerType DEF Cookies
  <2>2. new.n = n /\ new.span = span
    BY DEF NewSample, Covered
  <2> HIDE DEF answer, new
  <2>3. CASE answer[s][i] = new
    BY <1>2, <2>2, <2>3
  <2>4. ASSUME NEW j \in 1..Len(cookies[s]), answer[s][i] = cookies[s][j]
        PROVE  answer[s][i].span = Second
    BY <1>2, <2>1, <2>4 DEF Rated
  <2> QED
    BY <1>2, <2>1, <2>3, <2>4, MovedSamples DEF Window
<1> HIDE DEF answer
<1>3. Rated(answer)
  BY <1>1, <1>2 DEF Rated
<1> QED
  BY <1>3 DEF answer

LEMMA AnswersRated ==
    ASSUME TypeInv, [Next]_vars, NEW q \in Polls, InTime(q), Rated(polls[q].cookies),
           polls[q].at \in {"sent", "sampling"}, polls'[q].at = "answered"
    PROVE  Rated(polls'[q].windows)
<1>1. polls[q].cookies \in Cookies /\ polls[q].chart \in Charts
  BY States
<1>2. ASSUME AnswerAtOnce(q) PROVE Rated(polls'[q].windows)
  <2>1. PICK n \in Nat : Replied(q, n, Always(polls[q].chart), 0)
    BY <1>2, StepAnswerAtOnce
  <2>2. Always(polls[q].chart) \cap DeviceSeries = {}
    BY DevicesAssumption DEF Always, DeviceSeries
  <2>3. Always(polls[q].chart) \in SUBSET Series
    BY <1>1, SeriesKnown
  <2> QED
    BY <1>1, <2>1, <2>2, <2>3, AnswerRated DEF Replied
<1>3. ASSUME NEW w \in Workers, EndSample(w), q = Head(loops[w]) PROVE Rated(polls'[q].windows)
  <2>1. /\ polls[q].at = "sampling" /\ Due(q)
        /\ Replied(q, polls[q].n, SeriesOf(polls[q].chart), Span(q))
    BY <1>3, StepEndSample
  <2>2. polls[q].n \in Nat /\ polls[q].age \in Nat
    BY <2>1, States
  <2>3. polls[q].n \notin overrun => Span(q) = Second
    BY <2>1, <2>2, SecondAssumption DEF InTime, Due, Span
  <2>4. SeriesOf(polls[q].chart) \in SUBSET Series /\ Span(q) \in Int
    BY <1>1, <2>2, SeriesKnown DEF Span
  <2> QED
    BY <1>1, <2>1, <2>2, <2>3, <2>4, AnswerRated DEF Replied
<1> QED
  BY <1>2, <1>3, AnsweringSteps

(* A sample on time stays so: what delays it puts it into overrun.             *)
SameSample(q) ==
    polls'[q].at = "sampling" => /\ polls[q].at = "sampling" /\ polls'[q].n = polls[q].n
                                 /\ polls'[q].age = polls[q].age
                                 /\ polls'[q].counters = polls[q].counters

LEMMA StillInTime ==
    ASSUME NEW q \in Polls, InTime(q), SameSample(q), overrun \subseteq overrun',
           \A w \in Workers : /\ loops[w] # <<>> /\ Head(loops[w]) = q
                             /\ polls'[q].at = "sampling" /\ polls[q].n \notin overrun'
                             => loops'[w] = loops[w]
    PROVE  InTime(q)'
  BY DEF InTime, SameSample

LEMMA StepInTime ==
    ASSUME TypeInv, \A q \in Polls : InTime(q), [Next]_vars
    PROVE  \A q \in Polls : InTime(q)'
<1> USE OverrunGrows
<1> SUFFICES ASSUME NEW q \in Polls PROVE InTime(q)'
  OBVIOUS
<1>1. ASSUME NEW p \in Polls, NEW x \in Charts, Send(p, x) PROVE InTime(q)'
  <2>1. SameSample(q) /\ UNCHANGED loops
    BY <1>1 DEF Send, SameSample
  <2> QED
    BY <2>1, StillInTime
<1>2. ASSUME NEW p \in Polls, Fail(p) \/ AnswerAtOnce(p) \/ Land(p) PROVE InTime(q)'
  <2>1. UNCHANGED loops
    BY <1>2 DEF Fail, AnswerAtOnce, Land
  <2>2. SameSample(q)
    <3>1. q # p => polls'[q] = polls[q]
      BY <1>2 DEF Fail, AnswerAtOnce, Land, TypeInv
    <3>2. polls'[p].at # "sampling"
      BY <1>2 DEF Fail, AnswerAtOnce, Land, Idle, Answered, TypeInv
    <3> QED
      BY <3>1, <3>2 DEF SameSample
  <2> QED
    BY <2>1, <2>2, StillInTime
<1>3. ASSUME NEW p \in Polls, NEW w \in Workers, BeginSample(p, w) PROVE InTime(q)'
  <2>1. /\ polls[p].at = "sent"
        /\ overrun' = IF loops[w] = <<>> THEN overrun ELSE overrun \cup {polls[Head(loops[w])].n}
        /\ loops' = [loops EXCEPT ![w] = <<p>> \o @] /\ loops \in [Workers -> Seq(Polls)]
    BY <1>3 DEF BeginSample, TypeInv
  <2>2. CASE q = p
    <3>1. /\ polls'[p].counters = "same" /\ polls'[p].age = 0
      BY <1>3 DEF BeginSample, TypeInv
    <3>2. loops'[w] = <<p>> \o loops[w] /\ loops[w] \in Seq(Polls) /\ <<p>> \in Seq(Polls)
      BY <2>1
    <3>3. loops'[w] # <<>> /\ Head(loops'[w]) = p
      BY <3>2
    <3> QED
      BY <2>2, <3>1, <3>3, SecondAssumption DEF InTime
  <2>3. CASE q # p
    <3>1. polls'[q] = polls[q]
      BY <1>3, <2>3 DEF BeginSample, TypeInv
    <3>2. \A v \in Workers : v # w => loops'[v] = loops[v]
      BY <2>1
    <3>3. loops[w] # <<>> /\ Head(loops[w]) = q => polls[q].n \in overrun'
      BY <2>1
    <3>4. \A v \in Workers : loops[v] # <<>> /\ Head(loops[v]) = q /\ polls[q].n \notin overrun'
                            => loops'[v] = loops[v]
      BY <3>2, <3>3
    <3>5. SameSample(q)
      BY <3>1 DEF SameSample
    <3> QED
      BY <3>4, <3>5, StillInTime
  <2> QED
    BY <2>2, <2>3
<1>4. ASSUME NEW w \in Workers, EndSample(w) PROVE InTime(q)'
  <2>1. SameSample(q)
    BY <1>4 DEF EndSample, SameSample, Answered, TypeInv
  <2>2. \A v \in Workers : v # w => loops'[v] = loops[v]
    BY <1>4 DEF EndSample, TypeInv
  <2>3. Head(loops[w]) = q => polls'[q].at # "sampling"
    BY <1>4, StepEndSample DEF Replied
  <2>4. \A v \in Workers : Head(loops[v]) = q /\ polls'[q].at = "sampling" => loops'[v] = loops[v]
    BY <2>2, <2>3
  <2> QED
    BY <2>1, <2>4, StillInTime
<1>5. ASSUME NEW d \in Domains, Change(d) PROVE InTime(q)'
  <2>1. UNCHANGED loops
    BY <1>5 DEF Change
  <2>2. CASE d \notin running
    <3>1. SameSample(q)
      BY <1>5, <2>2 DEF Change, SameSample
    <3> QED
      BY <2>1, <3>1, StillInTime
  <2>3. CASE d \in running /\ ~(polls[q].at = "sampling" /\ polls[q].chart = d)
    <3>1. polls'[q] = polls[q]
      BY <1>5, <2>3 DEF Change
    <3> QED
      BY <2>1, <3>1, StillInTime DEF SameSample
  <2>4. CASE d \in running /\ polls[q].at = "sampling" /\ polls[q].chart = d
    <3>1. polls[q].n \in overrun' /\ polls'[q] = [polls[q] EXCEPT !.counters = "reset"]
      BY <1>5, <2>4 DEF Change
    <3>2. polls'[q].n = polls[q].n
      BY <3>1
    <3> QED
      BY <3>1, <3>2 DEF InTime
  <2> QED
    BY <2>2, <2>3, <2>4
<1>6. ASSUME Tick PROVE InTime(q)'
  <2>1. UNCHANGED <<loops, overrun>>
    BY <1>6 DEF Tick
  <2>2. CASE q \notin Sampling
    <3>1. polls'[q] = polls[q]
      BY <1>6, <2>2 DEF Tick
    <3> QED
      BY <2>1, <3>1, StillInTime DEF SameSample
  <2>3. CASE q \in Sampling
    <3>1. polls'[q] = [polls[q] EXCEPT !.age = @ + 1] /\ polls[q].at = "sampling"
      BY <1>6, <2>3 DEF Tick, Sampling
    <3>2. /\ polls'[q].n = polls[q].n /\ polls'[q].counters = polls[q].counters
          /\ polls'[q].age = polls[q].age + 1 /\ polls[q].age \in Nat
      BY <3>1, States DEF Taken
    <3>3. \A w \in Workers : loops[w] # <<>> => ~Due(Head(loops[w]))
      BY <1>6 DEF Tick
    <3> QED
      BY <2>1, <3>1, <3>2, <3>3, SecondAssumption DEF InTime, Due
  <2> QED
    BY <2>2, <2>3
<1>7. CASE UNCHANGED vars
  BY <1>7 DEF vars, InTime
<1> QED
  BY <1>1, <1>2, <1>3, <1>4, <1>5, <1>6, <1>7 DEF Next

LEMMA InitRates == Init => RatesInv
  BY DEF Init, RatesInv, Rated, InTime, Series, Paths, Idle

LEMMA RatedStays ==
    ASSUME NEW windows, Rated(windows), overrun \subseteq overrun'
    PROVE  \A s \in DeviceSeries \cap DOMAIN windows : \A i \in 1..Len(windows[s]) :
             windows[s][i].n \notin overrun' => windows[s][i].span = Second
  BY DEF Rated

LEMMA StepRates == TypeInv /\ RatesInv /\ [Next]_vars => RatesInv'
<1> SUFFICES ASSUME TypeInv, RatesInv, [Next]_vars PROVE RatesInv'
  OBVIOUS
<1>1. (\A q \in Polls : Moves(q)) /\ (UNCHANGED <<jar, streak>> \/ \E p \in Polls : Land(p))
  BY Steps
<1>2. overrun \subseteq overrun'
  BY OverrunGrows
<1>3. \A q \in Polls : InTime(q)'
  BY StepInTime DEF RatesInv
<1> DEFINE Still(windows) ==
             \A s \in DeviceSeries \cap DOMAIN windows : \A i \in 1..Len(windows[s]) :
                 windows[s][i].n \notin overrun' => windows[s][i].span = Second
<1>4. ASSUME NEW windows, Rated(windows) PROVE Still(windows)
  BY <1>2, <1>4, RatedStays
<1> HIDE DEF Still
<1>5. ASSUME NEW q \in Polls
      PROVE  /\ polls'[q].at \in {"sent", "sampling"} => Still(polls'[q].cookies)
             /\ polls'[q].at = "answered" => Still(polls'[q].windows)
  <2>1. CASE Kept(q) \/ Begun(q)
    BY <1>4, <2>1 DEF Kept, Begun, RatesInv
  <2>2. CASE Fresh(q)
    BY <1>4, <2>2, SeriesKnown DEF Fresh, RatesInv
  <2>3. CASE Gone(q)
    BY <2>3 DEF Gone, Idle
  <2>4. ASSUME NEW n \in Nat, NEW series \in SUBSET Series, NEW span \in Int,
               Replied(q, n, series, span)
        PROVE  polls'[q].at = "answered" /\ Still(polls'[q].windows)
    <3>1. polls[q].at \in {"sent", "sampling"} /\ polls'[q].at = "answered"
      BY <2>4 DEF Replied
    <3>2. Rated(polls[q].cookies) /\ InTime(q)
      BY <3>1 DEF RatesInv
    <3>3. Rated(polls'[q].windows)
      BY <3>1, <3>2, AnswersRated
    <3> QED
      BY <1>4, <3>1, <3>3
  <2> QED
    BY <1>1, <2>1, <2>2, <2>3, <2>4 DEF Moves
<1>6. ASSUME NEW path \in Paths PROVE Still(jar'[path])
  <2>1. CASE jar'[path] = jar[path]
    BY <1>4, <2>1 DEF RatesInv
  <2>2. ASSUME NEW p \in Polls, Land(p), path = Path(polls[p].chart)
        PROVE  Still(jar'[path])
    <3>1. /\ polls[p].at = "answered"
          /\ jar'[path] = Landed(jar[path], polls[p].windows)
      BY <2>2, StepLand
    <3>2. Rated(polls[p].windows) /\ Rated(jar[path]) /\ DOMAIN jar[path] = Series
      BY <3>1 DEF RatesInv, TypeInv, Cookies
    <3>3. Rated(Landed(jar[path], polls[p].windows))
      BY <3>2 DEF Rated, Landed
    <3> QED
      BY <1>4, <3>1, <3>3
  <2> QED
    BY <1>1, <2>1, <2>2, StepLand
<1>7. (\A path \in Paths : Rated(jar[path])')
      /\ \A q \in Polls : /\ polls'[q].at \in {"sent", "sampling"} => Rated(polls[q].cookies)'
                          /\ polls'[q].at = "answered" => Rated(polls[q].windows)'
  BY <1>5, <1>6 DEF Rated, Still
<1> QED
  BY <1>3, <1>7 DEF RatesInv

(* A rate covers one second unless another request's loop was entered on top   *)
(* of its own or its domain stopped meanwhile.                                 *)
THEOREM RatesAreOfOneSecond == Spec => []RatesCoverOneSecond
<1>1. TypeInv /\ RatesInv => RatesCoverOneSecond
  <2> SUFFICES ASSUME TypeInv, RatesInv, NEW path \in Paths, NEW s \in DeviceSeries,
                      NEW i \in DOMAIN jar[path][s], jar[path][s][i].n \notin overrun
               PROVE  jar[path][s][i].span = Second
    BY DEF RatesCoverOneSecond
  <2>1. jar[path] \in Cookies /\ s \in Series /\ DOMAIN jar[path] = Series
    BY DEF TypeInv, Series, Cookies
  <2>2. jar[path][s] \in Seq(Sample)
    BY <2>1 DEF Cookies, Window
  <2>3. i \in 1..Len(jar[path][s])
    BY <2>2
  <2> QED
    BY <2>1, <2>3 DEF RatesInv, Rated
<1>2. TypeInv /\ RatesInv /\ [Next]_vars => (TypeInv /\ RatesInv)'
  BY Steps, StepRates
<1>3. Init => TypeInv /\ RatesInv
  BY InitTypes, InitRates
<1> QED
  BY <1>1, <1>2, <1>3, PTL DEF Spec

-------------------------------------------------------------------------------
(* Histories.                                                                  *)

Entry == [chart : Charts, n : Nat]

LEMMA MovedLast ==
    ASSUME NEW w \in Window, NEW x \in Sample, NEW from \in Seq(Entry), NEW e \in Entry,
           LastRequests(w, from), Len(from) < Points, x.n = e.n
    PROVE  LastRequests(Moved(w, x), Append(from, e))
<1> DEFINE moved == Moved(w, x)
           longer == Append(from, e)
           len == MovedLen(w)
<1>1. /\ Len(w) \in Nat /\ len \in 1..(Len(w) + 1) /\ Len(moved) = len /\ moved[len] = x
      /\ \A k \in 1..(len - 1) : moved[k] = w[k + Len(w) + 1 - len]
  BY MovedWindow DEF Window
<1>2. /\ Len(from) \in Nat /\ Len(longer) = Len(from) + 1 /\ longer[Len(from) + 1] = e
      /\ \A i \in 1..Len(from) : longer[i] = from[i]
  BY AppendProperties
<1>3. Len(from) + 1 <= len
  BY <1>1, <1>2, PointsAssumption DEF LastRequests, MovedLen
<1> HIDE DEF moved, longer, len
<1>4. ASSUME NEW i \in 1..(Len(from) + 1)
      PROVE  moved[len - (Len(from) + 1) + i].n = longer[i].n
  <2>1. CASE i = Len(from) + 1
    <3>1. len - (Len(from) + 1) + i = len
      BY <1>1, <1>2, <2>1
    <3> QED
      BY <1>1, <1>2, <2>1, <3>1
  <2>2. CASE i # Len(from) + 1
    <3> DEFINE k == len - (Len(from) + 1) + i
    <3>1. i \in 1..Len(from) /\ k \in 1..(len - 1)
      BY <1>1, <1>2, <1>3, <2>2
    <3>2. k + Len(w) + 1 - len = Len(w) - Len(from) + i
      BY <1>1, <1>2, <3>1
    <3>3. w[Len(w) - Len(from) + i].n = from[i].n
      BY <3>1 DEF LastRequests
    <3> HIDE DEF k
    <3>4. moved[k].n = longer[i].n
      BY <1>1, <1>2, <3>1, <3>2, <3>3
    <3> QED
      BY <3>4 DEF k
  <2> QED
    BY <2>1, <2>2
<1>5. LastRequests(moved, longer)
  BY <1>1, <1>2, <1>3, <1>4 DEF LastRequests
<1> QED
  BY <1>5 DEF moved, longer

LEMMA LastOfTail ==
    ASSUME NEW w \in Window, NEW old \in Seq(Entry), old # <<>>, LastRequests(w, old)
    PROVE  LastRequests(w, Tail(old))
<1>1. /\ Len(old) \in Nat /\ Len(w) \in Nat /\ Len(Tail(old)) = Len(old) - 1
      /\ \A i \in 1..Len(Tail(old)) : Tail(old)[i] = old[i + 1]
  BY HeadTailProperties DEF Window
<1>2. ASSUME NEW i \in 1..Len(Tail(old))
      PROVE  w[Len(w) - Len(Tail(old)) + i].n = Tail(old)[i].n
  <2>1. i + 1 \in 1..Len(old) /\ Len(w) - Len(Tail(old)) + i = Len(w) - Len(old) + (i + 1)
    BY <1>1
  <2> QED
    BY <1>1, <2>1 DEF LastRequests
<1>3. Len(w) >= Len(Tail(old))
  BY <1>1 DEF LastRequests
<1> QED
  BY <1>2, <1>3 DEF LastRequests

(* What continues a streak: a part of the old one of the same chart, for whose *)
(* every series the cookies hold its requests last.                            *)
LEMMA ContinuedStreak ==
    ASSUME TypeInv, NEW p \in Polls, polls[p].at = "answered",
           LET path == Path(polls[p].chart) IN Healed(path) /\ UpToDate(p)
    PROVE  LET path == Path(polls[p].chart)
               x == polls[p].chart
               new == Continued(streak[path], p)
               landed == Landed(jar[path], polls[p].windows)
           IN  /\ Len(new) <= Points
               /\ \A i \in 1..Len(new) : new[i].chart = x
               /\ new # <<>> => \A s \in SeriesOf(x) : LastRequests(landed[s], new)
<1> DEFINE path == Path(polls[p].chart)
           x == polls[p].chart
           old == streak[path]
           entry == [chart |-> x, n |-> polls[p].n]
           kept == IF Len(old) < Points THEN old ELSE Tail(old)
           from == IF old # <<>> /\ old[1].chart = x THEN kept ELSE <<>>
           new == Continued(old, p)
           landed == Landed(jar[path], polls[p].windows)
<1>1. /\ x \in Charts /\ polls[p].n \in Nat /\ polls[p].windows \in Windows
      /\ path \in Paths /\ SeriesOf(x) \subseteq Series
  BY States, SeriesKnown
<1>2. old \in Seq(Entry) /\ Len(old) \in Nat /\ jar[path] \in Cookies
  <2>1. old \in Seq(Entry) /\ jar[path] \in Cookies
    BY <1>1 DEF TypeInv, Entry
  <2> HIDE DEF old
  <2> QED
    BY <2>1
<1>3. entry \in Entry /\ entry.n = polls[p].n /\ entry.chart = x
  BY <1>1 DEF Entry
<1>4. CASE ~polls[p].alone \/ DOMAIN polls[p].windows # SeriesOf(x)
  <2>1. new = <<>>
    BY <1>4 DEF Continued
  <2> QED
    BY <2>1, PointsAssumption
<1>5. CASE polls[p].alone /\ DOMAIN polls[p].windows = SeriesOf(x)
  <2>1. new = Append(from, entry)
    BY <1>5 DEF Continued
  <2>2. /\ from \in Seq(Entry) /\ Len(from) \in Nat /\ Len(from) < Points
        /\ \A i \in 1..Len(from) : from[i].chart = x
        /\ \A s \in SeriesOf(x) : LastRequests(jar[path][s], from)
    <3>1. CASE ~(old # <<>> /\ old[1].chart = x)
      <4>1. from = <<>>
        BY <3>1
      <4>2. \A s \in SeriesOf(x) : Len(jar[path][s]) \in Nat
        BY <1>1, <1>2 DEF Cookies, Window
      <4> HIDE DEF from
      <4>3. from \in Seq(Entry) /\ Len(from) = 0
        BY <4>1, EmptySeq
      <4> QED
        BY <4>2, <4>3, PointsAssumption DEF LastRequests
    <3>2. CASE old # <<>> /\ old[1].chart = x
      <4>1. /\ from = kept /\ Len(old) <= Points
            /\ \A i \in 1..Len(old) : old[i].chart = x
            /\ \A s \in SeriesOf(x) : LastRequests(jar[path][s], old)
        BY <3>2 DEF Healed
      <4>2. CASE Len(old) < Points
        BY <1>2, <4>1, <4>2
      <4>3. CASE ~(Len(old) < Points)
        <5>1. from = Tail(old)
          BY <4>1, <4>3
        <5>2. /\ Tail(old) \in Seq(Entry) /\ Len(Tail(old)) = Len(old) - 1
              /\ \A i \in 1..Len(Tail(old)) : Tail(old)[i] = old[i + 1]
          BY <1>2, <3>2, HeadTailProperties
        <5>3. \A s \in SeriesOf(x) : LastRequests(jar[path][s], Tail(old))
          <6>1. \A s \in SeriesOf(x) : jar[path][s] \in Window
            BY <1>1, <1>2 DEF Cookies
          <6> QED
            BY <1>2, <3>2, <4>1, <6>1, LastOfTail
        <5>4. Len(Tail(old)) \in Nat /\ Len(Tail(old)) < Points
          BY <1>2, <3>2, <4>1, <5>2, PointsAssumption
        <5>5. \A i \in 1..Len(Tail(old)) : Tail(old)[i].chart = x
          <6> HIDE DEF old
          <6> QED
            BY <1>2, <4>1, <5>2
        <5> QED
          BY <5>1, <5>2, <5>3, <5>4, <5>5
      <4> QED
        BY <4>2, <4>3
    <3> QED
      BY <3>1, <3>2
  <2> HIDE DEF from, entry, new, landed
  <2>3. /\ Len(new) = Len(from) + 1
        /\ \A i \in 1..Len(from) : new[i] = from[i]
        /\ new[Len(from) + 1] = entry
    BY <1>3, <2>1, <2>2, AppendProperties
  <2>4. Len(new) <= Points
    BY <2>2, <2>3, PointsAssumption
  <2>5. \A i \in 1..Len(new) : new[i].chart = x
    BY <1>3, <2>2, <2>3
  <2>6. ASSUME NEW s \in SeriesOf(x) PROVE LastRequests(landed[s], new)
    <3>1. landed[s] = polls[p].windows[s]
      BY <1>1, <1>5 DEF landed, Landed
    <3>2. PICK y \in Sample : polls[p].windows[s] = Moved(jar[path][s], y) /\ y.n = polls[p].n
      BY <1>5 DEF UpToDate, Alone
    <3>3. jar[path][s] \in Window
      BY <1>1, <1>2 DEF Cookies
    <3>4. LastRequests(Moved(jar[path][s], y), Append(from, entry))
      BY <1>3, <2>2, <3>2, <3>3, MovedLast
    <3> QED
      BY <2>1, <3>1, <3>2, <3>4
  <2> QED
    BY <2>4, <2>5, <2>6 DEF new, landed
<1> QED
  BY <1>4, <1>5

LEMMA InitHeal == Init => HealInv
  BY PointsAssumption DEF Init, HealInv, Healed, UpToDate, Alone, Paths, Idle

LEMMA StepHealed ==
    ASSUME TypeInv, HealInv, [Next]_vars, NEW path \in Paths
    PROVE  Healed(path)'
<1>1. CASE UNCHANGED <<jar, streak>>
  BY <1>1 DEF HealInv, Healed
<1>2. ASSUME NEW p \in Polls, Land(p) PROVE Healed(path)'
  <2> DEFINE x == polls[p].chart
  <2>1. /\ polls[p].at = "answered" /\ Path(x) \in Paths
        /\ jar'[Path(x)] = Landed(jar[Path(x)], polls[p].windows)
        /\ streak'[Path(x)] = Continued(streak[Path(x)], p)
        /\ \A other \in Paths : other # Path(x) => /\ jar'[other] = jar[other]
                                                 /\ streak'[other] = streak[other]
    BY <1>2, StepLand
  <2>2. CASE path # Path(x)
    BY <2>1, <2>2 DEF HealInv, Healed
  <2>3. CASE path = Path(x)
    <3>1. Healed(path) /\ UpToDate(p)
      BY DEF HealInv
    <3>2. /\ Len(streak'[path]) <= Points
          /\ \A i \in 1..Len(streak'[path]) : streak'[path][i].chart = x
          /\ streak'[path] # <<>> => \A s \in SeriesOf(x) : LastRequests(jar'[path][s], streak'[path])
      BY <2>1, <2>3, <3>1, ContinuedStreak
    <3>3. TypeInv'
      BY Steps
    <3>4. streak'[path] # <<>> => 1 \in 1..Len(streak'[path])
      <4>1. streak'[path] \in Seq(Entry)
        BY <3>3 DEF TypeInv, Entry
      <4> QED
        BY <4>1, EmptySeq
    <3> HIDE DEF x
    <3>5. streak'[path] # <<>> => streak'[path][1].chart = x
      BY <3>2, <3>4
    <3>6. \A i \in 1..Len(streak'[path]) :
            streak'[path][i].chart = streak'[path][1].chart /\ Path(streak'[path][i].chart) = path
      <4>1. ASSUME NEW i \in 1..Len(streak'[path])
            PROVE  streak'[path][i].chart = x /\ streak'[path] # <<>>
        <5>1. streak'[path] \in Seq(Entry)
          BY <3>3 DEF TypeInv, Entry
        <5> QED
          BY <3>2, <5>1, EmptySeq
      <4> QED
        BY <2>3, <3>5, <4>1
    <3>7. streak'[path] # <<>> =>
            \A s \in SeriesOf(streak'[path][1].chart) : LastRequests(jar'[path][s], streak'[path])
      BY <3>2, <3>5
    <3> QED
      BY <3>2, <3>6, <3>7 DEF Healed
  <2> QED
    BY <2>2, <2>3
<1> QED
  BY <1>1, <1>2, Steps

(* Which requests are under way for the same cookies.                          *)
LEMMA StillTheOnlyOne ==
    ASSUME TypeInv, [Next]_vars, NEW q \in Polls, Alone(q)', ~Fresh(q), UpToDate(q)
    PROVE  /\ Alone(q) /\ polls'[q].chart = polls[q].chart
           /\ \A r \in Polls : r # q => ~Under(r, polls[q].chart) /\ ~Under(r, polls[q].chart)'
<1>1. (\A r \in Polls : Moves(r)) /\ OthersKept
  BY Steps
<1>2. ~Gone(q)
  BY DEF Alone, Gone, Idle
<1>3. Alone(q) /\ polls'[q].chart = polls[q].chart
  BY <1>1, <1>2 DEF Moves, Kept, Begun, Replied, Alone
<1>4. \A r \in Polls : r # q => ~Under(r, polls[q].chart)
  BY <1>3 DEF UpToDate
<1>5. ASSUME NEW r \in Polls, r # q, Under(r, polls[q].chart)' PROVE FALSE
  <2>1. polls'[r].at # "idle" /\ Path(polls'[r].chart) = Path(polls[q].chart)
    BY <1>3, <1>5 DEF Under
  <2>2. ~Fresh(r)
    <3>1. Fresh(r) => Under(q, polls'[r].chart)
      BY <1>3, <2>1 DEF Under, Alone
    <3> QED
      BY <1>5, <3>1 DEF Fresh, Alone
  <2>3. ~Gone(r)
    BY <2>1 DEF Gone, Idle
  <2>4. polls[r].at # "idle" /\ polls'[r].chart = polls[r].chart
    BY <1>1, <2>1, <2>2, <2>3 DEF Moves, Kept, Begun, Replied
  <2> QED
    BY <1>4, <1>5, <2>1, <2>4 DEF Under
<1> QED
  BY <1>3, <1>4, <1>5

LEMMA StepUpToDate ==
    ASSUME TypeInv, HealInv, [Next]_vars, NEW q \in Polls
    PROVE  UpToDate(q)'
<1> SUFFICES ASSUME Alone(q)' PROVE UpToDate(q)'
  BY DEF UpToDate
<1>1. (\A r \in Polls : Moves(r)) /\ OthersKept
      /\ (UNCHANGED <<jar, streak>> \/ \E p \in Polls : Land(p))
  BY Steps
<1>2. UpToDate(q)
  BY DEF HealInv
<1>3. CASE Fresh(q)
  <2>1. \A r \in Polls : r # q => Kept(r)
    BY <1>1, <1>3 DEF OthersKept, Fresh, Kept
  <2>2. UNCHANGED jar
    <3>1. ASSUME NEW p \in Polls, Land(p) PROVE FALSE
      <4>1. Gone(p) /\ polls[p].at = "answered"
        BY <3>1, StepLand
      <4>2. p # q
        BY <1>3, <4>1 DEF Fresh
      <4> QED
        BY <2>1, <4>1, <4>2 DEF Kept, Gone, Idle
    <3> QED
      BY <1>1, <3>1
  <2>3. \A r \in Polls : r # q => ~Under(r, polls[q].chart)'
    <3>1. \A r \in Polls : r # q => ~Under(r, polls'[q].chart)
      BY <1>3 DEF Fresh, Alone
    <3> QED
      BY <2>1, <3>1 DEF Under, Kept
  <2> QED
    BY <1>3, <2>2, <2>3 DEF Fresh, UpToDate, Under
<1>4. CASE ~Fresh(q)
  <2> DEFINE path == Path(polls[q].chart)
  <2>1. /\ Alone(q) /\ polls'[q].chart = polls[q].chart
        /\ \A r \in Polls : r # q => ~Under(r, polls[q].chart) /\ ~Under(r, polls[q].chart)'
    BY <1>2, <1>4, StillTheOnlyOne
  <2>2. path \in Paths
    BY DEF Path, Paths
  <2>3. jar'[path] = jar[path]
    <3>1. ASSUME NEW p \in Polls, Land(p) PROVE jar'[path] = jar[path]
      <4>1. /\ Gone(p) /\ polls[p].at = "answered"
            /\ \A other \in Paths : other # Path(polls[p].chart) => jar'[other] = jar[other]
        BY <3>1, StepLand
      <4>2. p # q
        BY <4>1 DEF Gone, Idle, Alone
      <4>3. Path(polls[p].chart) # path
        BY <2>1, <4>1, <4>2 DEF Under
      <4> QED
        BY <2>2, <4>1, <4>3
    <3> QED
      BY <1>1, <3>1
  <2>4. /\ polls[q].at \in {"sent", "sampling"} => polls[q].cookies = jar[path]
        /\ polls[q].at = "answered" =>
             \A s \in DOMAIN polls[q].windows : \E x \in Sample :
                 polls[q].windows[s] = Moved(jar[path][s], x) /\ x.n = polls[q].n
    BY <1>2, <2>1 DEF UpToDate
  <2>5. /\ polls'[q].at \in {"sent", "sampling"} => polls'[q].cookies = jar[path]
        /\ polls'[q].at = "answered" =>
             \A s \in DOMAIN polls'[q].windows : \E x \in Sample :
                 polls'[q].windows[s] = Moved(jar[path][s], x) /\ x.n = polls'[q].n
    <3>1. CASE Kept(q) \/ Begun(q)
      BY <2>4, <3>1 DEF Kept, Begun
    <3>2. ASSUME NEW n \in Nat, NEW series \in SUBSET Series, NEW span \in Int,
                 Replied(q, n, series, span)
          PROVE  /\ polls'[q].at = "answered"
                 /\ \A s \in DOMAIN polls'[q].windows : \E x \in Sample :
                      polls'[q].windows[s] = Moved(jar[path][s], x) /\ x.n = polls'[q].n
      <4>1. /\ polls[q].at \in {"sent", "sampling"} /\ polls'[q].at = "answered"
            /\ polls'[q].n = n /\ polls'[q].windows = Answer(polls[q].cookies, n, series, span)
        BY <3>2 DEF Replied
      <4>2. polls[q].cookies \in Cookies /\ polls[q].cookies = jar[path]
        BY <2>4, <4>1, States
      <4>3. /\ DOMAIN polls'[q].windows = series
            /\ \A s \in series :
                 /\ NewSample(s, n, span) \in Sample /\ NewSample(s, n, span).n = n
                 /\ polls'[q].windows[s] = Moved(jar[path][s], NewSample(s, n, span))
        BY <4>1, <4>2, AnswerType
      <4> QED
        BY <4>1, <4>3
    <3>3. ~Gone(q)
      BY DEF Gone, Idle, Alone
    <3> QED
      BY <1>1, <1>4, <3>1, <3>2, <3>3 DEF Moves
  <2> QED
    BY <2>1, <2>3, <2>5 DEF UpToDate, Under
<1> QED
  BY <1>3, <1>4

(* The requests of a window, as a sequence.                                    *)
LEMMA RequestsOf ==
    ASSUME NEW w, \/ w \in Seq(Sample)
                  \/ w \in Seq(Entry)
    PROVE  /\ Requests(w) \in Seq(Nat) /\ Len(Requests(w)) = Len(w) /\ Len(w) \in Nat
           /\ \A i \in 1..Len(w) : Requests(w)[i] = w[i].n
<1>1. DOMAIN w = 1..Len(w) /\ Len(w) \in Nat
  <2>1. CASE w \in Seq(Sample)
    BY <2>1
  <2>2. CASE w \in Seq(Entry)
    BY <2>2
  <2> QED
    BY <2>1, <2>2
<1>2. \A i \in 1..Len(w) : w[i].n \in Nat
  <2>1. \A i \in 1..Len(w) : w[i] \in Sample \/ w[i] \in Entry
    BY ElementOfSeq
  <2> QED
    BY <2>1 DEF Sample, Entry
<1>3. Requests(w) \in [1..Len(w) -> Nat]
  BY <1>1, <1>2 DEF Requests
<1> QED
  BY <1>1, <1>3 DEF Requests

(* A disturbed history heals: the latest samples one page took alone, as many  *)
(* as a window holds at most, are the latest in each of its windows.           *)
THEOREM HistoriesHeal == Spec => []HistoryHeals
<1>1. TypeInv /\ HealInv => HistoryHeals
  <2> SUFFICES ASSUME TypeInv, HealInv, NEW path \in Paths, streak[path] # <<>>,
                      NEW s \in SeriesOf(streak[path][1].chart)
               PROVE  LET k == Len(streak[path])
                      IN  /\ Len(jar[path][s]) >= k
                          /\ Tails(Requests(jar[path][s]), k) = Requests(streak[path])
    BY DEF HistoryHeals
  <2> DEFINE k == Len(streak[path])
             r == Requests(jar[path][s])
             t == Requests(streak[path])
  <2>1. streak[path] \in Seq(Entry) /\ LastRequests(jar[path][s], streak[path])
    BY DEF TypeInv, Entry, HealInv, Healed
  <2>2. jar[path][s] \in Seq(Sample)
    <3>1. streak[path][1] \in Entry
      BY <2>1, EmptySeq, ElementOfSeq
    <3>2. s \in Series
      BY <3>1, SeriesKnown DEF Entry
    <3> QED
      BY <3>2 DEF TypeInv, Cookies, Window
  <2>3. /\ r \in Seq(Nat) /\ Len(r) = Len(jar[path][s]) /\ Len(r) \in Nat
        /\ \A i \in 1..Len(r) : r[i] = jar[path][s][i].n
    BY <2>2, RequestsOf
  <2>4. /\ t \in Seq(Nat) /\ Len(t) = k /\ k \in Nat
        /\ \A i \in 1..k : t[i] = streak[path][i].n
    BY <2>1, RequestsOf
  <2>5. Len(r) >= k /\ \A i \in 1..k : jar[path][s][Len(r) - k + i].n = streak[path][i].n
    BY <2>1, <2>3 DEF LastRequests
  <2> DEFINE tail == SubSeq(r, Len(r) - k + 1, Len(r))
  <2> HIDE DEF r, t, k
  <2>6. \A i \in (Len(r) - k + 1)..Len(r) : i \in 1..Len(r) /\ r[i] \in Nat
    BY <2>3, <2>4, <2>5, ElementOfSeq
  <2>7. /\ tail \in Seq(Nat)
        /\ Len(tail) = IF Len(r) - k + 1 <= Len(r) THEN Len(r) - (Len(r) - k + 1) + 1 ELSE 0
        /\ \A i \in 1..(Len(r) - (Len(r) - k + 1) + 1) : tail[i] = r[Len(r) - k + 1 + i - 1]
    <3>1. Len(r) - k + 1 \in Int /\ Len(r) \in Int
      BY <2>3, <2>4
    <3> QED
      BY <2>6, <3>1, SubSeqProperties
  <2> HIDE DEF tail
  <2>8. Len(tail) = k /\ \A i \in 1..k : tail[i] = r[Len(r) - k + i]
    BY <2>3, <2>4, <2>5, <2>7
  <2>9. ASSUME NEW i \in 1..k PROVE tail[i] = t[i]
    <3>1. Len(r) - k + i \in 1..Len(r)
      BY <2>3, <2>4, <2>5
    <3> QED
      BY <2>3, <2>4, <2>5, <2>8, <3>1
  <2>10. tail = t
    BY <2>4, <2>7, <2>8, <2>9, SeqEqual
  <2> QED
    BY <2>3, <2>5, <2>10 DEF k, r, t, tail, Tails
<1>2. TypeInv /\ HealInv /\ [Next]_vars => (TypeInv /\ HealInv)'
  BY Steps, StepHealed, StepUpToDate DEF HealInv
<1>3. Init => TypeInv /\ HealInv
  BY InitTypes, InitHeal
<1> QED
  BY <1>1, <1>2, <1>3, PTL DEF Spec
===============================================================================
