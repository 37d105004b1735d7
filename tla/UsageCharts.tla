------------------------------ MODULE UsageCharts ------------------------------
(* The usage charts (info.cpp, Connection::allCpusUsage, Domain::getStats).    *)
(* Every few seconds a page asks for a new sample. The server keeps no         *)
(* history: a chart's windows, its last Points samples, are cookies. A request *)
(* carries them, samples for a second in a nested event loop, and answers with *)
(* the windows moved on by one sample, which replace the browser's cookies.    *)
(* The cookies name neither host nor domain and live at the directory of the   *)
(* request's path: all hosts share one set of them, and so do the domains of   *)
(* one host. Requests may overlap, and answers may be lost or out of order.    *)
(*                                                                             *)
(* A sample is the number of its request, which also stands for its time, and  *)
(* the span of time its value covers. Values are left out; a net or disk value *)
(* is a difference of two counters, which the code takes for a rate per second *)
(* whatever the span. A domain's cpu value is always 0 (GetCPUStats::compute   *)
(* returns 0 whenever the statistics exist).                                   *)
(*                                                                             *)
(* A definition named X_Something next to X is X with a fault: it is not part  *)
(* of the specification, it serves to see that the properties notice.          *)
EXTENDS Integers, Sequences, FiniteSets

CONSTANTS Hosts,       \* hosts with a page that shows their charts
          Domains,     \* domains of one host with such a page
          Devices,     \* the net and disk series of each domain
          Workers,     \* threads of the server
          Polls,       \* requests at a time
          Points,      \* samples in a window
          Second,      \* ticks of the clock in a second
          MaxPolls,    \* bound: requests in all
          MaxChanges   \* bound: starts and stops of domains

ASSUME PointsAssumption == Points \in Nat \ {0}
ASSUME SecondAssumption == Second \in Nat \ {0}
(* A device's cookies have names that begin with net- or hdd- (info.cpp:218,   *)
(* 219, 260, 261), unlike the others.                                          *)
ASSUME DevicesAssumption ==
    /\ DOMAIN Devices = Domains
    /\ \A d \in Domains : Devices[d] \cap {"timer", "cpu", "mem"} = {}

VARIABLES running,     \* the domains that run
          jar,         \* the browser's cookies, per directory and series
          polls,       \* the requests under way
          loops,       \* per thread, its nested event loops, innermost first
          asked,       \* requests sent so far
          label,       \* requests the server has taken up so far
          changes,     \* starts and stops so far
          overrun,     \* history: samples that had another on top, or whose
                       \* domain stopped before they ended
          streak       \* history: per directory, the latest samples of one
                       \* chart that nothing disturbed

vars == <<running, jar, polls, loops, asked, label, changes, overrun, streak>>

Charts == Hosts \cup Domains
Paths == {"hostusage", "instusage"}
Path(x) == IF x \in Hosts THEN "hostusage" ELSE "instusage"

(* The series every answer about x has, and those of a domain's devices.       *)
Always(x) == IF x \in Hosts THEN {"timer", "cpu", "mem"} ELSE {"timer", "cpu"}
DeviceSeries == UNION {Devices[d] : d \in Domains}
SeriesOf(x) == Always(x) \cup (IF x \in Domains THEN Devices[x] ELSE {})
Series == {"timer", "cpu", "mem"} \cup DeviceSeries

Idle == [at |-> "idle"]
Under(p, x) == polls[p].at # "idle" /\ Path(polls[p].chart) = Path(x)

Init ==
    /\ running \in SUBSET Domains
    /\ jar = [path \in Paths |-> [s \in Series |-> <<>>]]
    /\ polls = [p \in Polls |-> Idle]
    /\ loops = [w \in Workers |-> <<>>]
    /\ asked = 0
    /\ label = 0
    /\ changes = 0
    /\ overrun = {}
    /\ streak = [path \in Paths |-> <<>>]

-------------------------------------------------------------------------------
(* buildArrayFromCookie: the window moves on by one sample.                    *)
Moved_Oldest(window, sample) == SubSeq(Append(window, sample), 1,
                                       IF Len(window) < Points THEN Len(window) + 1 ELSE Points)
Moved(window, sample) ==
    LET all == Append(window, sample)
    IN  IF Len(all) > Points THEN SubSeq(all, Len(all) - Points + 1, Len(all)) ELSE all

(* Only a device's value depends on the time between its two readings: a time  *)
(* does not, a share of memory or of a host's cpu neither, a domain's cpu is 0. *)
Covered(s, span) == IF s \in DeviceSeries THEN span ELSE 0

(* What a request on x answers: the cookies it came with, moved on by its own  *)
(* sample, in the given series.                                                *)
Answer(cookies, n, series, span) ==
    [s \in series |-> Moved(cookies[s], [n |-> n, span |-> Covered(s, span)])]

(* A page's interval timer sends a request with the cookies of its directory.  *)
(* It is alone until another with the same cookies is sent.                    *)
Send(p, x) ==
    /\ polls[p].at = "idle"
    /\ asked < MaxPolls
    /\ LET others == {q \in Polls : Under(q, x)}
       IN  polls' = [q \in Polls |->
             IF q = p THEN [at |-> "sent", chart |-> x, cookies |-> jar[Path(x)],
                            alone |-> others = {}]
             ELSE IF q \in others THEN [polls[q] EXCEPT !.alone = FALSE]
             ELSE polls[q]]
    /\ asked' = asked + 1
    /\ UNCHANGED <<running, jar, loops, label, changes, overrun, streak>>

(* A request is lost on its way, or finds no host, no connection or no domain: *)
(* such an answer has no cookies. The page goes on.                            *)
Fail(p) ==
    /\ polls[p].at \in {"sent", "answered"}
    /\ polls' = [polls EXCEPT ![p] = Idle]
    /\ UNCHANGED <<running, jar, loops, asked, label, changes, overrun, streak>>

Answered(p, n, series, span) ==
    [at |-> "answered", chart |-> polls[p].chart, alone |-> polls[p].alone, n |-> n,
     windows |-> Answer(polls[p].cookies, n, series, span)]

(* A thread takes the request up, in its main loop or on top of the requests   *)
(* that wait in its nested loops, and notes the time. A host is sampled unless *)
(* libvirt reports its utilization or fails; a domain if it runs.              *)
Sampled(x) == x \in Hosts \/ x \in running

BeginSample(p, w) ==
    /\ polls[p].at = "sent"
    /\ Sampled(polls[p].chart)
    /\ polls' = [polls EXCEPT ![p] =
           [at |-> "sampling", chart |-> @.chart, cookies |-> @.cookies, alone |-> @.alone,
            n |-> label + 1, age |-> 0, counters |-> "same"]]
    /\ overrun' = IF loops[w] = <<>> THEN overrun ELSE overrun \cup {polls[Head(loops[w])].n}
    /\ loops' = [loops EXCEPT ![w] = <<p>> \o @]
    /\ label' = label + 1
    /\ UNCHANGED <<running, jar, asked, changes, streak>>

(* No sample: a host's statistics without a wait, or none of a domain's devices. *)
AnswerAtOnce_TimeOnly(p) ==
    /\ polls[p].at = "sent"
    /\ polls' = [polls EXCEPT ![p] = Answered(p, label + 1, {"timer"}, 0)]
    /\ label' = label + 1
    /\ UNCHANGED <<running, jar, loops, asked, changes, overrun, streak>>
AnswerAtOnce(p) ==
    /\ polls[p].at = "sent"
    /\ polls' = [polls EXCEPT ![p] = Answered(p, label + 1, Always(polls[p].chart), 0)]
    /\ label' = label + 1
    /\ UNCHANGED <<running, jar, loops, asked, changes, overrun, streak>>

(* QTimer::singleShot(1000, ...).                                              *)
Due_Early(p) == polls[p].age >= Second - 1
Due(p) == polls[p].age >= Second

(* The innermost loop of a thread whose second is over returns, and the counters *)
(* are read again. They read as 0 traffic if the domain has gone, and count    *)
(* anew if it has been restarted.                                              *)
Span(p) == LET x == polls[p].chart
           IN  IF polls[p].counters = "same" THEN polls[p].age
               ELSE IF x \in running THEN -1 ELSE 0

EndSample(w) ==
    /\ loops[w] # <<>>
    /\ LET p == Head(loops[w])
       IN  /\ Due(p)
           /\ polls' = [polls EXCEPT ![p] =
                  Answered(p, @.n, SeriesOf(@.chart), Span(p))]
    /\ loops' = [loops EXCEPT ![w] = Tail(@)]
    /\ UNCHANGED <<running, jar, asked, label, changes, overrun, streak>>

(* The streak a landed answer leaves: only a full answer to a request that was *)
(* alone continues one, and only one of the same chart.                        *)
Continued(old, p) ==
    LET x == polls[p].chart
        kept == IF Len(old) < Points THEN old ELSE Tail(old)
    IN  IF ~polls[p].alone \/ DOMAIN polls[p].windows # SeriesOf(x) THEN <<>>
        ELSE Append(IF old # <<>> /\ old[1].chart = x THEN kept ELSE <<>>,
                    [chart |-> x, n |-> polls[p].n])

(* An answer reaches the browser: its cookies replace those of the same names. *)
Land(p) ==
    /\ polls[p].at = "answered"
    /\ LET path == Path(polls[p].chart)
           windows == polls[p].windows
       IN  /\ jar' = [jar EXCEPT ![path] =
                  [s \in Series |-> IF s \in DOMAIN windows THEN windows[s] ELSE @[s]]]
           /\ streak' = [streak EXCEPT ![path] = Continued(@, p)]
    /\ polls' = [polls EXCEPT ![p] = Idle]
    /\ UNCHANGED <<running, loops, asked, label, changes, overrun>>

Change(d) ==
    /\ changes < MaxChanges
    /\ changes' = changes + 1
    /\ IF d \in running
       THEN LET caught == {p \in Polls : polls[p].at = "sampling" /\ polls[p].chart = d}
            IN  /\ running' = running \ {d}
                /\ polls' = [p \in Polls |-> IF p \in caught
                        THEN [polls[p] EXCEPT !.counters = "reset"] ELSE polls[p]]
                /\ overrun' = overrun \cup {polls[p].n : p \in caught}
       ELSE running' = running \cup {d} /\ UNCHANGED <<polls, overrun>>
    /\ UNCHANGED <<jar, loops, asked, label, streak>>

(* Time passes while samples are taken; a loop that can return does so first.  *)
Sampling == {p \in Polls : polls[p].at = "sampling"}
Tick ==
    /\ Sampling # {}
    /\ \A w \in Workers : loops[w] # <<>> => ~Due(Head(loops[w]))
    /\ polls' = [p \in Polls |-> IF p \in Sampling
            THEN [polls[p] EXCEPT !.age = @ + 1] ELSE polls[p]]
    /\ UNCHANGED <<running, jar, loops, asked, label, changes, overrun, streak>>

Next ==
    \/ \E p \in Polls, x \in Charts : Send(p, x)
    \/ \E p \in Polls : Fail(p) \/ AnswerAtOnce(p) \/ Land(p)
    \/ \E p \in Polls, w \in Workers : BeginSample(p, w)
    \/ \E w \in Workers : EndSample(w)
    \/ \E d \in Domains : Change(d)
    \/ Tick

Spec == Init /\ [][Next]_vars

-------------------------------------------------------------------------------

(* The cpu and memory values are drawn over the times they were taken at: the  *)
(* three windows always hold the same requests (info.cpp:97-99, 211, 300).   *)
Requests(window) == [i \in DOMAIN window |-> window[i].n]
ValuesUnderTheirTimes ==
    \A x \in Charts : \A s \in Always(x) :
        Requests(jar[Path(x)][s]) = Requests(jar[Path(x)]["timer"])

(* A net or disk value covers one second, as its unit says, unless another     *)
(* request's loop was entered on top of its own, or its domain stopped         *)
(* meanwhile (domain.cpp:446-470, 957-963).                                    *)
RatesCoverOneSecond ==
    \A path \in Paths, s \in DeviceSeries :
        \A i \in DOMAIN jar[path][s] :
            LET sample == jar[path][s][i]
            IN  sample.n \notin overrun => sample.span = Second

(* A disturbed history heals: whatever overlapped, was lost or came from other *)
(* pages before, the latest samples one page has taken alone since are the     *)
(* latest in each of its windows (info.cpp:166-301).                           *)
Tails(window, k) == SubSeq(window, Len(window) - k + 1, Len(window))
HistoryHeals ==
    \A path \in Paths :
        streak[path] # <<>> =>
            \A s \in SeriesOf(streak[path][1].chart) :
                LET k == Len(streak[path])
                IN  /\ Len(jar[path][s]) >= k
                    /\ Tails(Requests(jar[path][s]), k) = Requests(streak[path])
===============================================================================
