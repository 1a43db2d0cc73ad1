--------------------------------- MODULE Clock ---------------------------------
(* The hardware clock set from NTP, once a boot, over the stack of Nics:   *)
(* clock.rs's sync, its name lookup, the UDP exchanges both make, and the  *)
(* calendar of sntp.rs.  Two ticks are a second, and the true time is a    *)
(* count of them from a day the case names.                                *)
EXTENDS Nics

CONSTANTS
    Exchange    \* ticks of one exchange (1 s)

\* A case says, beside what Nics' does: ntp, what the media says of NTP; opt42
\* and dns, whether the lease names servers; from, the day; skew, the RTC's
\* seconds ahead of the truth, or Lost for fields that are no date.
Lost == 999999

Day == 86400

\* The truth and the RTC are in 1970 to 2037, the years of the calendar below.
Dated(d, k) ==
    /\ d \in 1 .. 24835 /\ k \in Int
    /\ k # Lost => Day <= d * Day + k /\ d * Day + k <= 24835 * Day

ASSUME ClockAssumption ==
    /\ Exchange \in 0 .. 4
    /\ \A c \in Cases :
           /\ c.ntp \in {"off", "host", "address", "none"}
           /\ c.opt42 \in BOOLEAN /\ c.dns \in BOOLEAN
           /\ Dated(c.from, c.skew)

VARIABLES
    ntp, opt42, dns, from,  \* the case
    now,      \* ticks gone by
    skew,     \* the RTC less the truth, in seconds
    first,    \* what it was
    asked,    \* DONE
    phase,    \* "none", "dns", "ntp", "failed"
    turn,     \* exchanges of this phase
    sent,     \* the request in hand: its NIC, nonce and ticks of age
    flight,   \* this phase's replies on the network, which may repeat and delay them
    est,      \* the time believed, in quarter seconds, and its round trip
    told      \* what Linux is told: "", "synced", "unsynced"

clockCase == <<ntp, opt42, dns, from>>
clockVars == <<clockCase, now, skew, first, asked, phase, turn, sent, flight, est, told>>
vars == <<nicVars, clockVars>>

NoRequestSent == [nic |-> 0, nonce |-> 0, age |-> 0]
NoTime == [at |-> 0, rtt |-> 0]

ClockCase(c) ==
    /\ ntp = c.ntp /\ opt42 = c.opt42 /\ dns = c.dns /\ from = c.from
    /\ skew = c.skew /\ first = c.skew

ClockInit ==
    /\ now = 0 /\ asked = FALSE /\ phase = "none" /\ turn = 0
    /\ sent = NoRequestSent /\ flight = {} /\ est = NoTime /\ told = ""

------------------------------------------------------------------------------
(* The calendar.                                                           *)

\* civil: from days since 1970, with the era counted from 0000-03-01.
Civil(secs) ==
    LET z   == secs \div Day + 719468
        era == z \div 146097
        doe == z - era * 146097
        yoe == (doe - doe \div 1460 + doe \div 36524 - doe \div 146096) \div 365
        doy == doe - (365 * yoe + yoe \div 4 - yoe \div 100)
        mp  == (5 * doy + 2) \div 153
        m   == IF mp < 10 THEN mp + 3 ELSE mp - 9
    IN  [year |-> yoe + era * 400 + (IF m <= 2 THEN 1 ELSE 0), month |-> m,
         day |-> doy - (153 * mp + 2) \div 5 + 1, second |-> secs % Day]

DaysInMonth(y, m) ==
    IF m = 2 THEN IF (y % 4 = 0 /\ y % 100 # 0) \/ y % 400 = 0 THEN 29 ELSE 28
    ELSE IF m \in {4, 6, 9, 11} THEN 30 ELSE 31

\* unix: back again, or -1 for what is no date.
Unix(c) ==
    LET y   == IF c.month <= 2 THEN c.year - 1 ELSE c.year
        era == y \div 400
        yoe == y - era * 400
        mp  == IF c.month > 2 THEN c.month - 3 ELSE c.month + 9
        doe == yoe * 365 + yoe \div 4 - yoe \div 100 + (153 * mp + 2) \div 5 + c.day - 1
    IN  IF c.month \notin 1 .. 12 \/ c.day \notin 1 .. DaysInMonth(c.year, c.month)
        THEN -1
        ELSE (era * 146097 + doe - 719468) * Day + c.second

\* What a calendar is, by counting: the days before each year and month.
Leap(y) == (y % 4 = 0 /\ y % 100 # 0) \/ y % 400 = 0
YearStart == [y \in 1970 .. 2038 |->
                 365 * (y - 1970) + Cardinality({x \in 1970 .. y - 1 : Leap(x)})]
MonthStart == [leap \in BOOLEAN |-> [m \in 1 .. 13 |->
                 30 * (m - 1) + Cardinality({x \in {1, 3, 5, 7, 8, 10, 12} : x < m})
                 - (IF m < 3 THEN 0 ELSE IF leap THEN 1 ELSE 2)]]
Counted(c) ==
    (YearStart[c.year] + MonthStart[Leap(c.year)][c.month] + c.day - 1) * Day + c.second

\* The hardware's own calendar, which is right.
YearOf(d) == CHOOSE y \in 1970 .. 2037 : YearStart[y] <= d /\ d < YearStart[y + 1]
MonthOf(leap, n) ==
    CHOOSE m \in 1 .. 12 : MonthStart[leap][m] <= n /\ n < MonthStart[leap][m + 1]
Reads(secs) ==
    LET d == secs \div Day
        y == YearOf(d)
        n == d - YearStart[y]
        m == MonthOf(Leap(y), n)
    IN  [year |-> y, month |-> m, day |-> n - MonthStart[Leap(y)][m] + 1,
         second |-> secs % Day]

Truth == from * Day + now \div 2
Rtc == IF skew = Lost THEN [year |-> 2000, month |-> 0, day |-> 0, second |-> 0]
       ELSE Reads(Truth + skew)

\* step: whether the RTC is out by more than a second.
Needed(ntpSecs) == LET r == Unix(Rtc) IN r = -1 \/ r - ntpSecs > 1 \/ ntpSecs - r > 1

------------------------------------------------------------------------------
(* sync.                                                                   *)

\* leased_nic: the one that reached a target last, else the best with a lease.
LeasedNic == IF pref # 0 /\ lease[pref] THEN pref ELSE First(Leased)

Moved == <<case, stack, tx, api, counts, answered>>
Leave(value) ==
    /\ told' = value
    /\ phase' = "none" /\ turn' = 0 /\ sent' = NoRequestSent /\ flight' = {}
    /\ Ended(last)
    /\ UNCHANGED <<Moved, mine, socks>>

\* The second caller finds it done.
StartClock ==
    /\ pc = "idle" /\ More /\ Op = "clock"
    /\ IF asked \/ net # "up" THEN Ended(last) /\ UNCHANGED <<mine, socks>>
       ELSE Begin("clock")
    /\ asked' = TRUE
    /\ told' = IF ~asked /\ net # "up" THEN "unsynced" ELSE told
    /\ UNCHANGED <<Moved, clockCase, now, skew, first, phase, turn, sent, flight, est>>

Choosing == pc = "clock" /\ phase = "none"

\* Off, no lease, or a name and nobody to ask.
NotChecked ==
    /\ Choosing
    /\ ntp = "off" \/ Leased = {} \/ (~opt42 /\ ntp # "address" /\ ~dns)
    /\ Leave("unsynced")
    /\ UNCHANGED <<clockCase, now, skew, first, asked, est>>

\* The lease's server, or the media's, or pool.ntp.org looked up.
Chosen ==
    /\ Choosing
    /\ ntp # "off" /\ Leased # {} /\ (opt42 \/ ntp = "address" \/ dns)
    /\ phase' = IF opt42 \/ ntp = "address" THEN "ntp" ELSE "dns"
    /\ turn' = 0
    /\ UNCHANGED <<Moved, main, clockCase, now, skew, first, asked, sent, flight, est, told>>

Asking == pc = "clock" /\ phase \in {"dns", "ntp"}
Idle == sent = NoRequestSent
Nonce == (IF phase = "ntp" THEN 2 ELSE 0) + turn + 1

\* udp_exchange: one datagram on a NIC with a lease, from a port drawn at
\* random, which may be the last one's.
Request ==
    /\ Asking /\ Idle /\ turn < 2 /\ Leased # {}
    /\ sent' = [nic |-> LeasedNic, nonce |-> Nonce, age |-> 0]
    /\ UNCHANGED <<Moved, main, clockCase, now, skew, first, asked, phase, turn, flight, est,
                   told>>

\* Mutant of NoNic: waited for.
NoNicWaitedFor == FALSE

NoNic ==
    /\ Asking /\ Idle /\ turn < 2 /\ Leased = {}
    /\ turn' = turn + 1
    /\ UNCHANGED <<Moved, main, clockCase, now, skew, first, asked, phase, sent, flight, est,
                   told>>

\* The server answers: with an address or none, with the time or with a refusal.
ServerAnswers ==
    /\ Asking /\ ~Idle /\ lease[sent.nic]
    /\ ~\E d \in flight : d.nonce = sent.nonce
    /\ \E v \in {"good", "refused"} :
           flight' = flight \cup {[nonce |-> sent.nonce, v |-> v, at |-> now]}
    /\ UNCHANGED <<Moved, main, clockCase, now, skew, first, asked, phase, turn, sent, est,
                   told>>

\* Mutant of Ours: any reply of the server's.
OursFromServer(d) == TRUE

\* A reply from the server to our port that names our request; one that says
\* it is not to be believed is looked at no further.
Ours(d) == d.nonce = sent.nonce \/ (phase = "ntp" /\ d.v = "refused")

\* An answer ends a lookup, a refusal a request's turn.
Arrives ==
    /\ Asking /\ ~Idle /\ lease[sent.nic]
    /\ \E d \in flight :
           /\ Ours(d) /\ (phase = "ntp" => d.v = "refused")
           /\ IF phase = "ntp" THEN turn' = turn + 1 /\ UNCHANGED <<phase, flight>>
              ELSE /\ phase' = IF d.v = "refused" THEN "failed" ELSE "ntp"
                   /\ turn' = 0 /\ flight' = {}
    /\ sent' = NoRequestSent
    /\ UNCHANGED <<Moved, main, clockCase, now, skew, first, asked, est, told>>

\* The server's time with half the round trip.
Estimate(d) == [at |-> 2 * d.at + sent.age, rtt |-> sent.age]

\* The time is believed: the RTC agrees, or is set, and SetTime may fail.
Believed ==
    /\ Asking /\ ~Idle /\ lease[sent.nic] /\ phase = "ntp"
    /\ \E d \in flight :
           /\ Ours(d) /\ d.v = "good"
           /\ est' = Estimate(d)
           /\ \E secs \in {from * Day + Estimate(d).at \div 4} :
                  IF ~Needed(secs) THEN Leave("synced") /\ UNCHANGED skew
                  ELSE \/ Leave("synced") /\ skew' = Counted(Civil(secs)) - Truth
                       \/ Leave("unsynced") /\ UNCHANGED skew
    /\ UNCHANGED <<clockCase, now, first, asked>>

NoAnswer ==
    /\ Asking /\ ~Idle /\ sent.age >= Exchange
    /\ sent' = NoRequestSent /\ turn' = turn + 1
    /\ UNCHANGED <<Moved, main, clockCase, now, skew, first, asked, phase, flight, est, told>>

\* Nothing believed in two turns, or a name with no address.
Unreachable ==
    /\ pc = "clock"
    /\ phase = "failed" \/ (Asking /\ Idle /\ turn = 2)
    /\ Leave("unsynced")
    /\ UNCHANGED <<clockCase, now, skew, first, asked, est>>

ClockTick ==
    /\ Asking /\ ~Idle /\ sent.age < Exchange
    /\ now' = now + 1
    /\ sent' = [sent EXCEPT !.age = @ + 1]
    /\ UNCHANGED <<Moved, main, clockCase, skew, first, asked, phase, turn, flight, est, told>>

------------------------------------------------------------------------------
Sync == StartClock \/ NotChecked \/ Chosen \/ Request \/ NoNic \/ Unreachable \/ NoAnswer

Init == (\E c \in Cases : NicCase(c) /\ ClockCase(c)) /\ NicInit /\ ClockInit
Next == \/ NicNext /\ UNCHANGED clockVars
        \/ Sync \/ ServerAnswers \/ Arrives \/ Believed \/ ClockTick

Spec == Init /\ [][Next]_vars

\* The mainline runs, time passes, and a target that can answer has by its time:
\* some one of these goes on, and no more is asked.
GoesOn == \/ (Loop \/ Serves \/ Tick \/ Answers) /\ UNCHANGED clockVars
          \/ Sync \/ ClockTick
FairSpec == Spec /\ WF_vars(GoesOn)

------------------------------------------------------------------------------
(* Properties.                                                             *)

\* The state's shape.
ClockTypeOK ==
    /\ NicTypeOK
    /\ phase \in {"none", "dns", "ntp", "failed"} /\ turn \in 0 .. 2
    /\ sent.age \in 0 .. Exchange /\ told \in {"", "synced", "unsynced"}
    /\ phase # "none" => pc = "clock"

\* The time believed is off by half its round trip at the most: a late reply to
\* an earlier request does not pass for the one in hand.
HalfTheRoundTrip ==
    LET off == est.at - 2 * now IN est # NoTime => -est.rtt <= off /\ off <= est.rtt

\* Linux is told the clock is right only of one that is, to two seconds, whatever the
\* RTC read before and the date; and told it is not, of one that was left alone.
ToldTheTruth ==
    /\ told = "synced" => skew \in -2 .. 2
    /\ told = "unsynced" => skew = first

\* The clock's reading is as good as its round trip, and what is done with it is so.
ClockRight == HalfTheRoundTrip /\ ToldTheTruth

\* What the stack takes, it accounts for: frames, sockets and the state's shape.
NothingLost == ClockTypeOK /\ FramesHeld /\ NoSocketLeft

\* A connect ends whoever answers, the clock never blocks a boot, and no client
\* blocks the API.
WaitsEnd == (pc \in {"look", "clock"} ~> pc = "idle") /\ ListensAgain
==============================================================================
