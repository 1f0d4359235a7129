---------------------------- MODULE ReceptionStats -----------------------------
(***************************************************************************)
(* What a pull job reports to the camera: RTPReceptionStats counts the RTP *)
(* packets and extends their 16-bit sequence numbers, sendRR of            *)
(* rtspClientSource turns the counters into the losses of a receiver       *)
(* report.  The thread of the media socket notes packets, that of the RTCP *)
(* socket reports when a sender report comes, the heartbeat thread reports *)
(* from time to time; none of them takes a lock here, so that each access  *)
(* to a counter is a step.  (Interleaved media have one thread for the     *)
(* first two, which is a subset of these behaviours.)                      *)
(*                                                                         *)
(* Left out: the times, the jitter, the bytes, and the layout of a report. *)
(***************************************************************************)
EXTENDS Integers, FiniteSets, FiniteSetsExt

CONSTANTS
  Wrap,       \* values of a sequence number, 2^16 in the code
  First,      \* the numbers that the first packet may have
  MaxPackets, \* that are received (bound)
  MaxReports, \* that are begun (bound)
  None

ASSUME ReceptionStatsAssumption ==
  /\ Wrap \in Nat /\ Wrap > 2 /\ Wrap % 2 = 0
  /\ First \subseteq 0..(Wrap - 1)
  /\ MaxPackets \in Nat /\ MaxReports \in Nat
  /\ None \notin {"media", "rtcp"}

Half == Wrap \div 2

\* The threads that may make the RTPReceptionStats, and those that report.
Makers    == {"media", "rtcp"}
Reporters == {"rtcp", "heartbeat"}

VARIABLES
  at,       \* m_rtpReceptionStats: by whom it was made, or None
  twice,    \* ghost: both threads made one
  counters, \* of each: [high, base, reset, count, total, init]
  received, \* packets that were received
  noted,    \* the true numbers of those that noteIncomingPacket has finished
            \* with, without wraps
  note,     \* the media thread: [pc, seq, of: whose counters, load: a register]
  report,   \* of a reporter: [pc, high, base, total, reset, count: what it read,
            \* noted: ghost, what had been noted when it read the first]
  begun,    \* reports that were begun
  clash     \* ghost: two reports overlapped

vars == <<at, twice, counters, received, noted, note, report, begun, clash>>

Zero == [high |-> 0, base |-> 0, reset |-> 0, count |-> 0, total |-> 0, init |-> FALSE]
Blank == [pc |-> "idle", high |-> 0, base |-> 0, total |-> 0, reset |-> 0,
          count |-> 0, noted |-> {}]

Rest == [pc |-> "idle", seq |-> 0, of |-> None, load |-> 0]

Init ==
  /\ at = None
  /\ twice = FALSE
  /\ counters = [m \in Makers |-> Zero]
  /\ received = 0
  /\ noted = {}
  /\ note = Rest
  /\ report = [r \in Reporters |-> Blank]
  /\ begun = 0
  /\ clash = FALSE

-----------------------------------------------------------------------------
(* The media thread: addRtpDataToProcesser and noteIncomingPacket.         *)

\* A packet comes that is less than half of the numbers ahead of the highest or
\* behind it, again perhaps.  Without counters it makes some.
Receive(k) ==
  /\ note.pc = "idle"
  /\ received < MaxPackets
  /\ IF noted = {} THEN k \in First
                   ELSE k - Max(noted) \in -(Half - 1)..(Half - 1)
  /\ received' = received + 1
  /\ note' = [note EXCEPT !.pc = IF at = None THEN "make" ELSE "seq", !.seq = k]
  /\ UNCHANGED <<at, twice, counters, noted, report, begun, clash>>

InitSeqNum(c, k) ==
  [c EXCEPT !.high = Wrap + (k % Wrap), !.base = Wrap + (k % Wrap), !.init = TRUE]

\* The constructor with a sequence number, which resets after it took that.
Make ==
  /\ note.pc = "make"
  /\ LET c == InitSeqNum(Zero, note.seq)
     IN  counters' = [counters EXCEPT !["media"] = [c EXCEPT !.reset = c.high]]
  /\ twice' = (at # None)
  /\ at' = "media"
  /\ note' = [note EXCEPT !.pc = "seq"]
  /\ UNCHANGED <<received, noted, report, begun, clash>>

\* The first number, and the load of the count that is to be increased.
NoteSeq ==
  /\ note.pc = "seq"
  /\ LET c == IF counters[at].init THEN counters[at]
                                   ELSE InitSeqNum(counters[at], note.seq)
     IN  /\ counters' = [counters EXCEPT ![at] = c]
         /\ note' = [note EXCEPT !.pc = "count", !.of = at, !.load = c.count]
  /\ UNCHANGED <<at, twice, received, noted, report, begun, clash>>

NoteCount ==
  /\ note.pc = "count"
  /\ counters' = [counters EXCEPT ![note.of].count = note.load + 1]
  /\ note' = [note EXCEPT !.pc = "total", !.load = 0]
  /\ UNCHANGED <<at, twice, received, noted, report, begun, clash>>

NoteTotal ==
  /\ note.pc = "total"
  /\ counters' = [counters EXCEPT ![note.of].total = @ + 1]
  /\ note' = [note EXCEPT !.pc = "extend"]
  /\ UNCHANGED <<at, twice, received, noted, report, begun, clash>>

\* Mutant: the circle is forgotten.
SeqNumBelow(s1, s2) == s1 < s2

\* seqNumLT: s1 is before s2 on the circle of numbers.
SeqNumLT(s1, s2) ==
  LET diff == s2 - s1 IN (diff > 0 /\ diff < Half) \/ (diff < 0 /\ diff < -Half)

\* A number after the highest raises that, in the next cycle when it is lower;
\* any other lowers the base, from the last cycle when it is much higher.
Extended(c, seq) ==
  LET old   == c.high % Wrap
      cycle == c.high - old
  IN  IF SeqNumLT(old, seq)
      THEN LET new == (IF seq < old THEN cycle + Wrap ELSE cycle) + seq
           IN  [c EXCEPT !.high = IF new > @ THEN new ELSE @]
      ELSE LET new == (IF seq - old > Half THEN cycle - Wrap ELSE cycle) + seq
           IN  [c EXCEPT !.base = IF c.total > 1 /\ @ > new THEN new ELSE @]

NoteExtend ==
  /\ note.pc = "extend"
  /\ counters' = [counters EXCEPT ![note.of] = Extended(@, note.seq % Wrap)]
  /\ noted' = noted \union {note.seq}
  /\ note' = Rest
  /\ UNCHANGED <<at, twice, received, report, begun, clash>>

-----------------------------------------------------------------------------
(* A reporter: processRtcpData and sendRR, one read or write at a time.     *)

Goes(r, pc) == report' = [report EXCEPT ![r].pc = pc]

\* Mutant: the heartbeat does not look whether there are counters.
BeginBlind(r) ==
  /\ report[r].pc = "idle"
  /\ begun < MaxReports
  /\ begun' = begun + 1
  /\ clash' = (clash \/ \E o \in Reporters : report[o].pc # "idle")
  /\ Goes(r, IF r = "rtcp" /\ at = None THEN "make" ELSE "high")
  /\ UNCHANGED <<at, twice, counters, received, noted, note>>

\* A sender report comes, which makes counters when there are none, or it is time
\* for a heartbeat, which only reports when there are some.
Begin(r) ==
  /\ report[r].pc = "idle"
  /\ begun < MaxReports
  /\ r = "heartbeat" => at # None
  /\ begun' = begun + 1
  /\ clash' = (clash \/ \E o \in Reporters : report[o].pc # "idle")
  /\ Goes(r, IF at = None THEN "make" ELSE "high")
  /\ UNCHANGED <<at, twice, counters, received, noted, note>>

\* The constructor without one.
MakeSR(r) ==
  /\ report[r].pc = "make"
  /\ counters' = [counters EXCEPT !["rtcp"] = Zero]
  /\ twice' = (at # None)
  /\ at' = "rtcp"
  /\ Goes(r, "high")
  /\ UNCHANGED <<received, noted, note, begun, clash>>

ReadHigh(r) ==
  /\ report[r].pc = "high"
  /\ report' = [report EXCEPT ![r].pc = "base", ![r].high = counters[at].high,
                              ![r].noted = noted]
  /\ UNCHANGED <<at, twice, counters, received, noted, note, begun, clash>>

ReadBase(r) ==
  /\ report[r].pc = "base"
  /\ report' = [report EXCEPT ![r].pc = "total", ![r].base = counters[at].base]
  /\ UNCHANGED <<at, twice, counters, received, noted, note, begun, clash>>

ReadTotal(r) ==
  /\ report[r].pc = "total"
  /\ report' = [report EXCEPT ![r].pc = "count", ![r].total = counters[at].total]
  /\ UNCHANGED <<at, twice, counters, received, noted, note, begun, clash>>

\* Mutant: the highest number is read again, after the total.
ReadCountHigh(r) ==
  /\ report[r].pc = "count"
  /\ report' = [report EXCEPT ![r].pc = "clear", ![r].reset = counters[at].reset,
                              ![r].count = counters[at].count,
                              ![r].high = counters[at].high, ![r].noted = noted]
  /\ UNCHANGED <<at, twice, counters, received, noted, note, begun, clash>>

\* The last two, one step because only a report writes the first; with them the
\* report is sent.
ReadCount(r) ==
  /\ report[r].pc = "count"
  /\ report' = [report EXCEPT ![r].pc = "clear", ![r].reset = counters[at].reset,
                              ![r].count = counters[at].count]
  /\ UNCHANGED <<at, twice, counters, received, noted, note, begun, clash>>

\* resetStats.
ClearCount(r) ==
  /\ report[r].pc = "clear"
  /\ counters' = [counters EXCEPT ![at].count = 0]
  /\ report' = [report EXCEPT ![r] = [Blank EXCEPT !.pc = "store"]]
  /\ UNCHANGED <<at, twice, received, noted, note, begun, clash>>

SetReset(r) ==
  /\ report[r].pc = "store"
  /\ counters' = [counters EXCEPT ![at].reset = counters[at].high]
  /\ report' = [report EXCEPT ![r] = Blank]
  /\ UNCHANGED <<at, twice, received, noted, note, begun, clash>>

\* The numbers that packets may have here.
Numbers == (1 - Half)..(Wrap + MaxPackets * Half)

Next ==
  \/ \E k \in Numbers : Receive(k)
  \/ Make
  \/ NoteSeq
  \/ NoteCount
  \/ NoteTotal
  \/ NoteExtend
  \/ \E r \in Reporters :
       \/ Begin(r)
       \/ MakeSR(r)
       \/ ReadHigh(r)
       \/ ReadBase(r)
       \/ ReadTotal(r)
       \/ ReadCount(r)
       \/ ClearCount(r)
       \/ SetReset(r)

Spec == Init /\ [][Next]_vars

-----------------------------------------------------------------------------

\* The pointer, the registers and the places of the threads; a thread that is
\* past the check of the pointer finds counters behind it
\* (addRtpDataToProcesser, processRtcpData, sendRR).
TypeOK ==
  /\ at \in Makers \union {None}
  /\ twice \in BOOLEAN /\ clash \in BOOLEAN
  /\ \A m \in Makers : counters[m] \in [high: Nat, base: Nat, reset: Nat, count: Nat,
                                        total: Nat, init: BOOLEAN]
  /\ received \in 0..MaxPackets /\ begun \in 0..MaxReports
  /\ noted \subseteq Int
  /\ note.pc \in {"idle", "make", "seq", "count", "total", "extend"}
  /\ note.pc \in {"count", "total", "extend"} => note.of \in Makers
  /\ note.pc = "seq" => at # None
  /\ \A r \in Reporters :
       /\ report[r].pc \in {"idle", "make", "high", "base", "total", "count", "clear",
                            "store"}
       /\ report[r].pc \notin {"idle", "make"} => at # None

\* Across wraps, losses and reordering of less than half of the numbers, the
\* counters know the highest and the lowest packet by their true numbers; the
\* first has the number Wrap more than its own (noteIncomingPacket).
HighestIsTrue ==
  note.pc = "idle" /\ noted # {} /\ ~twice
    => /\ counters[at].high = Wrap + Max(noted)
       /\ counters[at].base = Wrap + Min(noted)

\* What the counters expected and had not noted when the report was begun.
Missing(r, low) ==
  Cardinality({k \in (low - Wrap)..(report[r].high - Wrap) : k \notin report[r].noted})

Sends(r) == report[r].pc = "clear" /\ ~twice /\ report[r].high > 0

\* However packets come between its reads, a report never claims that more
\* packets were lost in all than are missing (sendRR 2095-2107); nor, since the
\* report before it, more than one too many: that of a packet whose count fell to
\* the reset.  The latter needs reports that do not overlap, and counters that the
\* first packet made or that were reset since (sendRR 2109-2120, resetStats).
LossIsNotOverstated ==
  \A r \in Reporters : Sends(r) =>
    /\ report[r].high - report[r].base - report[r].total <= Missing(r, report[r].base)
    /\ ~clash /\ report[r].reset > 0 =>
         report[r].high - report[r].reset - report[r].count
           <= Missing(r, report[r].reset + 1) + 1

=============================================================================
