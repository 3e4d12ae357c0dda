-------------------------------- MODULE Tone ---------------------------------
(***************************************************************************)
(* The tone of a house: refresh_group_tones (core/promo_scanner.py) runs    *)
(* every few hours, one run at a time, and analyze_group_tone               *)
(* (core/tone_profiler.py) draws a profile from the messages that           *)
(* MessageLog keeps, once there are enough, while the house goes on writing *)
(* and the tasks of its texts go on deleting.                               *)
(***************************************************************************)
EXTENDS MessageLog

CONSTANTS
    MinMessages,  \* tone_min_messages
    Recent,       \* the messages that are read, at most
    MaxStops      \* bound: how often the process stops

ASSUME RecentAssumption == Recent \in Nat \ {0} /\ MaxStops \in Nat

ASSUME MinAssumption == MinMessages \in Nat

VARIABLES
    active, \* is_active of the house
    tone,   \* tone_profile, by the number of messages it is drawn from
    job,    \* the run of refresh_group_tones
    stops   \* how often the process has stopped

toneVars == <<log, written, task, active, tone, job, stops>>
-----------------------------------------------------------------------------
NoTone == -1

Job == [pc   : {"idle", "count", "read", "ask"},
        read : 0..Recent]  \* how many messages are in the question

NoJob == [pc |-> "idle", read |-> 0]

ToneTypeOK ==
    /\ TypeOK
    /\ active \in BOOLEAN
    /\ tone \in 0..Recent \cup {NoTone}
    /\ job \in Job
    /\ stops \in 0..MaxStops

ToneInit == Init /\ active = TRUE /\ tone = NoTone /\ job = NoJob /\ stops = 0

Fewer(m, n) == IF m < n THEN m ELSE n
-----------------------------------------------------------------------------
\* The bot is taken out of the chat of the house, or put back (HouseRegistry).
ComeOrGo ==
    /\ active' = ~active
    /\ UNCHANGED <<vars, tone, job, stops>>

\* A run begins and loads the house if it is active; one that has its tone is
\* passed over.
StartJob ==
    /\ job.pc = "idle" /\ active /\ tone = NoTone
    /\ job' = [job EXCEPT !.pc = "count"]
    /\ UNCHANGED <<vars, active, tone, stops>>

\* Mistake: the house is asked about as soon as it has written anything.
CountEnough_any ==
    /\ job.pc = "count"
    /\ job' = IF log = {} THEN NoJob ELSE [job EXCEPT !.pc = "read"]
    /\ UNCHANGED <<vars, active, tone, stops>>

\* Mistake: more messages than are kept are wanted.
CountEnough_never ==
    /\ job.pc = "count"
    /\ job' = IF Cardinality(log) <= Keep + Cardinality(Tasks) THEN NoJob
              ELSE [job EXCEPT !.pc = "read"]
    /\ UNCHANGED <<vars, active, tone, stops>>

\* Are there enough messages?
CountEnough ==
    /\ job.pc = "count"
    /\ job' = IF Cardinality(log) < MinMessages THEN NoJob ELSE [job EXCEPT !.pc = "read"]
    /\ UNCHANGED <<vars, active, tone, stops>>

\* The newest are read, whatever is there by now ...
ReadRecent ==
    /\ job.pc = "read"
    /\ job' = [pc |-> "ask", read |-> Fewer(Cardinality(log), Recent)]
    /\ UNCHANGED <<vars, active, tone, stops>>

\* ... the language model answers with a profile, and it is committed.
Profile ==
    /\ job.pc = "ask"
    /\ tone' = job.read
    /\ job' = NoJob
    /\ UNCHANGED <<vars, active, stops>>

\* It fails, or gives nothing usable, or the commit fails.
NoProfile ==
    /\ job.pc = "ask"
    /\ job' = NoJob
    /\ UNCHANGED <<vars, active, tone, stops>>

\* The process stops: the run ends with the tasks.
Stop ==
    /\ stops < MaxStops /\ stops' = stops + 1
    /\ Crash
    /\ job' = NoJob
    /\ UNCHANGED <<active, tone>>

JobStep == CountEnough \/ ReadRecent \/ Profile \/ NoProfile

\* A task of a text.
TextStep(t) == TaskStep(t) /\ UNCHANGED <<active, tone, job, stops>>

ToneNext == (\E t \in Tasks : TextStep(t)) \/ ComeOrGo \/ StartJob \/ JobStep \/ Stop

ToneSpec == ToneInit /\ [][ToneNext]_toneVars

\* The runs come again and again and go on; of the answers of the language model
\* not all are useless.
FairToneSpec ==
    /\ ToneSpec
    /\ WF_toneVars(StartJob) /\ WF_toneVars(JobStep)
    /\ SF_toneVars(Profile)
-----------------------------------------------------------------------------
(* PROPERTIES                                                              *)

\* Each of the T tasks that run at one time deletes up to T - 1 messages more
\* than it stores, before they have taken back what was left over.
Spare == Cardinality(Tasks) - 1

\* So many messages stay of those that were enough.
Least == Fewer(MinMessages, Keep - Spare * Spare)

\* A profile is drawn from enough messages, though texts are deleted between the
\* count and the reading (tone_profiler.py:109-112), or at least from what the
\* tasks cannot delete: 20 of the 100 kept while nine texts of a house are in
\* flight at one time, 19 with ten.  Above that nothing is sure.
ToneFromEnough == tone # NoTone => tone >= Fewer(Least, Recent)

\* An active house that has written enough gets its tone, whatever fails before
\* (tone_profiler.py:109-131, promo_scanner.py:267-279), where what the tasks can
\* delete too much leaves enough: it does not fall below it for good.
ToneComes == Cardinality(log) >= MinMessages ~> tone # NoTone \/ ~active
=============================================================================
