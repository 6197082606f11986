------------------------------- MODULE Events -------------------------------
(***************************************************************************)
(* openrs::common::event::EventSource: sinks are registered, expire with   *)
(* the objects they belong to, and get each event until one handles it.    *)
(***************************************************************************)
EXTENDS Naturals, Sequences, FiniteSets

CONSTANTS Sinks, MaxSinks   \* bound: registrations

ASSUME EventsAssumption == IsFiniteSet(Sinks) /\ MaxSinks \in Nat

VARIABLES
  registered,  \* sinks_
  expired,     \* sinks whose object is gone
  at,          \* the registration EmitEvent looks at, or 0
  delivered,   \* registrations that got the event, and whether each handled it
  gone         \* the sinks that were gone when they were looked at

eventVars == <<registered, expired, at, delivered, gone>>

EventsInit == registered = <<>> /\ expired = {} /\ at = 0 /\ delivered = <<>> /\ gone = {}

\* The sinks are registered before the first event.
add_sink(sink) ==
  /\ at = 0 /\ Len(registered) < MaxSinks /\ delivered = <<>> /\ gone = {}
  /\ registered' = Append(registered, sink)
  /\ UNCHANGED <<expired, at, delivered, gone>>

\* An object goes, between two events or in a handler of this one.
Expire(sink) == expired' = expired \cup {sink} /\ UNCHANGED <<registered, at, delivered, gone>>

EmitEvent ==
  /\ at = 0 /\ registered # <<>>
  /\ at' = 1 /\ delivered' = <<>> /\ gone' = {}
  /\ UNCHANGED <<registered, expired>>

NextSink == at' = IF at = Len(registered) THEN 0 ELSE at + 1

\* (Seeded defect.) The loop ends at a sink that is gone.
StopAtExpired ==
  /\ at # 0 /\ registered[at] \in expired
  /\ gone' = gone \cup {at} /\ at' = 0
  /\ UNCHANGED <<registered, expired, delivered>>

SkipExpired ==
  /\ at # 0 /\ registered[at] \in expired
  /\ gone' = gone \cup {at} /\ NextSink
  /\ UNCHANGED <<registered, expired, delivered>>

\* The sink handles the event, or leaves it to the next.
HandleEvent(handled) ==
  /\ at # 0 /\ registered[at] \notin expired
  /\ delivered' = Append(delivered, <<at, handled>>)
  /\ IF handled THEN at' = 0 ELSE NextSink
  /\ UNCHANGED <<registered, expired, gone>>

EventsNext ==
  \/ \E sink \in Sinks : add_sink(sink) \/ Expire(sink)
  \/ EmitEvent \/ SkipExpired
  \/ \E handled \in BOOLEAN : HandleEvent(handled)

-----------------------------------------------------------------------------
(* Properties *)

\* When an event has been emitted every registration got it, in order, up to
\* the first that handled it; only sinks that were gone were left out.
DeliveredInOrder ==
  LET n == Len(delivered)
      got(r) == \E i \in 1 .. n : delivered[i][1] = r
  IN  /\ \A i, j \in 1 .. n : i < j => delivered[i][1] < delivered[j][1] /\ ~delivered[i][2]
      /\ (at = 0 /\ (delivered # <<>> \/ gone # {})) =>
           \A r \in 1 .. Len(registered) :
             got(r) \/ r \in gone \/ (n > 0 /\ delivered[n][2] /\ r > delivered[n][1])
=============================================================================
