------------------------------ MODULE Registries ------------------------------
(***************************************************************************)
(* The four registries of the package: the command handlers of             *)
(* InMemoryDispatcher, the delegates of DelegateEventFactory,              *)
(* DelegateAggregateFactory and DelegateStreamNamer.  Each is a map that   *)
(* binds a name to the first delegate it is registered with.               *)
(*                                                                         *)
(* Commands and aggregates are registered by an instance, under the name   *)
(* TypeOf finds, which is that of the type without its package; events are *)
(* registered by the name itself.  RegisterHandler and the stream namer's  *)
(* RegisterDelegate take any number of instances and go through them one   *)
(* by one; they are called while the program starts, in one goroutine.     *)
(* TypeOf wants a pointer and panics for any other instance, which leaves  *)
(* the maps as an error does.                                              *)
(***************************************************************************)
EXTENDS Integers, Sequences, FiniteSets

CONSTANTS
    Types,       \* types of commands, aggregates and events, with packages
    Name,        \* the name each of them has without its package
    Plain,       \* those that are given as they are, not by a pointer
    Delegates,   \* handlers, factories and stream name functions
    None,        \* what a map answer for a name it does not hold
    MaxArgs,     \* bound: instances given to one call
    MaxCalls     \* bound: different registrations that are finished

ASSUME RegistryAssumption ==
    /\ None \notin Delegates
    /\ MaxArgs \in Nat /\ MaxCalls \in Nat

Variadic == {"handlers", "streamNames"}
Registry == Variadic \cup {"eventFactories", "aggregateFactories"}
Names == {Name[t] : t \in Types}

VARIABLES
    bound,     \* the maps
    call,      \* the registration under way, if any, and how far it is
    accepted,  \* registrations that returned nil
    refused,   \* registrations that returned an error or panicked, and how far
               \* they got
    answer     \* what the last lookup has found, if there was one

vars == <<bound, call, accepted, refused, answer>>

\* args[done + 1] is registered next.
Call == [registry : Registry, delegate : Delegates, args : Seq(Types), done : Nat]

\* Variant: the map of the stream namer is not made.
InitUnmade ==
    /\ bound = [r \in Registry |-> [n \in IF r = "streamNames" THEN {} ELSE Names |->
                                       None]]
    /\ call = {}
    /\ accepted = {}
    /\ refused = {}
    /\ answer = {}

Init ==
    /\ bound = [r \in Registry |-> [n \in Names |-> None]]
    /\ call = {}
    /\ accepted = {}
    /\ refused = {}
    /\ answer = {}

TypeOf(t) == Name[t]
Bound(r, t) == bound[r][TypeOf(t)]

\* Elem() of the type of an instance that is no pointer; an event is registered
\* and looked up by its name and needs no instance.
Panics(r, t) == r # "eventFactories" /\ t \in Plain

Args(r) == {args \in UNION {[1..k -> Types] : k \in 1..MaxArgs} :
                r \in Variadic \/ Len(args) = 1}

Register ==
    /\ call = {}
    /\ Cardinality(accepted \cup refused) < MaxCalls
    /\ \E r \in Registry, d \in Delegates : \E args \in Args(r) :
        call' = {[registry |-> r, delegate |-> d, args |-> args, done |-> 0]}
    /\ UNCHANGED <<bound, accepted, refused, answer>>

\* Variant: every name is free.
FreeAlways(c) == TRUE

Readable(c) == ~Panics(c.registry, c.args[c.done + 1])

Free(c) == Bound(c.registry, c.args[c.done + 1]) = None

Advanced(c) == [registry |-> c.registry, delegate |-> c.delegate,
                args |-> c.args, done |-> c.done + 1]

\* Variant: every turn of the loop looks at the first instance.
RegisterNextFirst ==
    /\ \E c \in call :
        /\ c.done < Len(c.args)
        /\ Readable(c) /\ Free(c)
        /\ bound' = [bound EXCEPT ![c.registry][TypeOf(c.args[1])] = c.delegate]
        /\ call' = {Advanced(c)}
    /\ UNCHANGED <<accepted, refused, answer>>

RegisterNext ==
    /\ \E c \in call :
        /\ c.done < Len(c.args)
        /\ Readable(c) /\ Free(c)
        /\ bound' = [bound EXCEPT ![c.registry][TypeOf(c.args[c.done + 1])] =
                                     c.delegate]
        /\ call' = {Advanced(c)}
    /\ UNCHANGED <<accepted, refused, answer>>

\* The error is returned at the first name that is taken; what the call has
\* bound before stays.
RegisterRefused ==
    /\ \E c \in call :
        /\ c.done < Len(c.args)
        /\ Readable(c) /\ ~Free(c)
        /\ refused' = refused \cup {c}
    /\ call' = {}
    /\ UNCHANGED <<bound, accepted, answer>>

\* What the call has bound before it panics stays as well.
RegisterPanics ==
    /\ \E c \in call :
        /\ c.done < Len(c.args)
        /\ ~Readable(c)
        /\ refused' = refused \cup {c}
    /\ call' = {}
    /\ UNCHANGED <<bound, accepted, answer>>

\* Variant: the loop ends before the last instance.
DoneEarly(c) == c.done >= 1

Done(c) == c.done = Len(c.args)

RegisterDone ==
    /\ \E c \in call : Done(c) /\ accepted' = accepted \cup {c}
    /\ call' = {}
    /\ UNCHANGED <<bound, refused, answer>>

\* Dispatch, GetEvent, GetAggregate and GetStreamName: the delegate that is
\* called, or None for the error or nil they return.  Dispatch of a command that
\* is no pointer panics and changes nothing; the others are given a name.
Lookup ==
    /\ call = {}
    /\ \E r \in Registry, t \in Types :
        /\ ~(r = "handlers" /\ Panics(r, t))
        /\ answer' = {[registry |-> r, type |-> t, delegate |-> Bound(r, t)]}
    /\ UNCHANGED <<bound, call, accepted, refused>>

Next ==
    \/ Register \/ RegisterNext \/ RegisterRefused \/ RegisterPanics \/ RegisterDone
    \/ Lookup

Spec == Init /\ [][Next]_vars

-----------------------------------------------------------------------------
Calls == call \cup accepted \cup refused

\* What a call has registered: the names of its first instances.
Registers(c, n) == \E k \in 1..c.done : n = TypeOf(c.args[k])

\* Every variable keeps its type.
TypeOK ==
    /\ bound \in [Registry -> [Names -> Delegates \cup {None}]]
    /\ call \subseteq Call /\ accepted \subseteq Call /\ refused \subseteq Call
    /\ \A c, d \in call : c = d
    /\ \A c \in Calls : c.done <= Len(c.args)
    /\ answer \subseteq [registry : Registry, type : Types,
                          delegate : Delegates \cup {None}]

\* A call that has returned no error has bound every name it was given, and each
\* of them is still bound to its delegate, whatever was registered after it.
AcceptedIsBound ==
    \A c \in accepted : \A k \in DOMAIN c.args :
        Bound(c.registry, c.args[k]) = c.delegate

\* A name is bound exactly when some call has come to it, and then to that call's
\* delegate: the names of a refused call before the one it stopped at are
\* bound like those of one that was accepted.
BoundByCalls ==
    \A r \in Registry, n \in Names :
        /\ bound[r][n] = None => ~\E c \in Calls : c.registry = r /\ Registers(c, n)
        /\ bound[r][n] # None => \E c \in Calls : /\ c.registry = r
                                                  /\ Registers(c, n)
                                                  /\ c.delegate = bound[r][n]

\* A call ends early only at a name that is taken or an instance without one.
RefusedForTaken ==
    \A c \in refused :
        /\ c.done < Len(c.args)
        /\ ~Readable(c) \/ Bound(c.registry, c.args[c.done + 1]) # None

\* What a lookup has found is what it would find now: a delegate is never replaced
\* by a later registration, not even by one for another type of the same name,
\* and it comes from a registration of that name.
AnswerLasts ==
    \A a \in answer : a.delegate # None =>
        /\ Bound(a.registry, a.type) = a.delegate
        /\ \E c \in Calls : /\ c.registry = a.registry /\ c.delegate = a.delegate
                            /\ Registers(c, TypeOf(a.type))
=============================================================================
