--------------------------- MODULE RegistriesProofs ---------------------------
(* Proofs about Registries, for any types, names, delegates and bounds. *)
EXTENDS Registries, TLAPS

-----------------------------------------------------------------------------
(* Types                                                                   *)

\* A call is made of a registry, a delegate, the instances and how many of them
\* are done.
LEMMA CallFields ==
    ASSUME NEW c \in Call
    PROVE  /\ c.registry \in Registry /\ c.delegate \in Delegates
           /\ c.args \in Seq(Types) /\ c.done \in Nat
           /\ Len(c.args) \in Nat /\ DOMAIN c.args = 1..Len(c.args)
  <1>1. /\ c.registry \in Registry /\ c.delegate \in Delegates
        /\ c.args \in Seq(Types) /\ c.done \in Nat
    BY DEF Call
  <1> QED
    BY <1>1

\* The name of an instance is one of the names.
LEMMA NameOfArg ==
    ASSUME NEW c \in Call, NEW k \in 1..Len(c.args)
    PROVE  c.args[k] \in Types /\ TypeOf(c.args[k]) \in Names
  <1>1. c.args[k] \in Types
    BY CallFields
  <1> QED
    BY <1>1 DEF TypeOf, Names

\* A call that begins.
LEMMA NewCall ==
    ASSUME NEW r \in Registry, NEW d \in Delegates, NEW args \in Args(r)
    PROVE  [registry |-> r, delegate |-> d, args |-> args, done |-> 0] \in Call
  <1>1. PICK k \in 1..MaxArgs : args \in [1..k -> Types]
    BY DEF Args
  <1>2. k \in Nat
    BY RegistryAssumption
  <1>3. args \in Seq(Types)
    BY <1>1, <1>2
  <1> QED
    BY <1>3 DEF Call

\* A call that has come one instance further.
LEMMA NextOfCall ==
    ASSUME NEW c \in Call, c.done < Len(c.args)
    PROVE  /\ Advanced(c) \in Call
           /\ Advanced(c).done <= Len(Advanced(c).args)
           /\ c.done + 1 \in 1..Len(c.args)
  <1>1. c.done \in Nat /\ Len(c.args) \in Nat
    BY CallFields
  <1>2. Advanced(c) \in Call
    BY CallFields DEF Advanced, Call
  <1> QED
    BY <1>1, <1>2 DEF Advanced

\* Every step keeps the types.
LEMMA StepTyping == TypeOK /\ [Next]_vars => TypeOK'
  <1> SUFFICES ASSUME TypeOK, [Next]_vars PROVE TypeOK'
    OBVIOUS
  <1>1. CASE Register
    <2>1. PICK r \in Registry, d \in Delegates : \E args \in Args(r) :
        call' = {[registry |-> r, delegate |-> d, args |-> args, done |-> 0]}
      BY <1>1 DEF Register
    <2>2. PICK args \in Args(r) :
        call' = {[registry |-> r, delegate |-> d, args |-> args, done |-> 0]}
      BY <2>1
    <2> DEFINE c == [registry |-> r, delegate |-> d, args |-> args, done |-> 0]
    <2>3. c \in Call
      BY NewCall
    <2>4. c.done <= Len(c.args)
      BY <2>3, CallFields
    <2> HIDE DEF c
    <2>5. call' = {c}
      BY <2>2 DEF c
    <2> QED
      BY <1>1, <2>3, <2>4, <2>5 DEF Register, TypeOK, Calls
  <1>2. CASE RegisterNext
    <2>1. PICK c \in call : /\ c.done < Len(c.args) /\ call' = {Advanced(c)}
                            /\ bound' = [bound EXCEPT ![c.registry]
                                  [TypeOf(c.args[c.done + 1])] = c.delegate]
      BY <1>2 DEF RegisterNext
    <2>2. c \in Call
      BY DEF TypeOK
    <2>3. /\ Advanced(c) \in Call /\ Advanced(c).done <= Len(Advanced(c).args)
          /\ TypeOf(c.args[c.done + 1]) \in Names
      BY <2>1, <2>2, NextOfCall, NameOfArg
    <2>4. bound' \in [Registry -> [Names -> Delegates \cup {None}]]
      BY <2>1, <2>2, <2>3, CallFields DEF TypeOK
    <2>5. accepted' = accepted /\ refused' = refused /\ answer' = answer
      BY <1>2 DEF RegisterNext
    <2>6. \A d \in Calls' : d.done <= Len(d.args)
      BY <2>1, <2>3, <2>5 DEF TypeOK, Calls
    <2> HIDE DEF Calls
    <2> QED
      BY <2>1, <2>3, <2>4, <2>5, <2>6 DEF TypeOK
  <1>3. CASE RegisterRefused \/ RegisterPanics
    BY <1>3 DEF RegisterRefused, RegisterPanics, TypeOK, Calls
  <1>4. CASE RegisterDone
    BY <1>4 DEF RegisterDone, TypeOK, Calls
  <1>5. CASE Lookup
    <2>1. PICK r \in Registry, t \in Types :
            answer' = {[registry |-> r, type |-> t, delegate |-> Bound(r, t)]}
      BY <1>5 DEF Lookup
    <2>2. Bound(r, t) \in Delegates \cup {None}
      BY DEF Bound, TypeOf, Names, TypeOK
    <2>3. answer' \subseteq [registry : Registry, type : Types,
                              delegate : Delegates \cup {None}]
      BY <2>1, <2>2
    <2>4. UNCHANGED <<bound, call, accepted, refused>>
      BY <1>5 DEF Lookup
    <2> QED
      BY <2>3, <2>4 DEF TypeOK, Calls
  <1>6. CASE UNCHANGED vars
    BY <1>6 DEF vars, TypeOK, Calls
  <1> QED
    BY <1>1, <1>2, <1>3, <1>4, <1>5, <1>6 DEF Next

\* Every variable keeps its type, and no call runs past its instances.
THEOREM Typing == Spec => []TypeOK
  <1>1. Init => TypeOK
    BY DEF Init, TypeOK, Calls
  <1> QED
    BY <1>1, StepTyping, PTL DEF Spec

-----------------------------------------------------------------------------
(* What is bound                                                           *)

\* A name that is bound stays bound to the same delegate.
LEMMA BindingsStay ==
    ASSUME TypeOK, [Next]_vars, NEW r \in Registry, NEW n \in Names,
           bound[r][n] # None
    PROVE  bound'[r][n] = bound[r][n]
  <1>1. CASE RegisterNext
    <2>1. PICK c \in call :
            /\ c.done < Len(c.args) /\ Free(c)
            /\ bound' = [bound EXCEPT ![c.registry]
                           [TypeOf(c.args[c.done + 1])] = c.delegate]
      BY <1>1 DEF RegisterNext
    <2>2. bound[c.registry][TypeOf(c.args[c.done + 1])] = None
      BY <2>1 DEF Free, Bound
    <2> QED
      BY <2>1, <2>2 DEF TypeOK
  <1>2. CASE UNCHANGED bound
    BY <1>2
  <1> QED
    BY <1>1, <1>2 DEF Next, vars, Register, RegisterRefused, RegisterPanics,
                      RegisterDone, Lookup

\* What every call has come to is bound to its delegate.
DoneIsBound ==
    \A c \in Calls : \A k \in 1..c.done : Bound(c.registry, c.args[k]) = c.delegate

\* A call that was accepted has come to all its instances.
AcceptedDone == \A c \in accepted : c.done = Len(c.args)

\* The second half of BoundByCalls: whatever is bound, a call has bound.
BoundBySome ==
    \A r \in Registry, n \in Names :
        bound[r][n] # None => \E c \in Calls : /\ c.registry = r
                                               /\ Registers(c, n)
                                               /\ c.delegate = bound[r][n]

Bindings == DoneIsBound /\ AcceptedDone /\ BoundBySome /\ RefusedForTaken

\* A binding a call has made outlives the step.
LEMMA DoneStays ==
    ASSUME TypeOK, DoneIsBound, [Next]_vars, NEW c \in Calls, NEW k \in 1..c.done
    PROVE  Bound(c.registry, c.args[k])' = c.delegate
  <1>1. c \in Call /\ c.done <= Len(c.args)
    BY DEF TypeOK, Calls
  <1>2. k \in 1..Len(c.args)
    BY <1>1, CallFields
  <1>3. Bound(c.registry, c.args[k]) = c.delegate
    BY DEF DoneIsBound
  <1>4. /\ c.registry \in Registry /\ TypeOf(c.args[k]) \in Names
        /\ c.delegate # None
    BY <1>1, <1>2, CallFields, NameOfArg, RegistryAssumption
  <1> QED
    BY <1>3, <1>4, BindingsStay DEF Bound

\* Every step keeps the bindings.
LEMMA StepBindings == TypeOK /\ Bindings /\ [Next]_vars => Bindings'
  <1> SUFFICES ASSUME TypeOK, Bindings, [Next]_vars PROVE Bindings'
    OBVIOUS
  <1>1. CASE RegisterNext
    <2>1. PICK c \in call :
            /\ c.done < Len(c.args) /\ Free(c) /\ call' = {Advanced(c)}
            /\ bound' = [bound EXCEPT ![c.registry]
                           [TypeOf(c.args[c.done + 1])] = c.delegate]
      BY <1>1 DEF RegisterNext
    <2>2. accepted' = accepted /\ refused' = refused
      BY <1>1 DEF RegisterNext
    <2>3. c \in Call /\ call = {c}
      BY DEF TypeOK
    <2>4. TypeOf(c.args[c.done + 1]) \in Names /\ c.registry \in Registry
      BY <2>1, <2>3, NextOfCall, NameOfArg, CallFields
    <2>5. Bound(c.registry, c.args[c.done + 1])' = c.delegate
      BY <2>1, <2>4 DEF Bound, TypeOK
    <2>6. DoneIsBound'
      <3> SUFFICES ASSUME NEW d \in Calls', NEW k \in 1..d.done
                   PROVE  Bound(d.registry, d.args[k])' = d.delegate
        BY DEF DoneIsBound
      <3>1. CASE d \in accepted \cup refused
        BY <3>1, DoneStays DEF Bindings, Calls
      <3>2. CASE d = Advanced(c)
        <4>1. /\ d.registry = c.registry /\ d.args = c.args
              /\ d.delegate = c.delegate /\ d.done = c.done + 1
          BY <3>2 DEF Advanced
        <4>2. CASE k = c.done + 1
          BY <2>5, <4>1, <4>2
        <4>3. CASE k \in 1..c.done
          BY <4>1, <4>3, DoneStays DEF Bindings, Calls
        <4> QED
          BY <2>3, <4>1, <4>2, <4>3, CallFields
      <3> QED
        BY <2>1, <2>2, <3>1, <3>2 DEF Calls
    <2>7. BoundBySome'
      <3> SUFFICES ASSUME NEW r \in Registry, NEW n \in Names, bound'[r][n] # None
                   PROVE  \E d \in Calls' : /\ d.registry = r /\ Registers(d, n)
                                            /\ d.delegate = bound'[r][n]
        BY DEF BoundBySome
      <3>1. Advanced(c) \in Calls'
        BY <2>1 DEF Calls
      <3>2. \A m : Registers(c, m) => Registers(Advanced(c), m)
        BY <2>3, CallFields DEF Registers, Advanced
      <3>3. CASE r = c.registry /\ n = TypeOf(c.args[c.done + 1])
        <4>1. Registers(Advanced(c), n)
          BY <2>3, <3>3, CallFields DEF Registers, Advanced
        <4>2. bound'[r][n] = c.delegate
          BY <2>5, <3>3 DEF Bound
        <4> QED
          BY <3>1, <3>3, <4>1, <4>2 DEF Advanced
      <3>4. CASE ~(r = c.registry /\ n = TypeOf(c.args[c.done + 1]))
        <4>1. bound'[r][n] = bound[r][n]
          BY <2>1, <2>4, <3>4 DEF TypeOK
        <4>2. PICK d \in Calls : /\ d.registry = r /\ Registers(d, n)
                                 /\ d.delegate = bound[r][n]
          BY <4>1 DEF Bindings, BoundBySome
        <4>3. CASE d \in accepted \cup refused
          BY <2>2, <4>1, <4>2, <4>3 DEF Calls
        <4>4. CASE d = c
          BY <3>1, <3>2, <4>1, <4>2, <4>4 DEF Advanced
        <4> QED
          BY <2>3, <4>3, <4>4 DEF Calls
      <3> QED
        BY <3>3, <3>4
    <2>8. RefusedForTaken'
      <3> SUFFICES ASSUME NEW d \in refused
                   PROVE  /\ d.done < Len(d.args)
                          /\ \/ ~Readable(d)
                             \/ Bound(d.registry, d.args[d.done + 1])' # None
        BY <2>2 DEF RefusedForTaken, Readable
      <3> SUFFICES ASSUME Readable(d)
                   PROVE  /\ d.done < Len(d.args)
                          /\ Bound(d.registry, d.args[d.done + 1])' # None
        BY DEF Bindings, RefusedForTaken
      <3>1. d \in Call /\ d.done < Len(d.args)
            /\ Bound(d.registry, d.args[d.done + 1]) # None
        BY DEF Bindings, RefusedForTaken, TypeOK
      <3>2. TypeOf(d.args[d.done + 1]) \in Names /\ d.registry \in Registry
        BY <3>1, NextOfCall, NameOfArg, CallFields
      <3> QED
        BY <3>1, <3>2, BindingsStay DEF Bound
    <2> QED
      BY <2>2, <2>6, <2>7, <2>8 DEF Bindings, AcceptedDone
  <1>2. CASE Register
    <2>1. PICK r \in Registry, d \in Delegates : \E args \in Args(r) :
        call' = {[registry |-> r, delegate |-> d, args |-> args, done |-> 0]}
      BY <1>2 DEF Register
    <2>2. PICK c : call' = {c} /\ c.done = 0
      <3>1. PICK args \in Args(r) :
          call' = {[registry |-> r, delegate |-> d, args |-> args, done |-> 0]}
        BY <2>1
      <3> DEFINE e == [registry |-> r, delegate |-> d, args |-> args, done |-> 0]
      <3>2. call' = {e} /\ e.done = 0
        BY <3>1
      <3> HIDE DEF e
      <3> QED
        BY <3>2
    <2>3. /\ bound' = bound /\ accepted' = accepted /\ refused' = refused
          /\ Calls' = Calls \cup {c}
      BY <1>2, <2>2 DEF Register, Calls
    <2>4. DoneIsBound'
      BY <2>2, <2>3 DEF Bindings, DoneIsBound, Bound
    <2>5. BoundBySome'
      BY <2>3 DEF Bindings, BoundBySome
    <2> QED
      BY <2>3, <2>4, <2>5 DEF Bindings, AcceptedDone, RefusedForTaken, Bound,
                              Readable
  <1>3. CASE RegisterRefused \/ RegisterPanics
    <2>1. PICK c \in call : /\ c.done < Len(c.args)
                            /\ ~Readable(c) \/ ~Free(c)
                            /\ refused' = refused \cup {c} /\ call' = {}
      BY <1>3 DEF RegisterRefused, RegisterPanics
    <2>2. bound' = bound /\ accepted' = accepted
      BY <1>3 DEF RegisterRefused, RegisterPanics
    <2>3. Calls' = Calls
      BY <2>1, <2>2 DEF Calls, TypeOK
    <2>4. DoneIsBound' /\ BoundBySome'
      BY <2>2, <2>3 DEF Bindings, DoneIsBound, BoundBySome, Bound
    <2>5. RefusedForTaken'
      <3> DEFINE Rightly(d) ==
              /\ d.done < Len(d.args)
              /\ ~Readable(d) \/ Bound(d.registry, d.args[d.done + 1]) # None
      <3>1. \A d \in refused : Rightly(d)
        BY DEF Bindings, RefusedForTaken
      <3>2. Rightly(c)
        BY <2>1 DEF Free
      <3>3. \A d \in refused' : Rightly(d)
        BY <2>1, <3>1, <3>2
      <3> QED
        BY <2>2, <3>3 DEF RefusedForTaken, Bound, Readable
    <2> QED
      BY <2>2, <2>4, <2>5 DEF Bindings, AcceptedDone
  <1>4. CASE RegisterDone
    <2>1. PICK c \in call : Done(c) /\ accepted' = accepted \cup {c} /\ call' = {}
      BY <1>4 DEF RegisterDone
    <2>2. bound' = bound /\ refused' = refused
      BY <1>4 DEF RegisterDone
    <2>3. Calls' = Calls
      BY <2>1, <2>2 DEF Calls, TypeOK
    <2>4. DoneIsBound' /\ BoundBySome'
      BY <2>2, <2>3 DEF Bindings, DoneIsBound, BoundBySome, Bound
    <2>5. AcceptedDone'
      BY <2>1 DEF Bindings, AcceptedDone, Done
    <2> QED
      BY <2>2, <2>4, <2>5 DEF Bindings, RefusedForTaken, Bound, Readable
  <1>5. CASE Lookup \/ UNCHANGED vars
    <2>1. UNCHANGED <<bound, call, accepted, refused>>
      BY <1>5 DEF Lookup, vars
    <2> QED
      BY <2>1 DEF Bindings, DoneIsBound, AcceptedDone, BoundBySome,
                  RefusedForTaken, Bound, Calls, Readable
  <1> QED
    BY <1>1, <1>2, <1>3, <1>4, <1>5 DEF Next

\* The bindings hold in every state.
LEMMA BindingsAlways == Spec => [](TypeOK /\ Bindings)
  <1>1. Init => Bindings
    BY DEF Init, Bindings, DoneIsBound, AcceptedDone, BoundBySome,
           RefusedForTaken, Calls
  <1> QED
    BY <1>1, Typing, StepBindings, PTL DEF Spec

\* A registration that was accepted has bound all its names, for good.
THEOREM AcceptedBinds == Spec => []AcceptedIsBound
  <1>1. TypeOK /\ Bindings => AcceptedIsBound
    <2> SUFFICES ASSUME TypeOK, Bindings, NEW c \in accepted,
                        NEW k \in DOMAIN c.args
                 PROVE  Bound(c.registry, c.args[k]) = c.delegate
      BY DEF AcceptedIsBound
    <2>1. c \in Call /\ c \in Calls
      BY DEF TypeOK, Calls
    <2>2. k \in 1..c.done
      BY <2>1, CallFields DEF Bindings, AcceptedDone
    <2> QED
      BY <2>1, <2>2 DEF Bindings, DoneIsBound
  <1> QED
    BY <1>1, BindingsAlways, PTL

\* A name is bound exactly when a call has come to it, accepted or not, and then
\* to the delegate of that call.
THEOREM CallsBind == Spec => []BoundByCalls
  <1>1. TypeOK /\ Bindings => BoundByCalls
    <2> SUFFICES ASSUME TypeOK, Bindings, NEW r \in Registry, NEW n \in Names,
                        bound[r][n] = None, NEW c \in Calls, c.registry = r,
                        Registers(c, n)
                 PROVE  FALSE
      BY DEF BoundByCalls, Bindings, BoundBySome
    <2>1. PICK k \in 1..c.done : n = TypeOf(c.args[k])
      BY DEF Registers
    <2>2. Bound(c.registry, c.args[k]) = c.delegate
      BY DEF Bindings, DoneIsBound
    <2>3. c.delegate # None
      <3>1. c \in Call
        BY DEF TypeOK, Calls
      <3> QED
        BY <3>1, CallFields, RegistryAssumption
    <2> QED
      BY <2>1, <2>2, <2>3 DEF Bound
  <1> QED
    BY <1>1, BindingsAlways, PTL

\* A call ends early only at a name that is taken, and stays taken, or at an
\* instance that has none.
THEOREM RefusedRightly == Spec => []RefusedForTaken
  <1>1. Bindings => RefusedForTaken
    BY DEF Bindings
  <1> QED
    BY <1>1, BindingsAlways, PTL

-----------------------------------------------------------------------------
(* What a lookup has found                                                 *)

\* A call that has come to a name has come to it for good.
LEMMA RegistrationsStay ==
    ASSUME TypeOK, [Next]_vars, NEW c \in Calls, NEW n, Registers(c, n)
    PROVE  \E d \in Calls' : /\ d.registry = c.registry /\ d.delegate = c.delegate
                             /\ Registers(d, n)
  <1>1. CASE RegisterNext
    <2>1. PICK b \in call : call' = {Advanced(b)}
      BY <1>1 DEF RegisterNext
    <2>2. accepted' = accepted /\ refused' = refused /\ call = {b} /\ b \in Call
      BY <1>1 DEF RegisterNext, TypeOK
    <2>3. Registers(b, n) => Registers(Advanced(b), n)
      BY <2>2, CallFields DEF Registers, Advanced
    <2> QED
      BY <2>1, <2>2, <2>3 DEF Calls, Advanced
  <1>2. CASE RegisterRefused \/ RegisterPanics \/ RegisterDone
    <2>1. c \in Calls'
      BY <1>2 DEF RegisterRefused, RegisterPanics, RegisterDone, Calls, TypeOK
    <2> QED
      BY <2>1
  <1>3. CASE Register
    <2>1. c \in Calls'
      BY <1>3 DEF Register, Calls
    <2> QED
      BY <2>1
  <1>4. CASE Lookup \/ UNCHANGED vars
    <2>1. c \in Calls'
      BY <1>4 DEF Lookup, vars, Calls
    <2> QED
      BY <2>1
  <1> QED
    BY <1>1, <1>2, <1>3, <1>4 DEF Next

\* Every step keeps what was found.
LEMMA StepAnswers ==
    TypeOK /\ Bindings /\ AnswerLasts /\ [Next]_vars => AnswerLasts'
  <1> SUFFICES ASSUME TypeOK, Bindings, AnswerLasts, [Next]_vars,
                      NEW a \in answer', a.delegate # None
               PROVE  /\ Bound(a.registry, a.type)' = a.delegate
                      /\ \E c \in Calls' : /\ c.registry = a.registry
                                           /\ c.delegate = a.delegate
                                           /\ Registers(c, TypeOf(a.type))
    BY DEF AnswerLasts, TypeOf, Registers
  <1>1. CASE Lookup
    <2>1. PICK r \in Registry, t \in Types :
            answer' = {[registry |-> r, type |-> t, delegate |-> Bound(r, t)]}
      BY <1>1 DEF Lookup
    <2>2. a.registry = r /\ a.type = t /\ a.delegate = Bound(r, t)
      BY <2>1
    <2>3. UNCHANGED <<bound, call, accepted, refused>>
      BY <1>1 DEF Lookup
    <2>4. TypeOf(t) \in Names
      BY DEF TypeOf, Names
    <2>5. \E c \in Calls : /\ c.registry = r /\ Registers(c, TypeOf(t))
                           /\ c.delegate = bound[r][TypeOf(t)]
      BY <2>2, <2>4 DEF Bindings, BoundBySome, Bound
    <2> QED
      BY <2>2, <2>3, <2>5 DEF Bound, Calls
  <1>2. CASE answer' = answer
    <2>1. /\ Bound(a.registry, a.type) = a.delegate
          /\ \E c \in Calls : /\ c.registry = a.registry
                              /\ c.delegate = a.delegate
                              /\ Registers(c, TypeOf(a.type))
      BY <1>2 DEF AnswerLasts
    <2>2. a.registry \in Registry /\ TypeOf(a.type) \in Names
      BY <1>2 DEF TypeOK, TypeOf, Names
    <2>3. Bound(a.registry, a.type)' = a.delegate
      BY <2>1, <2>2, BindingsStay DEF Bound
    <2> QED
      BY <2>1, <2>3, RegistrationsStay
  <1> QED
    BY <1>1, <1>2 DEF Next, vars, Register, RegisterNext, RegisterRefused,
                      RegisterPanics, RegisterDone

\* A delegate that a lookup has found is the one it would find ever after, and a
\* registration of that name has bound it.
THEOREM AnswersLast == Spec => []AnswerLasts
  <1>1. Init => AnswerLasts
    BY DEF Init, AnswerLasts
  <1> QED
    BY <1>1, BindingsAlways, StepAnswers, PTL DEF Spec
=============================================================================
