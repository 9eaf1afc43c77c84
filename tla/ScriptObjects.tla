--------------------------- MODULE ScriptObjects ---------------------------
(***************************************************************************)
(* Native objects in a script.  A script object wraps a native one and     *)
(* says who deletes it: the garbage collector, or a Variant.  Arguments    *)
(* of a call go from the first to the second and back.                     *)
(*                                                                         *)
(* A script runs in one thread and a native method never calls back, so a  *)
(* call is one action; the collector may run between any two.  An array    *)
(* argument stands for its elements, which are converted one by one.       *)
(***************************************************************************)
EXTENDS Naturals, Sequences, FiniteSets

CONSTANTS Native, NoNative,       \* native objects
          Wrapper,                \* script objects of registered classes
          Plain, Unsupported,     \* other values; those no Variant can hold
          MaxArguments

ASSUME NativeAssumption ==
  /\ NoNative \notin Native
  /\ Plain \notin Wrapper /\ Unsupported \notin Wrapper
  /\ MaxArguments \in Nat

VARIABLES created,      \* natives made so far
          deleted,      \* those deleted
          private,      \* the native each script object wraps
          ownership,    \* who deletes it: gc, or the variant
          property,     \* the native in a dynamic property of each native
          returned,     \* the native in the Variant that run() returned
          scripting,     \* the script has not ended
          undefined,    \* a deleted native has been used
          departed      \* natives whose ownership a call got wrong

wrapperVars == <<private, ownership>>
nativeVars  == <<created, deleted, property>>
scriptObjectVars == <<wrapperVars, nativeVars, returned, scripting, undefined, departed>>

Values      == Wrapper \cup {Plain, Unsupported}
ArgumentLists == UNION {[1 .. n -> Values] : n \in 0 .. MaxArguments}

(* Native objects with a script object. *)
Wrapping == {w \in Wrapper : private[w] # NoNative}
Alive    == created \ deleted

(* What is deleted with n: what its properties hold, and so on; the       *)
(* smallest set with n in it that properties do not lead out of.           *)
Properties(N) == {property[n] : n \in N} \ {NoNative}
DeletedWith(n) ==
  {m \in Native : \A N \in SUBSET Native : n \in N /\ Properties(N) \subseteq N => m \in N}

Delete(N) ==
  LET gone == UNION {DeletedWith(n) : n \in N \ {NoNative}} IN
  /\ deleted' = deleted \cup gone
  /\ undefined' = (undefined \/ gone \cap deleted # {})

ScriptObjectInit ==
  /\ created = {} /\ deleted = {} /\ departed = {}
  /\ private = [w \in Wrapper |-> NoNative]
  /\ ownership = [w \in Wrapper |-> "gc"]
  /\ property = [n \in Native |-> NoNative]
  /\ returned = NoNative
  /\ scripting = TRUE /\ undefined = FALSE

-----------------------------------------------------------------------------
(* fromValue(): the object goes to the Variant if the collector had it;    *)
(* else the Variant has a null object.  An argument list is converted from *)
(* the left, up to one that cannot be.                                     *)

HasUnsupported(args) == \E i \in DOMAIN args : args[i] = Unsupported

Converted(args) ==
  {args[i] : i \in {k \in DOMAIN args : \A j \in 1 .. k : args[j] # Unsupported}}

Taken(args) == {w \in Converted(args) \cap Wrapping : ownership[w] = "gc"}

NativeOf(args, i) ==
  IF args[i] \in Taken(args) /\ \A j \in 1 .. i - 1 : args[j] # args[i]
  THEN private[args[i]] ELSE NoNative

(* wrapInArguments() throws: the Variants made so far delete what they     *)
(* have taken, and the script objects still point there.                   *)
WrapInFails(args) ==
  /\ HasUnsupported(args)
  /\ Delete({private[w] : w \in Taken(args)})
  /\ ownership' = [w \in Wrapper |-> IF w \in Taken(args) THEN "variant" ELSE ownership[w]]
  /\ departed' = departed \cup {private[w] : w \in Taken(args)}
  /\ UNCHANGED <<created, property, private, returned, scripting>>

(* Mutant: arguments stay with the Variants that are gone. *)
WrappedOutKeeping(args) ==
  [w \in Wrapper |-> IF w \in Taken(args) THEN "variant" ELSE ownership[w]]

(* wrapOutArguments(), on every way out of the call: the Variants give up  *)
(* their objects, and every argument is the collector's, also one that was *)
(* not before. *)
WrappedOut(args) ==
  [w \in Wrapper |-> IF w \in Converted(args) \cap Wrapping THEN "gc" ELSE ownership[w]]

(* toValue() of an object: a new script object that owns it.  The class of *)
(* a native may not be registered; then nobody owns it.                    *)
Wraps(n, known) ==
  \/ (n = NoNative \/ ~known) /\ UNCHANGED private
  \/ /\ n # NoNative /\ known
     /\ \E w \in Wrapper \ Wrapping : private' = [private EXCEPT ![w] = n]

(* The wrong ones among the natives a call returns: those that have an     *)
(* owner already, and those no script object is made for.                  *)
Misplaced(n, known) ==
  IF n \in created \/ ~known THEN {n} \ {NoNative} ELSE {}

(* A native method: it throws or returns nothing, one of its arguments or  *)
(* the object it was called on (self), or a new object.                    *)
Invoke(args, self) ==
  /\ ~HasUnsupported(args)
  /\ ownership' = WrappedOut(args)
  /\ \E n \in {NoNative, self} \cup {NativeOf(args, i) : i \in DOMAIN args} \cup (Native \ created),
        known \in BOOLEAN :
       /\ n \in created => known
       /\ Wraps(n, known)
       /\ created' = created \cup ({n} \ {NoNative})
       /\ departed' = departed \cup Misplaced(n, known)
       /\ undefined' = (undefined \/ n \in deleted)
  /\ UNCHANGED <<deleted, property, returned, scripting>>

-----------------------------------------------------------------------------
(* The callbacks of the runtime. *)

Scripting == scripting /\ ~undefined

(* nativeObjectConstruct(): new C(args), or no constructor takes them. *)
NativeObjectConstruct ==
  /\ Scripting
  /\ \E args \in ArgumentLists :
       \/ WrapInFails(args)
       \/ /\ ~HasUnsupported(args)
          /\ ownership' = WrappedOut(args)
          /\ \E n \in {NoNative} \cup (Native \ created) :
               /\ Wraps(n, TRUE)
               /\ created' = created \cup ({n} \ {NoNative})
          /\ UNCHANGED <<deleted, property, returned, scripting, undefined, departed>>

(* nativeObjectOwnMethodCall(): w.f(args).  Who owns w is not looked at; a *)
(* prototype, which wraps nothing, is refused.                             *)
NativeObjectOwnMethodCall(w) ==
  /\ Scripting
  /\ w \in Wrapping
  /\ \E args \in ArgumentLists :
       \/ WrapInFails(args)
       \/ private[w] \in Alive /\ Invoke(args, private[w])
       \/ /\ ~HasUnsupported(args) /\ private[w] \in deleted
          /\ undefined' = TRUE
          /\ UNCHANGED <<wrapperVars, nativeVars, returned, scripting, departed>>

(* nativeObjectStaticMethodCall(): C.f(args) *)
NativeObjectStaticMethodCall ==
  /\ Scripting
  /\ \E args \in ArgumentLists : WrapInFails(args) \/ Invoke(args, NoNative)

(* nativeObjectDynamicGetter(): w.p takes the object out of the property.  *)
NativeObjectDynamicGetter(w) ==
  /\ Scripting
  /\ w \in Wrapping
  /\ LET n == private[w] IN
     \/ /\ n \in deleted
        /\ undefined' = TRUE
        /\ UNCHANGED <<wrapperVars, nativeVars>>
     \/ /\ n \in Alive /\ property[n] \in deleted
        /\ undefined' = TRUE
        /\ UNCHANGED <<wrapperVars, nativeVars>>
     \/ /\ n \in Alive /\ property[n] \notin deleted
        /\ Wraps(property[n], TRUE)
        /\ property' = [property EXCEPT ![n] = NoNative]
        /\ UNCHANGED <<created, deleted, ownership, undefined>>
  /\ UNCHANGED <<returned, scripting, departed>>

(* nativeObjectDynamicSetter(): w.p = v.  The old value is deleted, and    *)
(* nothing gives v back to the collector; a field of another type throws   *)
(* and deletes v.                                                          *)
NativeObjectDynamicSetter(w, v) ==
  /\ Scripting
  /\ w \in Wrapping /\ v # Unsupported
  /\ LET n == private[w]
         taken == Taken(<<v>>)
         new == NativeOf(<<v>>, 1)
     IN  /\ ownership' = [x \in Wrapper |-> IF x \in taken THEN "variant" ELSE ownership[x]]
         /\ departed' = departed \cup ({new} \ {NoNative})
         /\ \/ /\ n \in deleted
               /\ undefined' = TRUE
               /\ UNCHANGED <<deleted, property>>
            \/ /\ n \in Alive
               /\ property' = [property EXCEPT ![n] = new]
               /\ Delete({property[n]})
            \/ /\ n \in Alive
               /\ Delete({new})
               /\ UNCHANGED property
  /\ UNCHANGED <<created, private, returned, scripting>>

(* nativeObjectFinalize(): the collector may come for any script object.   *)
NativeObjectFinalize(w) ==
  /\ ~undefined
  /\ w \in Wrapping
  /\ IF ownership[w] = "gc" THEN Delete({private[w]}) ELSE UNCHANGED <<deleted, undefined>>
  /\ private' = [private EXCEPT ![w] = NoNative]
  /\ ownership' = [ownership EXCEPT ![w] = "gc"]
  /\ UNCHANGED <<created, property, returned, scripting, departed>>

(* The end of run(): the value of the script becomes a Variant of the      *)
(* caller's; the context is destroyed, and all script objects with it.     *)
EndScript(v) ==
  /\ Scripting
  /\ \/ v = Unsupported /\ UNCHANGED <<ownership, returned>>
     \/ /\ v # Unsupported
        /\ ownership' = [x \in Wrapper |-> IF x \in Taken(<<v>>) THEN "variant" ELSE ownership[x]]
        /\ returned' = NativeOf(<<v>>, 1)
  /\ scripting' = FALSE
  /\ UNCHANGED <<nativeVars, private, undefined, departed>>

(* The caller destroys it; the context went before run() returned.         *)
DropReturned ==
  /\ ~undefined /\ returned # NoNative /\ Wrapping = {}
  /\ Delete({returned})
  /\ returned' = NoNative
  /\ UNCHANGED <<wrapperVars, created, property, scripting, departed>>

ScriptObjectNext ==
  \/ NativeObjectConstruct \/ NativeObjectStaticMethodCall \/ DropReturned
  \/ \E w \in Wrapper :
       \/ NativeObjectOwnMethodCall(w) \/ NativeObjectDynamicGetter(w)
       \/ NativeObjectFinalize(w)
       \/ \E v \in Values : NativeObjectDynamicSetter(w, v)
  \/ \E v \in Values : EndScript(v)

ScriptObjectSpec == ScriptObjectInit /\ [][ScriptObjectNext]_scriptObjectVars

-----------------------------------------------------------------------------
NativesTypeOK ==
  /\ created \subseteq Native /\ deleted \subseteq created /\ departed \subseteq created
  /\ private \in [Wrapper -> created \cup {NoNative}]
  /\ ownership \in [Wrapper -> {"gc", "variant"}]
  /\ property \in [Native -> departed \cup {NoNative}]
  /\ returned \in created \cup {NoNative}
  /\ scripting \in BOOLEAN /\ undefined \in BOOLEAN

(* One script object at most wraps a native that no call has misplaced,    *)
(* and after the native is gone none does.                                 *)
WrappedOnce ==
  \A v, w \in Wrapping : private[v] = private[w] /\ private[v] \notin departed => v = w
Dangling ==
  \A n \in deleted \ departed : returned # n /\ \A w \in Wrapper : private[w] # n

(* The one that does owns it, but for the value of the script.             *)
Owns ==
  \A n \in Alive \ departed : returned # n => \E w \in Wrapper : private[w] = n /\ ownership[w] = "gc"
Gives ==
  \A w \in Wrapper : private[w] = returned /\ returned \notin departed => returned = NoNative \/ ownership[w] = "variant"

(* Inductive invariant of OneOwner. *)
OwnerInv ==
  /\ NativesTypeOK
  /\ WrappedOnce /\ Dangling /\ Owns /\ Gives
  /\ scripting => returned = NoNative
  /\ \A w \in Wrapper \ Wrapping : ownership[w] = "gc"
  /\ undefined => departed # {}

(* A native that no call has misplaced has exactly one owner until it is   *)
(* deleted, a script object or the Variant that run() returned: it is      *)
(* deleted once, never used afterwards and never leaked.  Misplaced are:   *)
(* an argument or this returned by a method, which gets a second script    *)
(* object; an object stored in a property, which the collector never gets  *)
(* back; the arguments before one that cannot be converted; an object of a *)
(* class that is not registered.                                           *)
OneOwner ==
  /\ undefined => departed # {}
  /\ \A n \in created \ departed :
       LET owners == {w \in Wrapping : private[w] = n /\ ownership[w] = "gc"}
       IN  IF n \in deleted
           THEN \A w \in Wrapping : private[w] # n
           ELSE IF returned = n THEN owners = {} ELSE Cardinality(owners) = 1
=============================================================================
