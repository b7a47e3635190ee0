------------------------------ MODULE JniCall ------------------------------
(***************************************************************************)
(* One call of a native function by a Java thread, as the wrappers of      *)
(* Java_Ipi_Engine.cpp perform it: the arguments are converted one after   *)
(* the other, the native call is made inside the try blocks of the         *)
(* wrapper, its result is converted, and what was pinned is released.      *)
(*                                                                         *)
(* Calls share nothing of this (a wrapper keeps everything in locals), so  *)
(* one thread is enough; what calls do to shared objects is the subject of *)
(* NativeObjects.                                                          *)
(***************************************************************************)
EXTENDS Naturals, NativeApi

CONSTANT Functions   \* the signatures of the functions, see NativeApi

IsSignature(f) ==
  /\ f.args \in Seq(ArgKinds)
  /\ f.guards \subseteq {"standard", "range"}
  /\ f.bounded \in BOOLEAN
  /\ f.result \in ResultKinds

ASSUME FunctionsAssumption == \A f \in Functions : IsSignature(f)

\* Every function whose helper raises out_of_range catches it.
WellGuarded == \A f \in Functions : f.bounded => "range" \in f.guards

Refusable == Checked \cup {"text", "chars", "copied"}
Pinnable  == {"chars", "pinned"}

\* Nothing is refused, and no bound checked, once something is pinned.
PinsComeLast ==
  \A f \in Functions :
    /\ \A i, j \in 1 .. Len(f.args) :
         i < j /\ f.args[i] \in Pinnable => f.args[j] \notin Refusable
    /\ "range" \in f.guards =>
         \A i \in 1 .. Len(f.args) : f.args[i] \notin Pinnable

NoException == "none"
Exceptions  == {"NullPointerException", "OutOfMemoryError",
                "RuntimeException", "IllegalArgumentException",
                "IndexOutOfBoundsException"}

VARIABLES
  stage,    \* where the call is
  fn,       \* the signature of the function called
  given,    \* which arguments are null, as the C++ side sees them
  at,       \* the argument converted next
  pinned,   \* arguments whose characters or bytes are pinned in the JVM
  copies,   \* arguments of which a malloc copy exists
  outcome,  \* how the native call ended
  pending,  \* the Java exception raised in the JNI environment
  result,   \* what is handed back
  created   \* the call has created an object for its caller

vars == <<stage, fn, given, at, pinned, copies, outcome, pending, result,
          created>>

Stages   == {"convert", "native", "answer", "returned", "crashed"}
Outcomes == {"normal", "library", "invalid_argument", "out_of_range", "other"}

\* A proxy calls a function.  A number cannot be null; a receiver is null once
\* its proxy has been deleted.
Init ==
  /\ stage = "convert"
  /\ fn \in Functions
  /\ given \in {g \in [1 .. Len(fn.args) -> {"null", "set"}] :
                  \A i \in DOMAIN g : fn.args[i] = "scalar" => g[i] = "set"}
  /\ at = 1
  /\ pinned = {} /\ copies = {}
  /\ outcome = "normal" /\ pending = NoException
  /\ result = "null" /\ created = FALSE

-----------------------------------------------------------------------------
(* Converting the arguments.                                               *)

\* Argument "at" is of one of these kinds and is next to convert.
Converting(kinds) ==
  /\ stage = "convert" /\ at <= Len(fn.args)
  /\ fn.args[at] \in kinds

Converted == at' = at + 1 /\ UNCHANGED <<stage, pending>>

\* Return 0 before the native call, with an exception raised.
Refuse(exception) ==
  /\ stage' = "returned" /\ pending' = exception
  /\ UNCHANGED at

SameCall == UNCHANGED <<fn, given, outcome, result, created>>

PassOn ==
  /\ Converting(Unchecked \cup {"scalar"})
  /\ Converted
  /\ SameCall /\ UNCHANGED <<pinned, copies>>

\* Mutant: a reference is passed on without the check.
ConvertReferenceUnchecked ==
  /\ Converting(Checked)
  /\ Converted
  /\ SameCall /\ UNCHANGED <<pinned, copies>>

ConvertReference ==
  /\ Converting(Checked)
  /\ IF given[at] = "null" THEN Refuse("NullPointerException") ELSE Converted
  /\ SameCall /\ UNCHANGED <<pinned, copies>>

\* Mutant: a std::string made from a string without the check.
ConvertTextUnchecked ==
  /\ Converting({"text"})
  /\ \/ Converted
     \/ given[at] = "set" /\ Refuse("OutOfMemoryError")
  /\ SameCall /\ UNCHANGED <<pinned, copies>>

\* A string that is copied to a std::string: pinned, copied and released.
ConvertText ==
  /\ Converting({"text"})
  /\ \/ given[at] = "null" /\ Refuse("NullPointerException")
     \/ given[at] = "set"  /\ Refuse("OutOfMemoryError")
     \/ given[at] = "set"  /\ Converted
  /\ SameCall /\ UNCHANGED <<pinned, copies>>

\* A string that is used as it is, and so stays pinned.  Null is allowed.
ConvertChars ==
  /\ Converting({"chars"})
  /\ \/ given[at] = "null" /\ Converted /\ UNCHANGED pinned
     \/ given[at] = "set"  /\ Converted /\ pinned' = pinned \cup {at}
     \/ given[at] = "set"  /\ Refuse("OutOfMemoryError") /\ UNCHANGED pinned
  /\ SameCall /\ UNCHANGED copies

\* A byte array that is copied with malloc.  When it cannot be pinned, the
\* copy already made is not freed.
ConvertCopied ==
  /\ Converting({"copied"})
  /\ \/ given[at] = "null" /\ Converted /\ UNCHANGED copies
     \/ given[at] = "set"  /\ Refuse("RuntimeException") /\ UNCHANGED copies
     \/ /\ given[at] = "set"
        /\ copies' = copies \cup {at}
        /\ Refuse("RuntimeException") \/ Converted
  /\ SameCall /\ UNCHANGED pinned

\* A byte array used in place.  Nothing checks that it could be pinned: the
\* call goes on with a null pointer and the exception raised.
ConvertPinned ==
  /\ Converting({"pinned"})
  /\ at' = at + 1
  /\ \/ given[at] = "null" /\ UNCHANGED <<given, pinned, pending>>
     \/ /\ given[at] = "set"
        /\ pinned' = pinned \cup {at}
        /\ UNCHANGED <<given, pending>>
     \/ /\ given[at] = "set"
        /\ given' = [given EXCEPT ![at] = "null"]
        /\ pending' = "OutOfMemoryError"
        /\ UNCHANGED pinned
  /\ UNCHANGED <<stage, fn, copies, outcome, result, created>>

-----------------------------------------------------------------------------
(* The native call.                                                        *)

EnterNative ==
  /\ stage = "convert" /\ at > Len(fn.args)
  /\ stage' = "native"
  /\ UNCHANGED <<fn, given, at, pinned, copies, outcome, pending, result,
                 created>>

NullUsed(kinds) ==
  \E i \in DOMAIN given : fn.args[i] \in kinds /\ given[i] = "null"

Crash ==
  /\ stage' = "crashed"
  /\ UNCHANGED <<fn, given, at, pinned, copies, pending, result, created>>

\* A null that has got as far as the native code is used there: a method called
\* on a null receiver, a member of a null object read, a std::string made from a
\* null pointer.  Only delete is defined for null.
CrashOnNull ==
  /\ stage = "native"
  /\ NullUsed(ArgKinds \ {"freed"})
  /\ Crash /\ UNCHANGED outcome

\* Mutant: the entry of the exception table that SWIG falls back to.
JavaExceptionOfUnknown(o) ==
  CASE o = "out_of_range"     -> "UnknownError"
    [] o = "invalid_argument" -> "IllegalArgumentException"
    [] OTHER                  -> "RuntimeException"

\* The Java exception that a wrapper makes of a C++ exception.
JavaExceptionOf(o) ==
  CASE o = "out_of_range"     -> "IndexOutOfBoundsException"
    [] o = "invalid_argument" -> "IllegalArgumentException"
    [] OTHER                  -> "RuntimeException"

\* Mutant: out_of_range taken for one of the exceptions of the outer block.
CaughtByOuterBlock(o) == CASE o = "other" -> "nothing"
                           [] OTHER       -> "standard"

CaughtBy(o) == CASE o = "out_of_range" -> "range"
                 [] o = "other"        -> "nothing"
                 [] OTHER              -> "standard"

\* Mutant: no return in the catch block.
NativeEndsFallsThrough(o) ==
  /\ stage = "native"
  /\ ~NullUsed({"pinned"})
  /\ NullUsed({"freed"}) => o = "normal"
  /\ outcome' = o
  /\ created' = (o = "normal" /\ fn.result = "made")
  /\ IF o = "normal" \/ CaughtBy(o) \in fn.guards
     THEN /\ stage' = "answer"
          /\ pending' = IF o = "normal" THEN pending ELSE JavaExceptionOf(o)
          /\ UNCHANGED <<fn, given, at, pinned, copies, result>>
     ELSE stage' = "crashed"
          /\ UNCHANGED <<fn, given, at, pinned, copies, pending, result>>

\* The native call ends, in any way: with a null receiver or argument too, for
\* it may be one that the library does not look at.  A pinned name is always
\* looked at, since the helpers hand it on as a C string.  An exception that is
\* caught becomes a Java exception and the wrapper returns 0 from inside the
\* catch block; one that is not leaves the wrapper and takes the process down.
\* Deleting null does nothing.
NativeEnds(o) ==
  /\ stage = "native"
  /\ ~NullUsed({"pinned"})
  /\ NullUsed({"freed"}) => o = "normal"
  /\ outcome' = o
  /\ IF o = "normal"
     THEN /\ stage' = "answer"
          /\ created' = (fn.result = "made")
          /\ UNCHANGED <<fn, given, at, pinned, copies, pending, result>>
     ELSE IF CaughtBy(o) \in fn.guards
     THEN /\ stage' = "returned"
          /\ pending' = JavaExceptionOf(o)
          /\ UNCHANGED <<fn, given, at, pinned, copies, result, created>>
     ELSE Crash

\* Mutant: characters are only released by the catch blocks.
AnswerKeepsPins ==
  /\ stage = "answer"
  /\ stage' = "returned"
  /\ created' = (created \/ fn.result = "fresh")
  /\ result' = "value"
  /\ UNCHANGED <<fn, given, at, pinned, copies, outcome, pending>>

\* The result is converted, then what the call pinned is released.  A text
\* may be null, or too large for a Java string to be made of it.
Answer ==
  /\ stage = "answer"
  /\ stage' = "returned"
  /\ created' = (created \/ fn.result = "fresh")
  /\ pinned' = {}
  /\ \/ result' = "value" /\ fn.result # "void" /\ UNCHANGED pending
     \/ result' = "null" /\ fn.result \in {"void", "text"} /\ UNCHANGED pending
     \/ /\ result' = "null" /\ fn.result = "text"
        /\ pending' = "OutOfMemoryError"
  /\ UNCHANGED <<fn, given, at, copies, outcome>>

Convert ==
  \/ PassOn \/ ConvertReference \/ ConvertText \/ ConvertChars
  \/ ConvertCopied \/ ConvertPinned

Next ==
  \/ Convert
  \/ EnterNative
  \/ CrashOnNull
  \/ \E o \in Outcomes : NativeEnds(o)
  \/ Answer

Spec == Init /\ [][Next]_vars

-----------------------------------------------------------------------------
TypeOK ==
  /\ stage \in Stages
  /\ IsSignature(fn)
  /\ at \in Nat \ {0}
  /\ pinned \subseteq Nat /\ copies \subseteq Nat
  /\ outcome \in Outcomes
  /\ pending \in Exceptions \cup {NoException}
  /\ result \in {"null", "value"}
  /\ created \in BOOLEAN
  /\ given \in [1 .. Len(fn.args) -> {"null", "set"}]

\* Native code never receives a null reference: whatever is passed by
\* reference or by value, or turned into a std::string, was checked in the
\* wrapper before the call, however many arguments come before it.
ReferencesAreChecked ==
  stage \in {"native", "answer"} => ~NullUsed(Checked \cup {"text"})

\* A Java caller gets an exception or an object, never both: an object that
\* the call had created would be lost, since no proxy is made of it.  After an
\* array that could not be pinned, whose exception is raised while the call goes
\* on, it relies on the library to look at the name that is null.
ExceptionExcludesResult ==
  (stage = "returned" /\ pending # NoException)
    => (result = "null" /\ ~created)

\* A bad index or count of a helper that checks it is an IndexOutOfBounds-
\* Exception in Java.  The standard try block does not catch out_of_range (it is
\* no runtime_error), so without the try block of its own such a helper would
\* end the process, as an out_of_range of any other function does.
BoundsErrorsReachJava ==
  outcome = "out_of_range" /\ fn.bounded
    => stage = "returned" /\ pending = "IndexOutOfBoundsException"

\* Characters and bytes stay pinned after a call only when the library raised
\* an exception: the return from a catch block skips their release.
PinsOutliveOnlyExceptions ==
  (stage = "returned" /\ pinned # {})
    => outcome \in {"library", "invalid_argument"}

\* The kinds of argument that may be null when the native code gets them.
PassedOnNull == {"self", "pointer", "chars", "copied", "pinned"}

\* The process goes down only for an exception of a class that no clause of the
\* wrapper names, or for a null that the wrapper has passed on: a deleted
\* receiver, an object by pointer, a C string, an array that was null or could
\* not be pinned.  It never does for a reference, a value or a std::string, nor
\* for an index or a count that a helper checks.
CrashIsExplained ==
  stage = "crashed" =>
    \/ outcome = "normal" /\ NullUsed(PassedOnNull)
    \/ outcome = "other"
    \/ outcome = "out_of_range" /\ ~fn.bounded
    \/ outcome \in {"library", "invalid_argument"} /\ "standard" \notin fn.guards

=============================================================================
