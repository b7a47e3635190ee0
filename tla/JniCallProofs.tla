--------------------------- MODULE JniCallProofs ---------------------------
(***************************************************************************)
(* The properties of a native call, for every set of signatures: what a    *)
(* new function must satisfy for the wrappers to keep them is stated as a  *)
(* condition on its signature (WellGuarded, PinsComeLast).                 *)
(***************************************************************************)
EXTENDS JniCall, TLAPS

-----------------------------------------------------------------------------
(* The inductive invariants.                                               *)

\* The call is of a known function; arguments are converted in order.
CallInv ==
  /\ fn \in Functions
  /\ stage \in {"native", "answer"} => at > Len(fn.args)

\* A number is not null, nor is what has been converted and was checked.
CheckedInv ==
  /\ \A i \in 1 .. Len(fn.args) :
       (i < at /\ fn.args[i] \in Checked \cup {"text"}
          /\ stage \in {"convert", "native", "answer"}) => given[i] = "set"
  /\ \A i \in 1 .. Len(fn.args) : fn.args[i] = "scalar" => given[i] = "set"

\* Before the native call nothing has been decided, except that an array that
\* could not be pinned has raised an exception and left a null behind.
OutcomeInv ==
  /\ stage \in {"convert", "native"} =>
       /\ outcome = "normal" /\ result = "null" /\ ~created
       /\ pending # NoException => NullUsed({"pinned"})
  /\ stage = "answer" =>
       /\ outcome = "normal" /\ result = "null" /\ pending = NoException
       /\ created => fn.result = "made"

\* Only arguments of the two kinds that stay pinned are, once converted.
PinInv ==
  stage \in {"convert", "native", "answer"} =>
    \A i \in pinned : i < at /\ i \in 1 .. Len(fn.args)
                        /\ fn.args[i] \in Pinnable

-----------------------------------------------------------------------------
(* Type correctness.                                                       *)

LEMMA InitType == Init => TypeOK /\ CallInv
<1> SUFFICES ASSUME Init PROVE TypeOK /\ CallInv
  OBVIOUS
<1>1. IsSignature(fn) /\ fn \in Functions
  BY FunctionsAssumption DEF Init
<1>2. given \in [1 .. Len(fn.args) -> {"null", "set"}]
  BY DEF Init
<1>3. /\ stage = "convert" /\ at = 1 /\ pinned = {} /\ copies = {}
      /\ outcome = "normal" /\ pending = NoException
      /\ result = "null" /\ created = FALSE
  BY DEF Init
<1>4. pending \in Exceptions \cup {NoException} /\ created \in BOOLEAN
  BY <1>3
<1>5. stage \in Stages /\ outcome \in Outcomes
  BY <1>3 DEF Stages, Outcomes
<1>6. at \in Nat \ {0} /\ pinned \subseteq Nat /\ copies \subseteq Nat
  BY <1>3
<1>7. CallInv
  BY <1>1, <1>3 DEF CallInv
<1> QED
  BY <1>1, <1>2, <1>3, <1>4, <1>5, <1>6, <1>7 DEF TypeOK

LEMMA StepType == TypeOK /\ CallInv /\ [Next]_vars => TypeOK' /\ CallInv'
<1> SUFFICES ASSUME TypeOK, CallInv, [Next]_vars PROVE TypeOK' /\ CallInv'
  OBVIOUS
<1> USE DEF TypeOK, CallInv, IsSignature, Stages, Outcomes, NoException,
            Exceptions, Converting, Converted, Refuse, SameCall
<1>0. Len(fn.args) \in Nat
  OBVIOUS
<1>1. CASE PassOn
  BY <1>1, <1>0 DEF PassOn
<1>2. CASE ConvertReference
  BY <1>2, <1>0 DEF ConvertReference
<1>3. CASE ConvertText
  BY <1>3, <1>0 DEF ConvertText
<1>4. CASE ConvertChars
  <2>1. pinned' \subseteq Nat /\ copies' \subseteq Nat
    BY <1>4, <1>0 DEF ConvertChars
  <2>2. given' \in [1 .. Len(fn.args) -> {"null", "set"}]
    BY <1>4, <1>0 DEF ConvertChars
  <2> QED
    BY <1>4, <1>0, <2>1, <2>2 DEF ConvertChars
<1>5. CASE ConvertCopied
  <2>1. pinned' \subseteq Nat /\ copies' \subseteq Nat
    BY <1>5, <1>0 DEF ConvertCopied
  <2>2. given' \in [1 .. Len(fn.args) -> {"null", "set"}]
    BY <1>5, <1>0 DEF ConvertCopied
  <2> QED
    BY <1>5, <1>0, <2>1, <2>2 DEF ConvertCopied
<1>6. CASE ConvertPinned
  <2>1. pinned' \subseteq Nat /\ copies' \subseteq Nat
    BY <1>6, <1>0 DEF ConvertPinned
  <2>2. given' \in [1 .. Len(fn.args) -> {"null", "set"}]
    BY <1>6, <1>0 DEF ConvertPinned
  <2> QED
    BY <1>6, <1>0, <2>1, <2>2 DEF ConvertPinned
<1>7. CASE EnterNative
  BY <1>7, <1>0 DEF EnterNative
<1>8. CASE CrashOnNull
  BY <1>8, <1>0 DEF CrashOnNull, Crash
<1>9. ASSUME NEW o \in Outcomes, NativeEnds(o) PROVE TypeOK' /\ CallInv'
  BY <1>9, <1>0 DEF NativeEnds, Crash, JavaExceptionOf
<1>10. CASE Answer
  BY <1>10, <1>0 DEF Answer
<1>11. CASE UNCHANGED vars
  BY <1>11, <1>0 DEF vars
<1> QED
  BY <1>1, <1>2, <1>3, <1>4, <1>5, <1>6, <1>7, <1>8, <1>9, <1>10, <1>11
  DEF Next, Convert

\* The state of a call keeps its type, and a wrapper raises no exception but
\* the five that the proxies know (SWIG_JavaThrowException).
THEOREM TypeInvariant == Spec => [](TypeOK /\ CallInv)
<1>1. TypeOK /\ CallInv /\ [Next]_vars => (TypeOK /\ CallInv)'
  BY StepType
<1> QED
  BY InitType, <1>1, PTL DEF Spec

-----------------------------------------------------------------------------
(* References.                                                             *)

LEMMA StepChecked ==
  TypeOK /\ CallInv /\ CheckedInv /\ [Next]_vars => CheckedInv'
<1> SUFFICES ASSUME TypeOK, CallInv, CheckedInv, [Next]_vars
             PROVE CheckedInv'
  OBVIOUS
<1> USE DEF TypeOK, CallInv, CheckedInv, IsSignature, Converting, Converted,
            Refuse, SameCall, Checked
<1>0. Len(fn.args) \in Nat
  OBVIOUS
<1>1. CASE PassOn
  BY <1>1, <1>0 DEF PassOn, Unchecked
<1>2. CASE ConvertReference
  BY <1>2, <1>0 DEF ConvertReference
<1>3. CASE ConvertText
  BY <1>3, <1>0 DEF ConvertText
<1>4. CASE ConvertChars
  BY <1>4, <1>0 DEF ConvertChars
<1>5. CASE ConvertCopied
  BY <1>5, <1>0 DEF ConvertCopied
<1>6. CASE ConvertPinned
  BY <1>6, <1>0 DEF ConvertPinned
<1>7. CASE EnterNative
  BY <1>7, <1>0 DEF EnterNative
<1>8. CASE CrashOnNull
  BY <1>8, <1>0 DEF CrashOnNull, Crash
<1>9. ASSUME NEW o \in Outcomes, NativeEnds(o) PROVE CheckedInv'
  BY <1>9, <1>0 DEF NativeEnds, Crash
<1>10. CASE Answer
  BY <1>10, <1>0 DEF Answer
<1>11. CASE UNCHANGED vars
  BY <1>11, <1>0 DEF vars
<1> QED
  BY <1>1, <1>2, <1>3, <1>4, <1>5, <1>6, <1>7, <1>8, <1>9, <1>10, <1>11
  DEF Next, Convert

LEMMA CheckedInvariant == Spec => []CheckedInv
<1>1. Init => CheckedInv
  BY FunctionsAssumption DEF Init, CheckedInv, IsSignature
<1> QED
  BY <1>1, StepChecked, TypeInvariant, PTL DEF Spec

\* No wrapper passes a null reference or a null string on to native code,
\* whatever the order of its arguments.
THEOREM ReferencesTheorem == Spec => []ReferencesAreChecked
<1>2. TypeOK /\ CallInv /\ CheckedInv => ReferencesAreChecked
  BY DEF TypeOK, CallInv, CheckedInv, ReferencesAreChecked, NullUsed,
         IsSignature
<1> QED
  BY <1>2, CheckedInvariant, TypeInvariant, PTL

-----------------------------------------------------------------------------
(* Exceptions and results.                                                 *)

LEMMA StepOutcome ==
  TypeOK /\ CallInv /\ OutcomeInv /\ [Next]_vars => OutcomeInv'
<1> SUFFICES ASSUME TypeOK, CallInv, OutcomeInv, [Next]_vars
             PROVE OutcomeInv'
  OBVIOUS
<1> USE DEF TypeOK, CallInv, OutcomeInv, IsSignature, Converting, Converted,
            Refuse, SameCall, NoException
<1>1. CASE PassOn
  BY <1>1 DEF PassOn, NullUsed
<1>2. CASE ConvertReference
  BY <1>2 DEF ConvertReference, NullUsed
<1>3. CASE ConvertText
  BY <1>3 DEF ConvertText, NullUsed
<1>4. CASE ConvertChars
  BY <1>4 DEF ConvertChars, NullUsed
<1>5. CASE ConvertCopied
  BY <1>5 DEF ConvertCopied, NullUsed
<1>6. CASE ConvertPinned
  BY <1>6 DEF ConvertPinned, NullUsed
<1>7. CASE EnterNative
  BY <1>7 DEF EnterNative, NullUsed
<1>8. CASE CrashOnNull
  BY <1>8 DEF CrashOnNull, Crash
<1>9. ASSUME NEW o \in Outcomes, NativeEnds(o) PROVE OutcomeInv'
  <2>1. stage = "native" /\ pending = NoException
    BY <1>9 DEF NativeEnds, NullUsed
  <2> QED
    BY <1>9, <2>1 DEF NativeEnds, Crash
<1>10. CASE Answer
  BY <1>10 DEF Answer
<1>11. CASE UNCHANGED vars
  BY <1>11 DEF vars, NullUsed
<1> QED
  BY <1>1, <1>2, <1>3, <1>4, <1>5, <1>6, <1>7, <1>8, <1>9, <1>10, <1>11
  DEF Next, Convert

LEMMA OutcomeInvariant == Spec => []OutcomeInv
<1>1. Init => OutcomeInv
  BY DEF Init, OutcomeInv
<1> QED
  BY <1>1, StepOutcome, TypeInvariant, PTL DEF Spec

LEMMA StepExcludes ==
  TypeOK /\ CallInv /\ OutcomeInv /\ ExceptionExcludesResult /\ [Next]_vars
    => ExceptionExcludesResult'
<1> SUFFICES ASSUME TypeOK, CallInv, OutcomeInv, ExceptionExcludesResult,
                    [Next]_vars
             PROVE ExceptionExcludesResult'
  OBVIOUS
<1> USE DEF ExceptionExcludesResult, OutcomeInv, NoException
<1>1. CASE Convert
  BY <1>1 DEF Convert, PassOn, ConvertReference, ConvertText, ConvertChars,
     ConvertCopied, ConvertPinned, Converting, Converted, Refuse, SameCall
<1>2. CASE EnterNative \/ CrashOnNull
  BY <1>2 DEF EnterNative, CrashOnNull, Crash
<1>3. ASSUME NEW o \in Outcomes, NativeEnds(o)
      PROVE ExceptionExcludesResult'
  BY <1>3 DEF NativeEnds, Crash
<1>4. CASE Answer
  BY <1>4 DEF Answer
<1>5. CASE UNCHANGED vars
  BY <1>5 DEF vars
<1> QED
  BY <1>1, <1>2, <1>3, <1>4, <1>5 DEF Next

\* A Java caller gets an exception or a result, never both, so no object is
\* created that no proxy can delete.
THEOREM ExclusionTheorem == Spec => []ExceptionExcludesResult
<1>1. Init => ExceptionExcludesResult
  BY DEF Init, ExceptionExcludesResult
<1> QED
  BY <1>1, StepExcludes, OutcomeInvariant, TypeInvariant, PTL DEF Spec

LEMMA StepBounds ==
  WellGuarded /\ CallInv /\ OutcomeInv /\ BoundsErrorsReachJava /\ [Next]_vars
    => BoundsErrorsReachJava'
<1> SUFFICES ASSUME WellGuarded, CallInv, OutcomeInv, BoundsErrorsReachJava,
                    [Next]_vars
             PROVE BoundsErrorsReachJava'
  OBVIOUS
<1> USE DEF BoundsErrorsReachJava, OutcomeInv
<1>1. CASE Convert
  BY <1>1 DEF Convert, PassOn, ConvertReference, ConvertText, ConvertChars,
     ConvertCopied, ConvertPinned, Converting, Converted, Refuse, SameCall
<1>2. CASE EnterNative \/ CrashOnNull
  BY <1>2 DEF EnterNative, CrashOnNull, Crash
<1>3. ASSUME NEW o \in Outcomes, NativeEnds(o) PROVE BoundsErrorsReachJava'
  <2>1. CASE o = "out_of_range" /\ fn.bounded
    <3>1. "range" \in fn.guards
      BY <2>1 DEF WellGuarded, CallInv
    <3> QED
      BY <1>3, <2>1, <3>1 DEF NativeEnds, CaughtBy, JavaExceptionOf
  <2>2. CASE o # "out_of_range" \/ ~fn.bounded
    BY <1>3, <2>2 DEF NativeEnds, Crash
  <2> QED
    BY <2>1, <2>2
<1>4. CASE Answer
  BY <1>4 DEF Answer
<1>5. CASE UNCHANGED vars
  BY <1>5 DEF vars
<1> QED
  BY <1>1, <1>2, <1>3, <1>4, <1>5 DEF Next

\* A bad index or count that a helper checks reaches Java as IndexOutOfBounds-
\* Exception, if every such helper is called in a try block for out_of_range.
THEOREM BoundsTheorem ==
  ASSUME WellGuarded PROVE Spec => []BoundsErrorsReachJava
<1>1. Init => BoundsErrorsReachJava
  BY DEF Init, BoundsErrorsReachJava
<1>2. CallInv /\ OutcomeInv /\ BoundsErrorsReachJava /\ [Next]_vars
        => BoundsErrorsReachJava'
  BY StepBounds
<1> QED
  BY <1>1, <1>2, OutcomeInvariant, TypeInvariant, PTL DEF Spec

\* A null that a native function uses is of a kind that wrappers pass on.
LEMMA NullsPassedOn ==
  ASSUME TypeOK, CallInv, CheckedInv, stage = "native",
         NullUsed(ArgKinds \ {"freed"})
  PROVE  NullUsed(PassedOnNull)
<1>1. PICK i \in DOMAIN given :
         fn.args[i] \in ArgKinds \ {"freed"} /\ given[i] = "null"
  BY DEF NullUsed
<1>2. i \in 1 .. Len(fn.args) /\ i < at
  BY DEF TypeOK, CallInv, IsSignature
<1>3. fn.args[i] \notin Checked \cup {"text", "scalar"}
  BY <1>1, <1>2 DEF CheckedInv
<1>4. fn.args[i] \in PassedOnNull
  BY <1>1, <1>3 DEF ArgKinds, Unchecked, Checked, PassedOnNull
<1> QED
  BY <1>1, <1>4 DEF NullUsed

LEMMA StepCrash ==
  WellGuarded /\ TypeOK /\ CallInv /\ CheckedInv /\ OutcomeInv
    /\ CrashIsExplained /\ [Next]_vars
    => CrashIsExplained'
<1> SUFFICES ASSUME WellGuarded, TypeOK, CallInv, CheckedInv, OutcomeInv,
                    CrashIsExplained, [Next]_vars
             PROVE CrashIsExplained'
  OBVIOUS
<1> USE DEF CrashIsExplained
<1>1. CASE Convert
  BY <1>1 DEF Convert, PassOn, ConvertReference, ConvertText, ConvertChars,
     ConvertCopied, ConvertPinned, Converting, Converted, Refuse, SameCall
<1>2. CASE EnterNative
  BY <1>2 DEF EnterNative
<1>3. CASE CrashOnNull
  <2>1. NullUsed(PassedOnNull) /\ outcome = "normal"
    BY <1>3, NullsPassedOn DEF CrashOnNull, OutcomeInv
  <2> QED
    BY <1>3, <2>1 DEF CrashOnNull, Crash, NullUsed
<1>4. ASSUME NEW o \in Outcomes, NativeEnds(o) PROVE CrashIsExplained'
  <2>1. CASE stage' # "crashed"
    BY <2>1
  <2>2. CASE stage' = "crashed"
    <3>1. /\ o # "normal" /\ outcome' = o /\ fn' = fn
          /\ CaughtBy(o) \notin fn.guards
      BY <1>4, <2>2 DEF NativeEnds, Crash
    <3>2. o = "out_of_range" => ~fn.bounded
      BY <3>1 DEF CaughtBy, WellGuarded, CallInv
    <3>3. o \in {"library", "invalid_argument"} => "standard" \notin fn.guards
      BY <3>1 DEF CaughtBy
    <3> QED
      BY <3>1, <3>2, <3>3 DEF Outcomes
  <2> QED
    BY <2>1, <2>2
<1>5. CASE Answer
  BY <1>5 DEF Answer
<1>6. CASE UNCHANGED vars
  BY <1>6 DEF vars, NullUsed
<1> QED
  BY <1>1, <1>2, <1>3, <1>4, <1>5, <1>6 DEF Next

\* The process goes down only for a null of a kind that is passed on or for an
\* exception the wrapper has no clause for: the checks of the wrappers keep
\* every other null, and every bad bound, away from it.
THEOREM CrashTheorem ==
  ASSUME WellGuarded PROVE Spec => []CrashIsExplained
<1>1. Init => CrashIsExplained
  BY DEF Init, CrashIsExplained
<1>2. TypeOK /\ CallInv /\ CheckedInv /\ OutcomeInv /\ CrashIsExplained
        /\ [Next]_vars => CrashIsExplained'
  BY StepCrash
<1> QED
  BY <1>1, <1>2, CheckedInvariant, OutcomeInvariant, TypeInvariant, PTL
  DEF Spec

-----------------------------------------------------------------------------
(* Pins.                                                                   *)

LEMMA StepPin == TypeOK /\ CallInv /\ PinInv /\ [Next]_vars => PinInv'
<1> SUFFICES ASSUME TypeOK, CallInv, PinInv, [Next]_vars PROVE PinInv'
  OBVIOUS
<1>0. Len(fn.args) \in Nat /\ at \in Nat \ {0}
  BY DEF TypeOK, IsSignature
<1> USE DEF PinInv, Converting, Converted, Refuse, SameCall, Pinnable
<1>1. CASE PassOn \/ ConvertReference \/ ConvertText \/ ConvertCopied
  BY <1>1, <1>0 DEF PassOn, ConvertReference, ConvertText, ConvertCopied
<1>2. CASE ConvertChars
  <2>1. at \in 1 .. Len(fn.args) /\ fn.args[at] \in Pinnable
    BY <1>2, <1>0 DEF ConvertChars
  <2> QED
    BY <1>2, <1>0, <2>1 DEF ConvertChars
<1>3. CASE ConvertPinned
  <2>1. at \in 1 .. Len(fn.args) /\ fn.args[at] \in Pinnable
    BY <1>3, <1>0 DEF ConvertPinned
  <2> QED
    BY <1>3, <1>0, <2>1 DEF ConvertPinned
<1>4. CASE EnterNative \/ CrashOnNull
  BY <1>4, <1>0 DEF EnterNative, CrashOnNull, Crash
<1>5. ASSUME NEW o \in Outcomes, NativeEnds(o) PROVE PinInv'
  BY <1>5, <1>0 DEF NativeEnds, Crash
<1>6. CASE Answer
  BY <1>6 DEF Answer
<1>7. CASE UNCHANGED vars
  BY <1>7 DEF vars
<1> QED
  BY <1>1, <1>2, <1>3, <1>4, <1>5, <1>6, <1>7 DEF Next, Convert

LEMMA StepPinsOutlive ==
  WellGuarded /\ PinsComeLast /\ TypeOK /\ CallInv /\ OutcomeInv /\ PinInv
    /\ PinsOutliveOnlyExceptions /\ [Next]_vars
    => PinsOutliveOnlyExceptions'
<1> SUFFICES ASSUME WellGuarded, PinsComeLast, TypeOK, CallInv, OutcomeInv,
                    PinInv, PinsOutliveOnlyExceptions, [Next]_vars
             PROVE PinsOutliveOnlyExceptions'
  OBVIOUS
<1> USE DEF PinsOutliveOnlyExceptions
<1>0. fn \in Functions /\ Len(fn.args) \in Nat /\ at \in Nat \ {0}
  BY DEF TypeOK, CallInv, IsSignature
<1>1. CASE Convert
  <2>1. CASE stage' # "returned"
    BY <2>1
  <2>2. CASE stage' = "returned"
    <3>1. at \in 1 .. Len(fn.args) /\ fn.args[at] \in Refusable
            /\ pinned' = pinned /\ stage = "convert"
      BY <1>0, <1>1, <2>2 DEF Convert, PassOn, ConvertReference, ConvertText,
         ConvertChars, ConvertCopied, ConvertPinned, Converting, Converted,
         Refuse, SameCall, Refusable, TypeOK
    <3>2. \A i \in pinned : i \in 1 .. Len(fn.args) /\ i < at
                              /\ fn.args[i] \in Pinnable
      BY <3>1 DEF PinInv
    <3>3. pinned = {}
      BY <1>0, <3>1, <3>2 DEF PinsComeLast
    <3> QED
      BY <3>1, <3>3
  <2> QED
    BY <2>1, <2>2
<1>2. CASE EnterNative \/ CrashOnNull
  BY <1>2 DEF EnterNative, CrashOnNull, Crash
<1>3. ASSUME NEW o \in Outcomes, NativeEnds(o)
      PROVE PinsOutliveOnlyExceptions'
  <2>1. CASE stage' # "returned"
    BY <2>1
  <2>2. CASE stage' = "returned" /\ o = "out_of_range"
    <3>1. "range" \in fn.guards /\ stage = "native" /\ pinned' = pinned
      BY <1>3, <2>2 DEF NativeEnds, CaughtBy, Crash
    <3>2. pinned = {}
      BY <1>0, <3>1 DEF PinsComeLast, PinInv
    <3> QED
      BY <3>1, <3>2
  <2>3. CASE stage' = "returned" /\ o # "out_of_range"
    BY <1>0, <1>3, <2>3 DEF NativeEnds, CaughtBy, Outcomes, Crash, TypeOK,
       IsSignature
  <2> QED
    BY <2>1, <2>2, <2>3
<1>4. CASE Answer
  BY <1>4 DEF Answer
<1>5. CASE UNCHANGED vars
  BY <1>5 DEF vars
<1> QED
  BY <1>1, <1>2, <1>3, <1>4, <1>5 DEF Next

\* Characters stay pinned only after an exception of the library, provided
\* that no wrapper pins one argument before it can refuse another.
THEOREM PinsTheorem ==
  ASSUME WellGuarded, PinsComeLast PROVE Spec => []PinsOutliveOnlyExceptions
<1>1. Init => PinInv /\ PinsOutliveOnlyExceptions
  BY DEF Init, PinInv, PinsOutliveOnlyExceptions
<1>2. TypeOK /\ CallInv /\ OutcomeInv /\ PinInv /\ PinsOutliveOnlyExceptions
        /\ [Next]_vars => PinsOutliveOnlyExceptions'
  BY StepPinsOutlive
<1> QED
  BY <1>1, <1>2, StepPin, OutcomeInvariant, TypeInvariant, PTL DEF Spec

=============================================================================
