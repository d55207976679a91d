------------------------ MODULE LoadingOverlay_proofs ------------------------
(* What holds of LoadingOverlay for any calls and notifiers, whichever of    *)
(* them reset early, throw or are called from the keyboard.                  *)
EXTENDS LoadingOverlay, TLAPS

\* A call nothing resets but its own end: no other call has shared its
\* notifier, and no call of the notifier has reset the flag early.
Steady(c) ==
    /\ runs[c] \notin shared
    /\ \A e \in Call : runs[e] = runs[c] => e \notin reset

\* Why CoverStays holds: the flag of a steady call is set from its start to its
\* end, so once the listener has seen a flag it sees one as long as the call
\* runs, and a frame drawn over the call keeps the overlay.
OverlayInv ==
    /\ entry = loading
    /\ covered \subseteq Running /\ reset \subseteq Running
    /\ \A c, e \in Running : c # e /\ runs[c] = runs[e] => runs[c] \in shared
    /\ \A c \in Running : Steady(c) => runs[c] \in flag
    /\ \A c \in covered : Steady(c) => entry /\ drawn

----------------------------------------------------------------------------
\* TypeOK: the state keeps its types, whatever calls start and however they end.
THEOREM TypeCorrect == Spec => []TypeOK
<1>1. Init => TypeOK
  <2>1. 0 \in 0..MaxSubmits
    BY ConstantsAssumption
  <2> QED  BY <2>1 DEF Init, TypeOK
<1>2. TypeOK /\ [Next]_vars => TypeOK'
  <2> SUFFICES ASSUME TypeOK, [Next]_vars PROVE TypeOK'
    OBVIOUS
  <2>1. ASSUME NEW c \in Call, NEW n \in Notifier, Start(c, n) PROVE
               /\ runs' \in [Call -> Notifier \union {None}]
               /\ flag' \subseteq Notifier /\ shared' \subseteq Notifier
               /\ UNCHANGED <<loading, entry, drawn, covered, reset, stuck>>
    BY <2>1 DEF TypeOK, Start, screenVars
  <2>2. ASSUME NEW c \in Call, NEW n \in Notifier, Tap(c, n) PROVE TypeOK'
    BY <2>1, <2>2 DEF TypeOK, Tap
  <2>3. ASSUME NEW c \in Call, NEW n \in Notifier, Submit(c, n) PROVE TypeOK'
    BY <2>1, <2>3, ConstantsAssumption DEF TypeOK, Submit
  <2>4. ASSUME NEW c \in Call, EarlyReset(c) PROVE TypeOK'
    BY <2>4 DEF TypeOK, EarlyReset, screenVars
  <2>5. ASSUME NEW c \in Call, End(c) PROVE TypeOK'
    BY <2>5 DEF TypeOK, End, Over, screenVars
  <2>6. ASSUME NEW c \in Call, Throw(c) PROVE TypeOK'
    BY <2>6 DEF TypeOK, Throw, Over, screenVars, Running
  <2>7. CASE Listen
    BY <2>7 DEF TypeOK, Listen, IsLoading
  <2>8. CASE Frame
    BY <2>8 DEF TypeOK, Frame, Running
  <2>9. CASE Restart
    BY <2>9 DEF TypeOK, Restart
  <2>10. CASE UNCHANGED vars
    BY <2>10 DEF TypeOK, vars, screenVars
  <2> QED
    BY <2>2, <2>3, <2>4, <2>5, <2>6, <2>7, <2>8, <2>9, <2>10 DEF Next
<1> QED  BY <1>1, <1>2, PTL DEF Spec

----------------------------------------------------------------------------
\* A call that starts, by a tap or from the keyboard.
LEMMA StartKeepsOverlayInv ==
    ASSUME TypeOK, OverlayInv, NEW c \in Call, NEW n \in Notifier, Start(c, n)
    PROVE  OverlayInv'
<1>1. /\ runs' = [runs EXCEPT ![c] = n] /\ flag' = flag \union {n}
      /\ UNCHANGED <<loading, entry, drawn, covered, reset>>
      /\ c \notin Running /\ n # None
  BY ConstantsAssumption DEF Start, screenVars
<1>2. Running' = Running \union {c}
  BY <1>1 DEF Running, TypeOK
<1>3. \A e \in Running : e # c /\ runs'[e] = runs[e]
  BY <1>1 DEF TypeOK, Running
<1>4. runs'[c] = n
  BY <1>1 DEF TypeOK
<1>5. shared \subseteq shared' /\ \A e \in Running : runs[e] = n => n \in shared'
  BY DEF Start
<1>6. \A e \in Running : Steady(e)' => Steady(e) /\ runs[e] # n
  BY <1>1, <1>3, <1>5 DEF Steady, OverlayInv, Running
<1>7. \A d, e \in Running' : d # e /\ runs'[d] = runs'[e] => runs'[d] \in shared'
  BY <1>2, <1>3, <1>4, <1>5 DEF OverlayInv
<1>8. \A d \in Running' : Steady(d)' => runs'[d] \in flag'
  BY <1>1, <1>2, <1>3, <1>4, <1>6 DEF OverlayInv
<1>9. \A d \in covered' : Steady(d)' => entry' /\ drawn'
  BY <1>1, <1>6 DEF OverlayInv
<1> QED  BY <1>1, <1>2, <1>7, <1>8, <1>9 DEF OverlayInv

\* A call that is over, and its flag: only calls of its notifier lose it.
LEMMA OverKeepsOverlayInv ==
    ASSUME TypeOK, OverlayInv, NEW c \in Call, c \in Running, Over(c),
           flag' = flag \/ flag' = flag \ {runs[c]}
    PROVE  OverlayInv'
<1>1. /\ runs' = [runs EXCEPT ![c] = None]
      /\ covered' = covered \ {c} /\ reset' = reset \ {c}
      /\ UNCHANGED <<loading, entry, drawn, shared>>
  BY DEF Over, screenVars
<1>2. Running' = Running \ {c}
  BY <1>1 DEF Running, TypeOK
<1>3. \A e \in Running' : e # c /\ runs'[e] = runs[e]
  BY <1>1, <1>2 DEF TypeOK, Running
<1>4. \A e \in Running' : Steady(e)' => runs[e] # runs[c]
  BY <1>1, <1>2, <1>3 DEF Steady, OverlayInv
<1>5. \A e \in Running' : Steady(e)' => Steady(e)
  BY <1>1, <1>2, <1>3, <1>4 DEF Steady, OverlayInv, TypeOK
<1>6. \A d, e \in Running' : d # e /\ runs'[d] = runs'[e] => runs'[d] \in shared'
  BY <1>1, <1>2, <1>3 DEF OverlayInv
<1>7. \A e \in Running' : Steady(e)' => runs'[e] \in flag'
  BY <1>2, <1>3, <1>4, <1>5 DEF OverlayInv
<1>8. covered' \subseteq Running' /\ reset' \subseteq Running'
  BY <1>1, <1>2 DEF OverlayInv
<1>9. \A e \in covered' : Steady(e)' => entry' /\ drawn'
  BY <1>1, <1>5, <1>8 DEF OverlayInv
<1> QED  BY <1>1, <1>6, <1>7, <1>8, <1>9 DEF OverlayInv

LEMMA OverlayInvStep == TypeOK /\ OverlayInv /\ [Next]_vars => OverlayInv'
<1> SUFFICES ASSUME TypeOK, OverlayInv, [Next]_vars PROVE OverlayInv'
  OBVIOUS
<1>1. ASSUME NEW c \in Call, NEW n \in Notifier, Tap(c, n) \/ Submit(c, n)
      PROVE  OverlayInv'
  BY <1>1, StartKeepsOverlayInv DEF Tap, Submit
<1>2. ASSUME NEW c \in Call, EarlyReset(c) PROVE OverlayInv'
  <2>1. /\ Running' = Running /\ reset' = reset \union {c}
        /\ flag' = flag \ {runs[c]}
        /\ UNCHANGED <<runs, loading, entry, drawn, covered, shared>>
    BY <1>2 DEF EarlyReset, Running, screenVars
  <2>2. \A e \in Running : Steady(e)' => Steady(e) /\ runs[e] # runs[c]
    BY <2>1 DEF Steady
  <2> QED  BY <1>2, <2>1, <2>2 DEF OverlayInv, EarlyReset
<1>3. ASSUME NEW c \in Call, End(c) \/ Throw(c) PROVE OverlayInv'
  BY <1>3, OverKeepsOverlayInv DEF End, Throw
<1>4. CASE Listen \/ Frame
  <2>1. Running' = Running /\ UNCHANGED <<runs, flag, shared, reset>>
    BY <1>4 DEF Listen, Frame, Running
  <2>2. \A c \in Call : Steady(c)' <=> Steady(c)
    BY <2>1 DEF Steady
  <2>3. CASE Listen
    BY <2>1, <2>2, <2>3 DEF OverlayInv, Listen, IsLoading, Running
  <2>4. CASE Frame
    BY <2>1, <2>2, <2>4 DEF OverlayInv, Frame, Running
  <2> QED  BY <1>4, <2>3, <2>4
<1>5. CASE Restart
  <2>1. Running' = {} /\ covered' = {} /\ reset' = {} /\ entry' = loading'
    BY <1>5 DEF Restart, Running
  <2> QED  BY <2>1 DEF OverlayInv
<1>6. CASE UNCHANGED vars
  BY <1>6 DEF OverlayInv, Steady, Running, vars, screenVars
<1> QED  BY <1>1, <1>2, <1>3, <1>4, <1>5, <1>6 DEF Next

LEMMA OverlayInvariant == Spec => []OverlayInv
<1>1. Init => OverlayInv
  BY DEF Init, OverlayInv, Running
<1> QED  BY <1>1, OverlayInvStep, TypeCorrect, PTL DEF Spec

\* CoverStays: however calls of other notifiers come and go, the overlay does
\* not come down over a call that shares its notifier with none and resets
\* nothing early.
THEOREM CoverOutlastsCall == Spec => []CoverStays
<1>1. OverlayInv => CoverStays
  BY DEF OverlayInv, CoverStays, Steady
<1> QED  BY <1>1, OverlayInvariant, PTL

\* TapsTakeTurns: a tap never starts a call beside one the overlay covers,
\* except where that call's flag may have been reset before its end.
THEOREM TapsWaitForCover == Spec => TapsTakeTurns
<1> DEFINE Turn(c) ==
      runs[c] = None /\ runs'[c] # None /\ runs'[c] \notin Keyboard =>
          \A e \in Running :
             e \notin covered \/ runs[e] \in shared \/ \E g \in reset : runs[g] = runs[e]
<1>1. TypeOK /\ OverlayInv /\ [Next]_vars => [\A c \in Call : Turn(c)]_vars
  <2> SUFFICES ASSUME TypeOK, OverlayInv, Next, NEW c \in Call,
                      runs[c] = None, runs'[c] # None, runs'[c] \notin Keyboard,
                      NEW e \in covered, Steady(e)
               PROVE  FALSE
    BY DEF Steady
  <2>1. drawn
    BY DEF OverlayInv
  <2>2. \A d \in Call, n \in Notifier : Submit(d, n) => runs'[c] = runs[c] \/ runs'[c] = n
    BY DEF Submit, Start, TypeOK
  <2>3. \A d \in Call, n \in Notifier : ~Tap(d, n) /\ ~Submit(d, n)
    <3>1. \A d \in Call, n \in Notifier : ~Tap(d, n)
      BY <2>1 DEF Tap
    <3> QED  BY <2>2, <3>1 DEF Submit
  <2>4. \A d \in Call : ~EarlyReset(d) /\ ~End(d) /\ ~Throw(d)
    BY DEF EarlyReset, End, Throw, Over, TypeOK
  <2>5. ~Listen /\ ~Frame /\ ~Restart
    BY DEF Listen, Frame, Restart
  <2> QED  BY <2>3, <2>4, <2>5 DEF Next
<1> QED  BY <1>1, TypeCorrect, OverlayInvariant, PTL DEF Spec, TapsTakeTurns
=============================================================================
