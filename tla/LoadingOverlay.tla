--------------------------- MODULE LoadingOverlay ---------------------------
(***************************************************************************)
(* The overlay that keeps the user from tapping while a call is under way.  *)
(* Each notifier has one loading flag for all its calls; isLoadingProvider  *)
(* is their disjunction; IndexScreen listens to it and inserts or removes   *)
(* an overlay entry, which covers the screen from the next frame on.        *)
(*                                                                          *)
(* The other modules let a device make one call at a time where the overlay *)
(* is what keeps it from making two; this one says when that is so.         *)
(*                                                                          *)
(* A definition marked Faulty is not part of the model: it is a form of the *)
(* definition after it with a plausible fault, which some property refutes. *)
(***************************************************************************)
EXTENDS Naturals

CONSTANTS
    Call,       \* calls under way, at most
    Notifier,   \* the notifiers with a loading flag
    Keyboard,   \* those a text field calls when its text is submitted
    Early,      \* those that may reset the flag before the call returns
    Leaky,      \* those a call of which may throw and leave the flag set
    None,       \* no notifier
    MaxSubmits  \* bound: calls made from the keyboard

ASSUME ConstantsAssumption ==
    /\ Keyboard \subseteq Notifier /\ Early \subseteq Notifier /\ Leaky \subseteq Notifier
    /\ None \notin Notifier
    /\ MaxSubmits \in Nat

VARIABLES
    runs,       \* the notifier each call under way is of
    flag,       \* notifiers whose isLoading is set
    loading,    \* what isLoadingProvider last told its listener
    entry,      \* whether LoadingScreen has a controller, and its overlay entry
    drawn,      \* whether the entry is on the screen
    submits,    \* number of calls made from the keyboard
    covered,    \* calls during which the entry has been on the screen
    shared,     \* notifiers of which two calls have run at a time
    reset,      \* calls that have reset their flag early
    stuck       \* notifiers of which a call threw with the flag set

screenVars == <<loading, entry, drawn>>
vars == <<runs, flag, screenVars, submits, covered, shared, reset, stuck>>

Running == {c \in Call : runs[c] # None}

Init ==
    /\ runs = [c \in Call |-> None]
    /\ flag = {}
    /\ loading = FALSE
    /\ entry = FALSE
    /\ drawn = FALSE
    /\ submits = 0
    /\ covered = {}
    /\ shared = {}
    /\ reset = {}
    /\ stuck = {}

----------------------------------------------------------------------------
\* Faulty: sets the flag of the notifier that was called before.
StartLast(c, n) ==
    /\ c \notin Running
    /\ runs' = [runs EXCEPT ![c] = n]
    /\ flag' = flag \union {runs[c]}
    /\ UNCHANGED <<screenVars, covered, shared, reset, stuck>>

\* A call of notifier n starts: isLoading = true.
Start(c, n) ==
    /\ c \notin Running
    /\ runs' = [runs EXCEPT ![c] = n]
    /\ flag' = flag \union {n}
    /\ shared' = IF \E e \in Running : runs[e] = n THEN shared \union {n} ELSE shared
    /\ UNCHANGED <<screenVars, covered, reset, stuck>>

\* A button of the page, where the overlay does not cover it.
Tap(c, n) == ~drawn /\ Start(c, n) /\ UNCHANGED submits

\* The keyboard is above the overlay.
Submit(c, n) ==
    /\ n \in Keyboard /\ submits < MaxSubmits
    /\ submits' = submits + 1
    /\ Start(c, n)

\* A file that cannot be decoded: isLoading = false, and the loop goes on.
EarlyReset(c) ==
    /\ c \in Running \ reset /\ runs[c] \in Early
    /\ flag' = flag \ {runs[c]}
    /\ reset' = reset \union {c}
    /\ UNCHANGED <<runs, screenVars, submits, covered, shared, stuck>>

\* The call is over, and what was noted of it.
Over(c) ==
    /\ runs' = [runs EXCEPT ![c] = None]
    /\ covered' = covered \ {c}
    /\ reset' = reset \ {c}
    /\ UNCHANGED <<screenVars, submits, shared>>

\* Faulty: a failed call returns without its finally clause.
EndLeaving(c) ==
    /\ c \in Running
    /\ flag' \in {flag, flag \ {runs[c]}}
    /\ Over(c)
    /\ UNCHANGED stuck

\* finally: isLoading = false.
End(c) ==
    /\ c \in Running
    /\ flag' = flag \ {runs[c]}
    /\ Over(c)
    /\ UNCHANGED stuck

\* An exception where there is no try.
Throw(c) ==
    /\ c \in Running /\ runs[c] \in Leaky
    /\ stuck' = IF runs[c] \in flag THEN stuck \union {runs[c]} ELSE stuck
    /\ Over(c)
    /\ UNCHANGED flag

\* Faulty: the provider watches every notifier but one.
ListenBut ==
    \E n \in Notifier :
        /\ loading' = (flag \ {n} # {}) /\ loading' # loading
        /\ entry' = loading'
        /\ UNCHANGED <<runs, flag, drawn, submits, covered, shared, reset, stuck>>

\* isLoadingProvider: some notifier is loading.
IsLoading == flag # {}

\* isLoadingProvider changes, and IndexScreen shows or hides the overlay.
Listen ==
    /\ loading # IsLoading
    /\ loading' = IsLoading
    /\ entry' = loading'
    /\ UNCHANGED <<runs, flag, drawn, submits, covered, shared, reset, stuck>>

\* The next frame.
Frame ==
    /\ drawn # entry \/ (entry /\ ~(Running \subseteq covered))
    /\ drawn' = entry
    /\ covered' = IF entry THEN Running ELSE covered
    /\ UNCHANGED <<runs, flag, loading, entry, submits, shared, reset, stuck>>

\* The process is killed and started again.
Restart ==
    /\ runs' = [c \in Call |-> None]
    /\ flag' = {} /\ loading' = FALSE /\ entry' = FALSE /\ drawn' = FALSE
    /\ covered' = {} /\ shared' = {} /\ reset' = {} /\ stuck' = {}
    /\ UNCHANGED submits

Next ==
    \/ \E c \in Call :
          \/ \E n \in Notifier : Tap(c, n) \/ Submit(c, n)
          \/ EarlyReset(c) \/ End(c) \/ Throw(c)
    \/ Listen \/ Frame \/ Restart

Spec == Init /\ [][Next]_vars

\* Calls return, providers are recomputed and frames are drawn.
FairSpec ==
    Spec /\ (\A c \in Call : WF_vars(End(c))) /\ WF_vars(Listen) /\ WF_vars(Frame)

----------------------------------------------------------------------------
(* Properties.                                                              *)

TypeOK ==
    /\ runs \in [Call -> Notifier \union {None}]
    /\ flag \subseteq Notifier
    /\ loading \in BOOLEAN /\ entry \in BOOLEAN /\ drawn \in BOOLEAN
    /\ submits \in 0..MaxSubmits
    /\ covered \subseteq Call /\ reset \subseteq Call
    /\ shared \subseteq Notifier /\ stuck \subseteq Notifier

\* Once the overlay has come up over a call it stays until the call returns,
\* unless the call resets its flag early or shares its notifier with another.
CoverStays ==
    \A c \in covered :
        (\A e \in Call : runs[e] = runs[c] => e \notin reset) /\ runs[c] \notin shared => drawn

\* A tap joins a call under way only before the overlay is up, or when it came
\* down early: two calls the overlay covers never started one after the other.
TapsTakeTurns ==
    [][\A c \in Call : runs[c] = None /\ runs'[c] # None /\ runs'[c] \notin Keyboard =>
          \A e \in Running :
             e \notin covered \/ runs[e] \in shared \/ \E g \in reset : runs[g] = runs[e]]_vars

\* The overlay goes away in the end, unless a call left its flag set.
OverlayGoesAway == drawn ~> (~drawn \/ stuck # {})
=============================================================================
