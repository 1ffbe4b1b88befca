------------------------------ MODULE TfRWLock ------------------------------
(***************************************************************************)
(* What TfSpinRWMutex and TfBigRWMutex promise: many readers or one        *)
(* writer.  A lock held for reading can become one held for writing, and   *)
(* the other way round, without being given up in between.                 *)
(***************************************************************************)
CONSTANTS Threads, None

VARIABLES
  reading,   \* the threads that hold the lock for reading
  writing    \* the thread that holds it for writing, or None

Init == reading = {} /\ writing = None

AcquireRead(t) ==
  /\ writing = None
  /\ t \notin reading
  /\ reading' = reading \cup {t}
  /\ UNCHANGED writing

ReleaseRead(t) ==
  /\ t \in reading
  /\ reading' = reading \ {t}
  /\ UNCHANGED writing

AcquireWrite(t) ==
  /\ writing = None
  /\ reading = {}
  /\ writing' = t
  /\ UNCHANGED reading

ReleaseWrite(t) ==
  /\ writing = t
  /\ writing' = None
  /\ UNCHANGED reading

Upgrade(t) ==
  /\ writing = None
  /\ reading = {t}
  /\ writing' = t
  /\ reading' = {}

Downgrade(t) ==
  /\ writing = t
  /\ writing' = None
  /\ reading' = {t}

Next ==
  \E t \in Threads :
    \/ AcquireRead(t) \/ ReleaseRead(t) \/ AcquireWrite(t) \/ ReleaseWrite(t)
    \/ Upgrade(t) \/ Downgrade(t)

Spec == Init /\ [][Next]_<<reading, writing>>
=============================================================================
