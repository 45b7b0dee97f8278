---------------------------- MODULE SourceThread ----------------------------
(***************************************************************************)
(* What every time source is (TimeSource.h): an object with a thread of    *)
(* its own, and three flags by which the main thread stops it, parks it or *)
(* sends it back to start over.  NtpPeer and SourceLink are the two kinds. *)
(***************************************************************************)
VARIABLES
  running,    \* m_running: the thread's life, cleared by stop()
  active,     \* m_active: whether it should be connected, by setActive()
  reacquire,  \* m_reacquire: whether it should start over, by requestReacquire()
  pc          \* where the thread is
=============================================================================
