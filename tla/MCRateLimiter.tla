--------------------------- MODULE MCRateLimiter ---------------------------
(* A small instance of the token bucket for TLC. *)
EXTENDS RateLimiter

\* Windows and pauses longer than this show nothing new.
CONSTANT MaxElapsed

ShortWindows == elapsed <= MaxElapsed /\ jumped <= MaxElapsed /\ quiet <= MaxElapsed
============================================================================
