-------------------------------- MODULE Jose --------------------------------
(***************************************************************************)
(* internal/jose: a compact token taken apart, and its dates as the int64  *)
(* they are converted to and the time.Time that is built of it.            *)
(*                                                                         *)
(* A token, its surrounding white space gone, is a record of               *)
(*   parts     the number of its "."-separated parts                       *)
(*   json      it starts with "{"                                          *)
(*   header    its JOSE header, None when the first part is not the        *)
(*             Base64URL (padded or not) of a JSON object or null          *)
(*   payload   its claims, None likewise; a number that no float64 holds   *)
(*             is one way for encoding/json to refuse them                 *)
(* The third part, the signature, is not looked at.                        *)
(* A member of header or payload is None when absent and Malformed when    *)
(* of another JSON type (null is one) or an empty string; an empty iss is  *)
(* a string like any other (WitSvid).                                      *)
(*                                                                         *)
(* Moments, written dates included, are whole numbers of ticks, two to the *)
(* second, since 1970: enough to tell a date from its truncation.  A       *)
(* written date is the float64 that encoding/json makes of the number: the *)
(* number itself up to 2^53, the float64 nearest to it beyond.             *)
(***************************************************************************)
EXTENDS Integers

CONSTANTS
    None,        \* no value
    Malformed,   \* a value of the wrong shape
    MaxSec,      \* the largest int64
    Epoch,       \* time.unixToInternal: the seconds from the year 1 to 1970
    Leeway       \* the tolerance for exp and nbf, in seconds

ASSUME WidthAssumption ==
    /\ MaxSec \in Nat /\ Epoch \in Nat /\ Leeway \in Nat \ {0}
    /\ Leeway < Epoch /\ Epoch < MaxSec

Decodes(t) == t.parts = 3 /\ ~t.json /\ t.header # None /\ t.payload # None

---------------------------------------------------------------------------

MinSec == -MaxSec - 1

\* The number of ticks to whole seconds, toward zero.
Truncated(date) == IF date >= 0 THEN date \div 2 ELSE -((-date) \div 2)

\* UnixClaim of a JSON number.  Go leaves int64(x) of a float64 that does not
\* fit to the implementation: amd64 yields the smallest int64, arm64 the
\* nearest one.
UnixClaim(build, date) ==
    LET sec == Truncated(date)
    IN  IF sec \in MinSec..MaxSec THEN sec
        ELSE IF build = "arm64" /\ date > 0 THEN MaxSec ELSE MinSec

\* Addition of two int64, the second of them positive.
Plus(a, b) == IF a + b > MaxSec THEN a + b - 2 * (MaxSec + 1) ELSE a + b

\* time.Unix(sec, 0) and time.Now() as time.Time keeps them, in ticks since the
\* year 1.
Unix(sec) == 2 * Plus(sec, Epoch)
Now(clock) == clock + 2 * Epoch

\* time.Now().Add(-leeway).After(time.Unix(exp, 0))
IsPast(build, exp, clock) ==
    Now(clock) - 2 * Leeway > Unix(UnixClaim(build, exp))

\* Mutant: the leeway is taken off, as for exp.
IsFutureLess(build, nbf, clock) ==
    Unix(UnixClaim(build, nbf)) > Now(clock) - 2 * Leeway

\* time.Unix(nbf, 0).After(time.Now().Add(leeway))
IsFuture(build, nbf, clock) ==
    Unix(UnixClaim(build, nbf)) > Now(clock) + 2 * Leeway

---------------------------------------------------------------------------

\* The dates a time.Time can hold: to the year 292 277 024 627.
Representable(date) == date \in (2 * MinSec)..(2 * (MaxSec - Epoch) + 1)
=============================================================================
