------------------------------ MODULE NumCast ------------------------------
(***************************************************************************)
(* clst::num_cast: range-checked conversion between integer types.  The    *)
(* comparisons in it are those of C++, which converts both sides to a      *)
(* common type first; that is what can go wrong, and what is modelled.     *)
(***************************************************************************)
EXTENDS Integers

CONSTANTS
    Sizes,          \* the numbers of values that integer types have
    IntSize,        \* that of int, to which narrower types are promoted
    NoValue,        \* an empty std::optional
    Pending         \* the call has not returned

(* A type has 2^bits values: an even number, and a wider type has at least *)
(* twice as many.                                                          *)
ProperSizes ==
    /\ Sizes \subseteq Nat \ {0} /\ IntSize \in Nat \ {0}
    /\ \A m, n \in Sizes \cup {IntSize} : m % 2 = 0 /\ (m < n => 2 * m <= n)

Types == [size : Sizes, signed : BOOLEAN]

VARIABLES
    call,       \* the call in progress: [From, To, src]
    result      \* what num_cast() returned

vars == <<call, result>>

Lowest(t) == IF t.signed THEN -(t.size \div 2) ELSE 0
Highest(t) == Lowest(t) + t.size - 1
ValuesOf(t) == Lowest(t) .. Highest(t)

(* static_cast to type t: reduction modulo 2^bits into the range of t.     *)
Cast(v, t) == ((v - Lowest(t)) % t.size) + Lowest(t)

MakeSigned(t) == [t EXCEPT !.signed = TRUE]

Promoted(t) == IF t.size < IntSize THEN [size |-> IntSize, signed |-> TRUE] ELSE t

(* The type in which a binary operator compares: the wider one of the      *)
(* promoted types, the unsigned one if they are equally wide.              *)
Common(t, u) ==
    LET p == Promoted(t)
        q == Promoted(u)
    IN  IF p.size > q.size \/ (p.size = q.size /\ ~p.signed) THEN p ELSE q

(* x < y, for x of type t and y of type u.                                 *)
Less(x, t, y, u) == Cast(x, Common(t, u)) < Cast(y, Common(t, u))

CheckUpper(From, To) == Less(Highest(To), To, Highest(From), From)

(* MUTANT of CheckLower: "prevent 0u < -1 errors" is not done.             *)
CheckLowerPlain(From, To) == Less(Lowest(From), From, Lowest(To), To)

CheckLower(From, To) ==
    Less(Cast(Lowest(From), MakeSigned(From)), MakeSigned(From),
         Cast(Lowest(To), MakeSigned(To)), MakeSigned(To))

OutOfRange(From, To, src) ==
    \/ CheckUpper(From, To) /\ Less(Highest(To), To, src, From)
    \/ CheckLower(From, To) /\ Less(src, From, Cast(Lowest(To), MakeSigned(To)), MakeSigned(To))

num_cast(From, To, src) == IF OutOfRange(From, To, src) THEN NoValue ELSE Cast(src, To)

(* The form without std::optional, by which num_cast_ex() is noexcept.     *)
is_lossless_num_cast(From, To) == ~CheckUpper(From, To) /\ ~CheckLower(From, To)

Init ==
    /\ \E From \in Types, To \in Types :
        \E src \in ValuesOf(From) : call = [From |-> From, To |-> To, src |-> src]
    /\ result = Pending

Return ==
    /\ result = Pending
    /\ result' = num_cast(call.From, call.To, call.src)
    /\ UNCHANGED call

Next == Return

Spec == Init /\ [][Next]_vars

-----------------------------------------------------------------------------
(* For every pair of types, across promotion and mixed signs: the result   *)
(* is the same number if the target type has it, and empty otherwise; and  *)
(* the type says "lossless" (num_cast_ex cannot throw out of a noexcept    *)
(* function, and its check is not done in vain) exactly when every value   *)
(* of the source type fits.                                                *)
CastIsExact ==
    /\ result # Pending =>
        result = IF call.src \in ValuesOf(call.To) THEN call.src ELSE NoValue
    /\ is_lossless_num_cast(call.From, call.To)
        <=> ValuesOf(call.From) \subseteq ValuesOf(call.To)

=============================================================================
