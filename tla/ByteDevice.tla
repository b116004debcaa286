----------------------------- MODULE ByteDevice -----------------------------
(***************************************************************************)
(* What the callers of sector_io rely on: a medium is an array of bytes,   *)
(* and a call on a range of it takes effect from one end of the range to   *)
(* the other, so that a call that stops with an error has dealt with a     *)
(* first part of the range (or with a last part, when a range is moved to  *)
(* a higher place) and left all the other bytes alone.                     *)
(***************************************************************************)
EXTENDS Integers

CONSTANTS
    Size,       \* bytes on the medium
    Grain,      \* relocate works in units of this many bytes
    Byte, Zero,
    Payloads,   \* what callers write: functions from 0 .. Size - 1 to bytes
    Contents    \* what the medium may hold at first

VARIABLES
    store,      \* the bytes
    call,       \* the call under way
    was,        \* the bytes when it was made
    ret,        \* "busy", or what the last call returned
    out         \* the bytes the last read returned

vars == <<store, call, was, ret, out>>

Addr == 0 .. Size - 1

Nothing == [a \in {} |-> Zero]
NoCall == [kind |-> "none", at |-> 0, from |-> 0, n |-> 0, data |-> Nothing]

\* The ranges inside the medium, and the calls on them.
Ranges == {r \in Addr \X (0 .. Size) : r[1] + r[2] <= Size}
Units == {r \in Ranges : r[1] % Grain = 0 /\ r[2] % Grain = 0}

Reads == {[kind |-> "read", at |-> r[1], from |-> 0, n |-> r[2],
           data |-> Nothing] : r \in Ranges}
Writes == {[kind |-> "write", at |-> r[1], from |-> 0, n |-> r[2], data |-> p] :
           r \in Ranges, p \in Payloads}
Zeros == {[kind |-> "zero", at |-> r[1], from |-> 0, n |-> r[2],
           data |-> Nothing] : r \in Ranges}
Moves == {[kind |-> "relocate", at |-> r[1], from |-> q[1], n |-> r[2],
           data |-> Nothing] : r \in Units, q \in Units}
Calls == Reads \cup Writes \cup Zeros \cup {c \in Moves : c.from + c.n <= Size}

\* Whether byte a is among the first m bytes call c deals with.
Reached(c, a, m) ==
    IF c.kind = "relocate" /\ c.at > c.from
    THEN a \in c.at + c.n - m .. c.at + c.n - 1
    ELSE a \in c.at .. c.at + m - 1

\* The byte call c wants at a.
Wanted(c, s, a) ==
    CASE c.kind = "write" -> c.data[a - c.at]
      [] c.kind = "zero" -> Zero
      [] c.kind = "relocate" -> s[a - c.at + c.from]
      [] OTHER -> s[a]

\* The medium, once call c has dealt with m bytes of its range.
After(c, s, m) ==
    [a \in Addr |-> IF Reached(c, a, m) THEN Wanted(c, s, a) ELSE s[a]]

Init ==
    /\ store \in Contents
    /\ call = NoCall
    /\ was = store
    /\ ret = "ok"
    /\ out = Nothing

Begin(c) ==
    /\ ret # "busy"
    /\ call' = c
    /\ was' = store
    /\ ret' = "busy"
    /\ out' = Nothing
    /\ UNCHANGED store

Proceed ==
    /\ ret = "busy"
    /\ \E m \in 0 .. call.n : store' = After(call, was, m)
    /\ UNCHANGED <<call, was, ret, out>>

Succeed ==
    /\ ret = "busy"
    /\ ret' = "ok"
    /\ store' = After(call, was, call.n)
    /\ out' = IF call.kind = "read"
              THEN [i \in 0 .. call.n - 1 |-> was[call.at + i]] ELSE Nothing
    /\ UNCHANGED <<call, was>>

Error ==
    /\ ret = "busy"
    /\ ret' = "EIO"
    /\ \E m \in 0 .. call.n : store' = After(call, was, m)
    /\ UNCHANGED <<call, was, out>>

Next == (\E c \in Calls : Begin(c)) \/ Proceed \/ Succeed \/ Error

Spec == Init /\ [][Next]_vars

=============================================================================
