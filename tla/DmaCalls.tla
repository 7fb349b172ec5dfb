------------------------------ MODULE DmaCalls ------------------------------
(***************************************************************************)
(* What a DMA engine promises the programs that read and write it: the     *)
(* pieces of a call are moved in order, each of them once; a call that     *)
(* returns has moved at least what it says it has, exactly that when it    *)
(* was not cut short, and nothing of it moves after a complete return.  Of *)
(* a call cut short, the piece that was on its way may still move.         *)
(* No descriptor, interrupt, lock or register appears.                     *)
(***************************************************************************)
EXTENDS Integers, Sequences, FiniteSetsExt

CONSTANTS
  Reqs,      \* the calls
  Sizes,     \* the numbers of pieces a call may have
  MaxLen,    \* the largest piece
  Pending    \* the return value of a call that has not returned

VARIABLES
  pieces,  \* pieces each call is made of
  moved,   \* lengths of the pieces moved for each call, in order
  ret,     \* what each call returned: data moved, 0 or less for an error
  late     \* a piece of the call moved after its return

vars == <<pieces, moved, ret, late>>

\* Data in the first j pieces of a call.
DataIn(r, j) == MapThenSumSet(LAMBDA i : moved[r][i], 1 .. j)

Init ==
  /\ pieces \in [Reqs -> Sizes]
  /\ moved = [r \in Reqs |-> <<>>]
  /\ ret   = [r \in Reqs |-> Pending]
  /\ late  = [r \in Reqs |-> FALSE]

Move(r, len) ==
  /\ Len(moved[r]) < pieces[r]
  /\ ret[r] # Pending => ~late[r]
  /\ moved' = [moved EXCEPT ![r] = Append(@, len)]
  /\ late'  = [late EXCEPT ![r] = ret[r] # Pending]
  /\ UNCHANGED <<pieces, ret>>

\* All of the call has moved and the call says so.
Complete(r) ==
  /\ ret[r] = Pending
  /\ Len(moved[r]) = pieces[r]
  /\ ret' = [ret EXCEPT ![r] = DataIn(r, pieces[r])]
  /\ UNCHANGED <<pieces, moved, late>>

\* The call is cut short: it reports a part of what has moved, or an error.
CutShort(r) ==
  /\ ret[r] = Pending
  /\ \E j \in 0 .. Len(moved[r]), error \in {0, -1, -2, -3} :
       ret' = [ret EXCEPT ![r] = IF j = 0 THEN error ELSE DataIn(r, j)]
  /\ UNCHANGED <<pieces, moved, late>>

Next == \E r \in Reqs : \/ \E len \in 1 .. MaxLen : Move(r, len)
                        \/ Complete(r)
                        \/ CutShort(r)

Spec == Init /\ [][Next]_vars
=============================================================================
