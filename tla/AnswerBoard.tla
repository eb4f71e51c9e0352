------------------------------ MODULE AnswerBoard ------------------------------
(***************************************************************************)
(* What a guest of haiku-daemon relies on when it reads the host's note.   *)
(* While one host run is at work at a time the note is a window on a list  *)
(* of answers that only grows: a write puts answers to posted turns below  *)
(* those that are there, each turn once and with rising numbers, and takes *)
(* answers away only at the top of a full board. Once runs have overlapped *)
(* a write may replace the board, but it still shows rising numbers and    *)
(* answers nothing that was not asked.                                     *)
(***************************************************************************)
EXTENDS Naturals, Sequences

CONSTANTS Guests, RingMax

VARIABLES
  posted,  (* posted[g]: the turns guest g has posted are 1..posted[g] *)
  board,   (* the answers in the note, the oldest first                *)
  alone    (* no host run was started beside a live one                *)

vars == <<posted, board, alone>>

Init == posted = [g \in Guests |-> 0] /\ board = <<>> /\ alone = TRUE

OnBoard(a) == \E i \in DOMAIN board : board[i].ask = a
IsPosted(a) == a[1] \in Guests /\ a[2] \in 1..posted[a[1]]

Post(g) == posted' = [posted EXCEPT ![g] = @ + 1] /\ UNCHANGED board

(* The answers from n + 1 on are new.                                      *)
Adds(n) ==
  \A j \in (n + 1)..Len(board') :
    /\ IsPosted(board'[j].ask) /\ ~OnBoard(board'[j].ask)
    /\ \A i \in DOMAIN board : board[i].seq < board'[j].seq
    /\ \A i \in (n + 1)..(j - 1) :
         board'[i].seq < board'[j].seq /\ board'[i].ask # board'[j].ask

(* A write drops the k oldest answers and adds some.                       *)
Write ==
  \E k \in 0..Len(board) :
    /\ SubSeq(board', 1, Len(board) - k) = SubSeq(board, k + 1, Len(board))
    /\ k > 0 => Len(board') = RingMax
    /\ Adds(Len(board) - k)

(* A write of one of several runs.                                         *)
Replace ==
  /\ ~alone' /\ Len(board') <= RingMax
  /\ \A i \in DOMAIN board' : IsPosted(board'[i].ask)
  /\ \A i, j \in DOMAIN board' : i < j => board'[i].seq < board'[j].seq

Next ==
  /\ alone' => alone
  /\ \/ UNCHANGED <<posted, board>>
     \/ \E g \in Guests : Post(g)
     \/ UNCHANGED posted /\ Len(board') <= RingMax /\ (Write \/ Replace)

Spec == Init /\ [][Next]_vars
=============================================================================
