--------------------------- MODULE MCNativeRunner ---------------------------
(* NativeRunner for TLC: two tool calls of one function and one of a       *)
(* function that does not exist, a reply of each shape, results short and  *)
(* long, and limits low enough that each is reached.                       *)
EXTENDS NativeRunner

CONSTANTS t1, t2, read, reread, unknown, blank

Names == [c \in {read, reread, unknown, blank} |->
            CASE c \in {read, reread} -> "read" [] c = unknown -> "unknown" [] c = blank -> ""]

C(id, tool) == [id |-> id, tool |-> tool]
R(found, shown) == [found |-> found, shown |-> shown]

Two  == <<C("1", read), C("2", reread)>>
Mess == <<C("1", read), C("2", blank), C("1", read), C("2", unknown)>>
Bare == <<C("", read), C("", reread)>>    \* without ids: the second is dropped

Shapes == {
  R(<<>>, <<<<>>>>),                        \* the final one
  R(Two, <<Two>>),                          \* one message with its calls
  R(Mess, <<<<Mess[1]>>, <<>>, <<Mess[2]>>, <<Mess[4]>>>>),  \* items, a call found twice
  R(Bare, <<<<>>>>),                        \* only the text is shown
  R(<<C("1", reread)>>, <<>>)}              \* nothing is

TaskSymmetry == Permutations(Tasks)
=============================================================================
