---------------------------- MODULE MCXReceiver ----------------------------
(***************************************************************************)
(* XReceiver with two accounts and two indices.  Announcements that differ *)
(* only in ann_no are repetitions of each other.                           *)
(***************************************************************************)
EXTENDS XReceiver

CONSTANTS Alice, Bob, block, junk

MkAnn(no, i, acc) == [ann_no |-> no, ann_index |-> i, account |-> acc]

MCAnn == {MkAnn(0, 1, Alice), MkAnn(1, 1, Alice), MkAnn(2, 2, Alice), MkAnn(0, 1, Bob)}
MCNetBlock == {block}
MCGarbled == {junk}
MCIndex == {1, 2}
=============================================================================
