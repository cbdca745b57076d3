---------------------------- MODULE MCAskLedger ----------------------------
(* Small instances of AskLedger: one asker, a recipient session with two   *)
(* aliases, and an onlooker.                                               *)
EXTENDS AskLedger, TLC

CONSTANTS asker, peer, peerToo

MCAlias == {asker, peer, peerToo}
MCSessionOf == asker :> "asking" @@ peer :> "answering" @@ peerToo :> "answering"
MCReplyBys == {1, None}
MCTtls == {2, None}
MCTwo == {asker, peer}
=============================================================================
