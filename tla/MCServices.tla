------------------------------ MODULE MCServices ------------------------------
(* The instances of Services for TLC. *)
EXTENDS Services, TLC

CONSTANTS a1, a2  \* assets

MCBatches == {<<a1>>, <<a1, a2>>}
MCOneAsset == {<<a1>>}

\* Requests made one after the other: two sales, and a change of a listing.
MCAlone == {<<"sell", "sell", "update">>, <<"sell", "sell", "cancel">>}

\* Requests that overlap: a listing is changed and bought, or cancelled and bought;
\* bids, an answer to them, and a transfer.
MCCasts ==
  MCAlone \cup {<<"sell", "update", "buy">>, <<"sell", "cancel", "buy">>,
               <<"sell", "update", "cancel">>,
               <<"bid", "bid", "transfer">>, <<"bid", "transfer", "accept">>,
               <<"bid", "accept", "reject">>}

\* Three bids, one after the other.
MCBids == {<<"bid", "bid", "bid">>}

MCLists == "j1" :> {{"ILV", "ETH"}} @@ "j2" :> {{"ILV"}}

\* The second request may ask for both tokens.
MCAsked == "q1" :> {{"ILV"}} @@ "q2" :> {{"ILV"}, {"ILV", "ETH"}} @@ "q3" :> {{"ILV"}}
=============================================================================
