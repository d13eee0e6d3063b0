-------------------------- MODULE MCNetworkAccess --------------------------
(* Two fetches of URLs around the domain "x.y".                            *)
EXTENDS NetworkAccess

MCWord == {"s", "w", "x", "y", "p"}

Url(user, host, port, rest) ==
  [absolute |-> TRUE, scheme |-> <<"s">>, user |-> user, host |-> host, port |-> port, rest |-> rest]

InDomain == << <<"x">>, <<"y">> >>
Under1 == << <<"w">>, <<"x">>, <<"y">> >>
EndsAlike == << <<"w", "x">>, <<"y">> >>
Elsewhere == << <<"y">> >>
MCDomain == {InDomain}

(* The domain, a host under it, one that ends like it, one that contains   *)
(* it, its own end, one with a last dot, none.                             *)
MCHost ==
  {InDomain, Under1, EndsAlike, << <<"x">>, <<"y">>, <<"w">> >>, Elsewhere,
   << <<"x">>, <<"y">>, <<>> >>, <<>>}

(* Nothing, a port, a path, a path and a query that name a URL in the      *)
(* domain.                                                                 *)
MCAfter ==
  { << <<>>, <<>> >>, << <<":", "p">>, <<"?", "w">> >>,
    << <<>>, <<"/", "s", "://", "x", ".", "y">> >> }

(* User information, with and without a ":", and queries at the host.      *)
MCRequest ==
  {Url(<<>>, h, a[1], a[2]) : h \in MCHost, a \in MCAfter} \cup
  {Url(<<"p", "@">>, h, <<":", "p">>, <<>>) : h \in {InDomain, Under1, EndsAlike, <<>>}} \cup
  {Url(<<"x", ".", "y", ":", "p", "@">>, Elsewhere, <<>>, <<>>),
   Url(<<>>, Under1, <<>>, <<"?", "w">>), Url(<<>>, Elsewhere, <<>>, <<"?", ".", "x", ".", "y">>)} \cup
  {[Url(<<>>, InDomain, <<>>, r) EXCEPT !.absolute = FALSE, !.scheme = <<>>] :
     r \in {<<>>, <<"?", "s", "://", "x", ".", "y">>}}

MCExactUrl == {Text(Url(<<>>, Elsewhere, <<>>, <<"/">>))}

(* The backend knows what is listed, a page of each host, and a URL that   *)
(* is misread.                                                             *)
MCResponses ==
  [u \in MCExactUrl \cup {Text(Url(<<>>, h, <<>>, <<>>)) : h \in MCHost \ {<<>>}}
        \cup {Text(Url(<<"x", ".", "y", ":", "p", "@">>, Elsewhere, <<>>, <<>>))} |-> <<"body", u>>]
=============================================================================
