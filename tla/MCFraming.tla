------------------------------ MODULE MCFraming ------------------------------
(* Framing on small inputs: what peers send, with its meaning. *)
EXTENDS Framing

Stream(p, b, m) == [proto |-> p, bytes |-> b, means |-> m]

(* Up to three qmux messages; data that looks like message types. *)
Msg(t, v, d) ==
    [type |-> t, fields |-> [f \in Range(Layout(t)) |-> v[SelectInSeq(Layout(t), LAMBDA x : x = f)]],
     data |-> d, zeros |-> 0]
Msgs == {Msg(100, <<1, 2, 3>>, <<>>), Msg(101, <<0, 1, 2, 3>>, <<>>), Msg(102, <<1>>, <<>>),
         Msg(103, <<1, 260>>, <<>>), Msg(104, <<1, 2>>, <<106, 105>>), Msg(104, <<1, 0>>, <<>>),
         Msg(105, <<1>>, <<>>), Msg(106, <<1>>, <<>>)}

QmuxInputs ==
    {Stream("qmux", Encoded(ms), ms) : ms \in UNION {[1..n -> Msgs] : n \in 1..3}}

(* Handshake messages with the given extensions, cut into two records; the *)
(* bounds of Framing.cfg are 30, 40 and 26.                                *)
Vector(v) == <<Len(v)>> \o v
Hs(ext) == LET body == <<9>> \o Vector(<<7>>) \o Vector(<<4, 4>>) \o Vector(<<0>>) \o ext
           IN  <<ClientHello>> \o Vector(body)
Rec(p) == <<Handshake, 3>> \o Vector(p)
Cut(h, k) == IF k = Len(h) THEN Rec(h) ELSE Rec(SubSeq(h, 1, k)) \o Rec(From(h, k + 1))

Sni(list) == <<ServerNameExt>> \o Vector(Vector(list))
Curves == <<CurvesExt>> \o Vector(Vector(<<1, 2>>))
Exts(e) == Vector(e)

Hellos ==
    {<<Hs(<<>>), <<>>>>,
     <<Hs(Exts(Sni(<<0, 1, 5>>))), <<5>>>>,
     <<Hs(Exts(Curves \o Sni(<<1, 1, 8, 0, 2, 5, 6>>))), <<5, 6>>>>,
     <<Hs(Exts(<<PointsExt, 1, 0>> \o <<NextProtoExt, 0>>)), <<>>>>}
BadHellos ==
    {Hs(Exts(Sni(<<0, 9, 5>>))), Hs(Exts(Curves) \o <<1>>), Hs(Exts(<<NextProtoExt, 1, 1>>)),
     Hs(Exts(<<CurvesExt, 2, 1, 1>>)), Hs(Exts(<<PointsExt, 1, 1>>)), <<2>> \o Vector(<<9, 0, 0, 0>>),
     <<1>> \o Vector(<<9, 3, 0, 0>>), <<1>> \o Vector(<<9, 0, 1, 5, 0>>)}

TlsInputs ==
    {Stream("tls", Cut(h[1], k) \o extra,
            IF k < HandshakeHeader THEN Err("unexpected") ELSE Host(h[2])) :
        h \in Hellos, k \in 1..10, extra \in {<<>>, <<23, 3, 1, 99>>}}
      \cup {Stream("tls", SubSeq(Rec(h[1]), 1, k), Err("eof")) : h \in Hellos, k \in 0..12}
      \cup {Stream("tls", Rec(h), Err("unexpected")) : h \in BadHellos}
      \cup {Stream("tls", <<SSLv2, 46, 1, 0>>, Err("sslv2")),
            Stream("tls", <<Handshake, 3, 41, 1>>, Err("overflow")),
            Stream("tls", <<Handshake, 3, 30, 1>>, Err("unexpected")),
            Stream("tls", <<Handshake, 16, 4, 1>>, Err("unexpected")),
            Stream("tls", <<23, 3, 4, 1>>, Err("unexpected")),
            Stream("tls", Rec(<<1, 27, 9>>), Err("internal"))}

(* Requests with a body, with a following request, cut short, malformed. *)
HttpInputs ==
    {Stream("http", <<5, 2, 0, 8, 9>> \o extra, Host(<<5>>)) : extra \in {<<>>, <<6, 0, 0>>}}
      \cup {Stream("http", <<5, 0, 0>>, Host(<<5>>)), Stream("http", <<5, 3, 0, 8>>, Host(<<5>>)),
            Stream("http", <<5, 2>>, Err("eof")), Stream("http", <<5, 2, 1, 8>>, Err("malformed"))}

AllInputs == QmuxInputs \cup TlsInputs \cup HttpInputs
=============================================================================
