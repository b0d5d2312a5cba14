-------------------------------- MODULE Hello --------------------------------
(***************************************************************************)
(* ClientHelloMsg.unmarshal (go-vhost/tls.go) for the one field that the   *)
(* muxer uses, ServerName.  A length or a number is one byte here, and so  *)
(* are version and random together; a name is a sequence of bytes.  The    *)
(* result is the name, empty when there is none, or Bad, which is no name. *)
(***************************************************************************)
EXTENDS Naturals, Sequences

Bad == <<256>>
HandshakeHeader == 2       \* type and length, 4 bytes in the code
MinHello == 6              \* with empty vectors and no extensions, 42 bytes
MaxSessionId == 2          \* 32 in the code

ServerNameExt == 0
CurvesExt == 10
PointsExt == 11
NextProtoExt == 12

From(d, i) == SubSeq(d, i, Len(d))

(* Whether d begins with a vector, its length first, and what follows it. *)
HasVector(d) == d # <<>> /\ Len(d) >= 1 + d[1]
AfterVector(d) == From(d, d[1] + 2)

(* The loop over the n names of a server_name extension, of which it takes *)
(* the first of type 0.  The names may lie beyond the extension: only the  *)
(* end of the message bounds them.                                         *)
FirstName(names, count, old) ==
    LET first[d \in Seq(Nat), n \in Nat] ==
            IF n = 0 THEN old
            ELSE IF Len(d) < 2 \/ Len(d) < 2 + d[2] THEN Bad
            ELSE IF d[1] = 0 THEN SubSeq(d, 3, 2 + d[2])
            ELSE first[From(d, 3 + d[2]), n - 1]
    IN  first[names, count]

(* One extension of the given type and length whose body begins d. *)
Extension(type, length, d, old) ==
    CASE type = ServerNameExt -> IF length < 1 THEN Bad ELSE FirstName(Tail(d), d[1], old)
      [] type = NextProtoExt -> IF length > 0 THEN Bad ELSE old
      [] type = CurvesExt -> IF length < 1 \/ d[1] % 2 = 1 \/ length # d[1] + 1 THEN Bad ELSE old
      [] type = PointsExt -> IF length < 1 \/ length # d[1] + 1 THEN Bad ELSE old
      [] OTHER -> old

Extensions(list) ==
    LET last[d \in Seq(Nat), name \in Seq(Nat)] ==
            IF d = <<>> THEN name
            ELSE IF Len(d) < 2 \/ Len(d) < 2 + d[2] THEN Bad
            ELSE LET new == Extension(d[1], d[2], From(d, 3), name)
                 IN  IF new = Bad THEN Bad ELSE last[From(d, 3 + d[2]), new]
    IN  last[list, <<>>]

(* unmarshal: session id, cipher suites, compression methods, extensions. *)
ServerName(msg) ==
    LET id == From(msg, HandshakeHeader + 2)
        suites == AfterVector(id)
        methods == AfterVector(suites)
        ext == AfterVector(methods)
    IN  IF \/ Len(msg) < MinHello \/ id[1] > MaxSessionId \/ ~HasVector(id)
           \/ ~HasVector(suites) \/ suites[1] % 2 = 1
           \/ ~HasVector(methods)
        THEN Bad
        ELSE IF ext = <<>> THEN <<>>
        ELSE IF ext[1] # Len(ext) - 1 THEN Bad
        ELSE Extensions(Tail(ext))
=============================================================================
