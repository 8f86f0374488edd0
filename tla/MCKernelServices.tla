-------------------------- MODULE MCKernelServices --------------------------
(* KernelServices for TLC: for every rule a value on either side of it.      *)
EXTENDS KernelServices

\* AgentRegistry: two kinds, and a hash under which handles 1 and 3 collide
MCKinds == {[role |-> "r", vantage |-> "acer", tier |-> "Public"], [role |-> "r", vantage |-> "liris", tier |-> "Public"]}
MCPidHash == [h \in 1 .. 4 |-> [k \in MCKinds |-> h % 2]]

\* CosignChain: a kind may hold the separator
MCTexts == {<<>>, <<"a">>, <<"a", "|payload=", "b">>, <<"b">>}

\* AccessGates
MCEnvelopes ==
  [type : {<<>>, <<"t">>}, verb : {<<"a">>, <<"a", "|", "b">>}, id : {<<>>, <<"b">>, <<"b", "|", "b">>},
   payload : {<<"p">>}]
MCEventTags == {{"fine"}, {"fine", "drift"}}
MCEnvvarNames == {<<"upper", "VIRUS", "digit">>, <<"digit", "VIRUS">>, <<"upper", "other", "VIRUS">>,
                  <<"upper">>, <<>>}
MCPathMarks == SUBSET {"quarantine", "sovlinux", "vault/secret", "stealth", "restricted"}
                 \cup {{"empty or NUL"}}

\* LinkGate: an owner with two grants, one with the lowest, one with none
MCGrants == <<[owner |-> <<"jesse">>, max |-> 5], [owner |-> <<"guest">>, max |-> 0],
              [owner |-> <<"jesse">>, max |-> 9]>>
MCOwners == {<<>>, <<"jesse">>, <<"guest">>, <<"nobody">>}
MCVerbs == {<<>>, <<"search">>, <<"write">>}
MCHosts == {<<>>, <<"acer">>}
MCNonces == {<<>>, <<"n">>}
Row(path, content, digits) == [path |-> path, content |-> content, digits |-> digits]
MCCorpus == {Row({"readme"}, {}, 13), Row({"readme", "legal"}, {}, 0), Row({"readme"}, {}, 14),
             Row({"readme"}, {"cnpj"}, 0), Row({"notes"}, {}, 0)}

\* FedRoute: an envelope that passes every rule, and one that breaks each
Hex16 == [cls |-> "lowerhex", len |-> 16]
Good == [missing |-> FALSE, prefix |-> "cli:", bytes |-> 4, cube |-> <<0, 1, 2, 3, 4, 7>>,
         glyphs |-> 5, ttl |-> 86400, rowHash |-> Hex16, antecedents |-> Hex16, window |-> TRUE,
         strict |-> FALSE, caller |-> <<"c">>, verb |-> <<"v">>, payload |-> <<"p">>, ts |-> <<"t">>,
         hashOf |-> <<>>]
MCFedEnvelopes ==
  {Good, [Good EXCEPT !.strict = TRUE, !.hashOf = RowText(Good)], [Good EXCEPT !.strict = TRUE],
   [Good EXCEPT !.missing = TRUE], [Good EXCEPT !.prefix = "pid:G"], [Good EXCEPT !.prefix = "pid:H"],
   [Good EXCEPT !.bytes = 5], [Good EXCEPT !.cube = <<0, 1, 2>>],
   [Good EXCEPT !.cube = <<0, 1, 2, 3, 4, 8>>], [Good EXCEPT !.glyphs = 4], [Good EXCEPT !.ttl = 0],
   [Good EXCEPT !.ttl = 86401], [Good EXCEPT !.rowHash.len = 15],
   [Good EXCEPT !.antecedents.cls = "hex"], [Good EXCEPT !.window = FALSE]}
MCVerbMarks == {{}, {"HEARTBEAT", "WAKE"}, {"DIRECTIVE"}, {"=OP-HALT"}, {"^EVT-", "-HALT"},
                {"^EVT-", "-HALT", "-HALT-EMIT$"}}
MCLabels == {<<>>, <<0>>, <<1023>>, <<1024>>, <<1, 2>>, <<256, 1>>, <<1, 2, 3>>}
MCFnv(bytes) == FoldLeft(LAMBDA h, b : (h + b) * 3 % 16, 0, bytes)
W(h, c, n) == [head |-> h, cls |-> c, len |-> n]
MCRoles == {<<W("A", "other", 4)>>, <<W("O", "other", 2), PidWord, W("J", "other", 5)>>,
            <<W("X", "other", 3)>>,
            <<W("O", "other", 2), PidWord, W("G", "dec", 5), W("A", "dec", 3), W("W", "dec", 4)>>}
MCKnownRoles == {<<W("A", "other", 4)>>}
Field(c, n) == [cls |-> c, len |-> n]
MCFieldSamples == {Field("dec", 1), Field("hex", 2), Field("dec", 3), Field("dec", 4),
                   Field("dec", 5), Field("other", 2)}

\* BootPath
Mode(w, h, pps, fmt, bytes, base) ==
  <<[w |-> w, h |-> h, pps |-> pps, format |-> fmt, bytes |-> bytes, base |-> base]>>
Fw(t, c, b, g, m) == [table |-> t, conOut |-> c, bs |-> b, gop |-> g, mode |-> m]
MCFirmwares ==
  {Fw(FALSE, FALSE, FALSE, FALSE, <<>>), Fw(TRUE, TRUE, FALSE, FALSE, <<>>),
   Fw(TRUE, TRUE, TRUE, TRUE, <<>>),
   Fw(TRUE, TRUE, TRUE, TRUE, Mode(320, 200, 320, "bgr", 256000, TRUE)),
   Fw(TRUE, TRUE, TRUE, TRUE, Mode(320, 200, 320, "bgr", 255996, TRUE)),
   Fw(TRUE, TRUE, TRUE, TRUE, Mode(1024, 200, 1000, "rgb", 819200, TRUE)),
   Fw(TRUE, TRUE, TRUE, TRUE, Mode(1024, 200, 1024, "rgb", 819200, TRUE))}
Fn(id, k) == [present |-> TRUE, id |-> id, kind |-> k]
NoFn == [present |-> FALSE, id |-> 0, kind |-> "none"]
MCPciSpaces ==
  {<<[multi |-> FALSE, funcs |-> <<NoFn>>],
     [multi |-> TRUE, funcs |-> <<Fn(1, "other"), NoFn, Fn(2, "rst-vmd")>>],
     [multi |-> FALSE, funcs |-> <<Fn(3, "ahci"), Fn(4, "other")>>]>>,
   <<[multi |-> TRUE, funcs |-> <<Fn(1, "other"), Fn(2, "other"), Fn(3, "other"), Fn(4, "other")>>]>>}
At(y, mo, d, h, mi, s) == [year |-> y, month |-> mo, day |-> d, hour |-> h, min |-> mi, sec |-> s]
MCInstants == <<At(1999, 12, 31, 23, 59, 59), At(2000, 1, 1, 0, 0, 0)>>
MCRtcModes == [bcd : BOOLEAN, h12 : BOOLEAN, century : BOOLEAN]
\* every firmware on one machine, every bus and clock under one firmware
MCMachines ==
  LET pci == CHOOSE p \in MCPciSpaces : Len(p) = 3
      rtc == [bcd |-> TRUE, h12 |-> TRUE, century |-> TRUE]
  IN  [fw : MCFirmwares, seat : {32, 44}, pci : {pci}, rtc : {rtc}]
        \cup [fw : {Fw(TRUE, TRUE, FALSE, FALSE, <<>>)}, seat : {32}, pci : MCPciSpaces,
              rtc : MCRtcModes]
MCLayouts == {[size |-> 3, align |-> 1], [size |-> 4, align |-> 8], [size |-> 9, align |-> 4]}
MCIdentities ==
  [seat : {<<108, 105>>}, devicePid : {<<>>, <<72, 49, 255>>}, otherFields : {40}, tupleDim : {0, 3}]
=============================================================================
