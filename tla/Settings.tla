------------------------------ MODULE Settings ------------------------------
(***************************************************************************)
(* The settings (settings.cpp): their validation, their JSON form in the   *)
(* file and on the wire, and what the web front end (service.ts) does with *)
(* the secrets in it.                                                      *)
(*                                                                         *)
(* A JSON object is a function of its keys.  Names are sequences of kinds  *)
(* of characters, a server is the parts url.cpp finds in it, numbers that  *)
(* nobody computes with are strings of digits.                             *)
(***************************************************************************)
EXTENDS Integers, Sequences

Groups == {"general", "web", "wifi", "bluetooth", "mqtt", "prometheus"}

Characters == {"letter", "digit", "dash", "dot", "other"}
NoText == ""
Letters(n) == [i \in 1 .. n |-> "letter"]

\* the keys of secrets, and those that tell whether there is one
HasOf == [password |-> "has_password", pin |-> "has_pin",
          sta_psk |-> "has_sta_psk", ap_psk |-> "has_ap_psk"]
SecretKeys == DOMAIN HasOf

Server(scheme, host, port) == [scheme |-> scheme, host |-> host, port |-> port]

Defaults ==
  [revision   |-> 0,
   general    |-> [name |-> Letters(9), encryption |-> TRUE, password |-> "123456"],
   web        |-> [protected |-> FALSE, username |-> NoText, password |-> NoText],
   wifi       |-> [mode |-> 0, sta_ssid |-> NoText, sta_psk |-> NoText,
                   ap_ssid |-> "ArduMower Modem", ap_psk |-> "ArduMower Modem"],
   bluetooth  |-> [enabled |-> TRUE, pin_enabled |-> FALSE, pin |-> "1234"],
   mqtt       |-> [enabled |-> FALSE, prefix |-> NoText, server |-> Server(NoText, <<>>, -1),
                   username |-> NoText, password |-> NoText, publish_status |-> TRUE,
                   publish_format |-> "0", publish_interval |-> 30, ha |-> FALSE],
   prometheus |-> [enabled |-> FALSE]]

\* The texts that stand here are strings: TLC knows it, the provers do not.
ASSUME TextsAssumption ==
  {NoText, "0", "1", "2", "3", "off", "sta", "ap", "1234", "123456", "ArduMower Modem", "(unchanged)"}
    \subseteq STRING

ServerType == [scheme : STRING, host : Seq(Characters), port : Int]

SettingsType ==
  [revision   : Nat,
   general    : [name : Seq(Characters), encryption : BOOLEAN, password : STRING],
   web        : [protected : BOOLEAN, username : STRING, password : STRING],
   wifi       : [mode : 0 .. 2, sta_ssid : STRING, sta_psk : STRING,
                 ap_ssid : STRING, ap_psk : STRING],
   bluetooth  : [enabled : BOOLEAN, pin_enabled : BOOLEAN, pin : STRING],
   mqtt       : [enabled : BOOLEAN, prefix : STRING, server : ServerType,
                 username : STRING, password : STRING, publish_status : BOOLEAN,
                 publish_format : STRING, publish_interval : Nat, ha : BOOLEAN],
   prometheus : [enabled : BOOLEAN]]

\* what the members of a document are; a mode or a format may have any name
Members ==
  [general    |-> [name |-> Seq(Characters), encryption |-> BOOLEAN, password |-> STRING],
   web        |-> [protected |-> BOOLEAN, username |-> STRING, password |-> STRING],
   wifi       |-> [mode |-> STRING, sta_ssid |-> STRING, sta_psk |-> STRING,
                   ap_ssid |-> STRING, ap_psk |-> STRING],
   bluetooth  |-> [enabled |-> BOOLEAN, pin_enabled |-> BOOLEAN, pin |-> STRING],
   mqtt       |-> [enabled |-> BOOLEAN, prefix |-> STRING, server |-> ServerType,
                   username |-> STRING, password |-> STRING, publish_status |-> BOOLEAN,
                   publish_format |-> STRING, publish_interval |-> Nat, ha |-> BOOLEAN],
   prometheus |-> [enabled |-> BOOLEAN]]

\* A document has them all, but for secrets.
Fits(o) ==
  /\ o.revision \in Nat
  /\ \A g \in Groups : \A k \in DOMAIN Members[g] :
       IF k \in DOMAIN o[g] THEN o[g][k] \in Members[g][k] ELSE k \in SecretKeys

-----------------------------------------------------------------------------
(* valid                                                                   *)

\* the character at i may stand there
Allowed(n, i, special) ==
  \/ n[i] = "letter"
  \/ n[i] = "digit" /\ i > 1
  \/ n[i] \in special /\ 1 < i /\ i < Len(n)

validBluetoothAndDnsName(n) ==
  n # <<>> /\ Len(n) <= 24 /\ \A i \in 1 .. Len(n) : Allowed(n, i, {"dash"})

validDnsName(n) ==
  n # <<>> /\ \A i \in 1 .. Len(n) : Allowed(n, i, {"dash", "dot"})

\* inet_pton: here a number has one digit
validIpAddress(n) ==
  Len(n) = 7 /\ \A i \in 1 .. 7 : n[i] = IF i % 2 = 1 THEN "digit" ELSE "dot"

ValidGeneral(g) == validBluetoothAndDnsName(g.name)

\* Mutant of ValidWeb: only the user name is looked at.
ValidWebNoPassword(w) == w.protected => w.username # NoText

ValidWeb(w) == w.protected => w.username # NoText /\ w.password # NoText

ValidWiFi(w) ==
  IF w.mode = 1 THEN w.sta_ssid # NoText /\ w.sta_psk # NoText
  ELSE w.ap_ssid # NoText /\ w.ap_psk # NoText

ValidMqtt(m) ==
  m.enabled =>
    /\ validDnsName(m.server.host) \/ validIpAddress(m.server.host)
    /\ m.server.scheme \in {NoText, "mqtt"}
    /\ m.server.port \in {-1} \union 1 .. 65535

Valid(s) == ValidGeneral(s.general) /\ ValidWeb(s.web) /\ ValidWiFi(s.wifi) /\ ValidMqtt(s.mqtt)

\* WiFi::staSettingsValid, which the WiFi adapter goes by
staSettingsValid(w) == w.sta_ssid # NoText /\ w.sta_psk # NoText

-----------------------------------------------------------------------------
(* marshal, unmarshal, stripSecrets                                        *)

ModeName == [m \in 0 .. 2 |-> CASE m = 0 -> "off" [] m = 1 -> "sta" [] m = 2 -> "ap"]

\* Mutant of ModeOfName: there is no mode without a name of its own.
ModeOfNameUnknown(n) == CASE n = "sta" -> 1 [] n = "ap" -> 2 [] OTHER -> 3

ModeOfName(n) == CASE n = "sta" -> 1 [] n = "ap" -> 2 [] OTHER -> 0

\* The number of the format is written, its name is read: it comes back as 3.
FormatOfName(n) == CASE n = "json" -> "1" [] n = "text" -> "2" [] OTHER -> "3"

MarshalWiFi(w) == [w EXCEPT !.mode = ModeName[@]]

Marshal(s) == [s EXCEPT !.wifi = MarshalWiFi(@)]

\* Mutants of containsAndHas: it insists on the second key, or forgets it.
containsAndHasBoth(o, k) == k \in DOMAIN o /\ HasOf[k] \in DOMAIN o /\ o[HasOf[k]]
containsOnly(o, k) == k \in DOMAIN o

containsAndHas(o, k) ==
  k \in DOMAIN o /\ (HasOf[k] \in DOMAIN o => o[HasOf[k]])

Secret(g, o, k) == IF containsAndHas(o, k) THEN o[k] ELSE g[k]

\* mustContain.  Other keys are not looked for (see DocumentsAssumption).
CanUnmarshal(o) ==
  /\ {"revision"} \union Groups \subseteq DOMAIN o
  /\ {"name", "encryption"} \subseteq DOMAIN o.general

UnmarshalGeneral(g, o) ==
  [name |-> o.name, encryption |-> o.encryption, password |-> Secret(g, o, "password")]

UnmarshalWeb(w, o) ==
  [protected |-> o.protected, username |-> o.username, password |-> Secret(w, o, "password")]

UnmarshalWiFi(w, o) ==
  [mode    |-> ModeOfName(o.mode),
   sta_ssid |-> o.sta_ssid, sta_psk |-> Secret(w, o, "sta_psk"),
   ap_ssid |-> o.ap_ssid, ap_psk |-> Secret(w, o, "ap_psk")]

UnmarshalBluetooth(b, o) ==
  [enabled |-> o.enabled, pin_enabled |-> o.pin_enabled, pin |-> Secret(b, o, "pin")]

UnmarshalMqtt(m, o) ==
  [m EXCEPT !.enabled = o.enabled, !.prefix = o.prefix, !.server = o.server,
            !.username = o.username, !.password = Secret(m, o, "password"),
            !.publish_status = o.publish_status,
            !.publish_format = FormatOfName(o.publish_format),
            !.publish_interval = o.publish_interval, !.ha = o.ha]

\* s after s.unmarshal(o) has succeeded
Unmarshal(s, o) ==
  [revision   |-> o.revision,
   general    |-> UnmarshalGeneral(s.general, o.general),
   web        |-> UnmarshalWeb(s.web, o.web),
   wifi       |-> UnmarshalWiFi(s.wifi, o.wifi),
   bluetooth  |-> UnmarshalBluetooth(s.bluetooth, o.bluetooth),
   mqtt       |-> UnmarshalMqtt(s.mqtt, o.mqtt),
   prometheus |-> [enabled |-> o.prometheus.enabled]]

\* A number is never the empty string.
stripSecret(g) ==
  LET there == DOMAIN g \intersect SecretKeys
      has   == {HasOf[k] : k \in there}
  IN [k \in (DOMAIN g \ there) \union has |->
        IF k \in has THEN g[CHOOSE s \in there : HasOf[s] = k] # NoText ELSE g[k]]

OnGroups(Op(_), o) == [k \in DOMAIN o |-> IF k \in Groups THEN Op(o[k]) ELSE o[k]]

stripSecrets(o) == OnGroups(stripSecret, o)

-----------------------------------------------------------------------------
(* service.ts                                                              *)

\* 999999 for numbers
secretFiller == "(unchanged)"

fillSecret(g) ==
  LET missing == {s \in SecretKeys : HasOf[s] \in DOMAIN g}
  IN [k \in DOMAIN g \union missing |->
        IF k \in missing THEN (IF g[HasOf[k]] THEN secretFiller ELSE NoText) ELSE g[k]]

fillSecrets(o) == OnGroups(fillSecret, o)

\* Mutant of stripFiller: has_... is what it was on the page.
stripFillerNot(g, original) == g

\* has_... is whether the user has changed it
stripFiller(g, original) ==
  [k \in DOMAIN g |->
     IF \E s \in SecretKeys \intersect DOMAIN g : k = HasOf[s]
     THEN LET s == CHOOSE s \in SecretKeys : k = HasOf[s] IN g[s] # original[s]
     ELSE g[k]]

stripFillers(o, original) ==
  [k \in DOMAIN o |-> IF k \in Groups THEN stripFiller(o[k], original[k]) ELSE o[k]]
=============================================================================
