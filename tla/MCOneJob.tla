------------------------------ MODULE MCOneJob ------------------------------
(* Small instances of OneJob for TLC. *)
EXTENDS OneJob, TLC

Url(scheme, host, port) == [scheme |-> scheme, host |-> host, port |-> port]

GoodUnit == [wu_id |-> "fresh", field |-> "ok", key_id |-> "pinned", nonce |-> "fresh",
             core_sig |-> "core", text |-> "text", lang |-> "pl"]

ReleasePins == [override |-> "core", patched |-> "", dev |-> FALSE]

GoodJob == [node |-> "cli", native |-> TRUE, pins |-> ReleasePins,
            base |-> Url("https", "edge", NoPort), flaw |-> NoFlaw,
            status |-> 200, size |-> 5, body |-> "unit", unit |-> GoodUnit]

Vary(r, field, values) == {[r EXCEPT ![field] = v] : v \in values}

(* Units that differ from a good one, or from one that was seen, in a field.  *)
VariedUnits(u) == UNION {
    Vary(u, "wu_id", {"absent", "empty", "number", "long", "odd", "seen"}),
    Vary(u, "field", {"absent", "long"}),
    Vary(u, "key_id", {"other"}),
    Vary(u, "nonce", {"absent", "seen", "list"}),
    Vary(u, "core_sig", {"absent", "not base64", "number", "dev", "other"}),
    Vary(u, "text", {"blank", "surrogate"}),
    Vary(u, "lang", {"en"}) }

BothNodes(jobs) == jobs \cup {[j EXCEPT !.node = "browser"] : j \in jobs}

MixedJobs ==
    BothNodes(UNION {
        {GoodJob},
        Vary(GoodJob, "unit", VariedUnits(GoodUnit) \cup
                              VariedUnits([GoodUnit EXCEPT !.wu_id = "seen"])),
        Vary(GoodJob, "size", {7, 8, 9}),
        {[GoodJob EXCEPT !.size = 0, !.body = "not json"]},
        Vary(GoodJob, "status", {204, 500}),
        Vary(GoodJob, "body", {"bad text", "not utf-8", "not json", "not an object"}),
        Vary([GoodJob EXCEPT !.body = "bad text"], "unit",
             Vary(GoodUnit, "nonce", {"seen"}) \cup Vary(GoodUnit, "core_sig", {"other"})),
        Vary(GoodJob, "native", {FALSE}),
        Vary(GoodJob, "base", {Url("https", "edge", 8443), Url("http", "edge", 0),
                               Url("", "edge", NoPort), Url("https", "", NoPort)}),
        UNION {Vary(j, "pins", Pins) :
                j \in {[GoodJob EXCEPT !.unit.core_sig = k] : k \in {"core", "dev"}}} })
    \cup Vary(GoodJob, "flaw", {"missing", "invalid", "odd"} \X
                {"card", "embedder", "features", "calibration", "weights", "runtime"})

(* A good unit for a browser node without `cryptography`, and a number for a  *)
(* signature.                                                                 *)
CrashJobs == {[GoodJob EXCEPT !.node = "browser", !.native = FALSE],
              [GoodJob EXCEPT !.unit.core_sig = "number"]}

(* The second and the third version differ in their calibration alone.        *)
Calibrations == <<[default |-> 6000, pl |-> 6000], [default |-> 5000, pl |-> 6875],
                  [default |-> 5000, pl |-> 6000]>>
Classifiers == <<"first", "second", "second">>
=============================================================================
