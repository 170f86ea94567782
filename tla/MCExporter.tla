----------------------------- MODULE MCExporter -----------------------------
(* Exporter.tla under every setting of one part of the flags at a time.      *)
EXTENDS Exporter

Working == [Defaults EXCEPT !.token = "inline", !.spacesKey = "file",
                            !.spacesSecret = "inline", !.spacesRegion = "fra1"]

LOCAL Durations == {0, 20, defaultInterval}

OneCollector ==
  UNION { {[Working EXCEPT !.enabled[c] = on, !.interval[c] = d] :
             c \in Names, on \in BOOLEAN, d \in Durations},
          {[Working EXCEPT !.enabled[c] = on, !.timeout[c] = d] :
             c \in Timed, on \in BOOLEAN, d \in {0, 1}} }

FewCollectors ==
  {[Working EXCEPT !.enabled = [c \in Names |-> c \in on], !.interval["account"] = d] :
     on \in SUBSET {"account", "tags", "spaces"}, d \in {1, 2, 3}}

Client == {[Working EXCEPT !.token = s, !.doTimeout = d, !.rateLimit = n] :
             s \in Secrets, d \in {0, 1}, n \in {-1, 0, 4}}

LOCAL Buckets ==
  { << >>, << << [name |-> "", region |-> ""] >> >>,
    << << [name |-> "a", region |-> "ams3"], [name |-> "b", region |-> ""] >> >>,
    << << [name |-> "a", region |-> "ams3"] >>, << [name |-> "", region |-> "fra1"] >> >>,
    << << [name |-> "a", region |-> "ams3"] >> >> }

SpacesFlags ==
  {[Working EXCEPT !.enabled["spaces"] = on, !.spacesKey = k, !.spacesSecret = s,
                   !.spacesRegion = r, !.spacesBuckets = b] :
     on \in BOOLEAN, k, s \in Secrets \ {"empty file", "no file"}, r \in {"", "fra1"}, b \in Buckets}

(* With the other flags usable, and without a token. *)
Asked == {[f EXCEPT !.help = TRUE] : f \in {Working, Defaults}}

MCOperators == OneCollector \cup FewCollectors \cup Client \cup SpacesFlags \cup {Defaults}
               \cup Asked
SomeOperators == FewCollectors
=============================================================================
