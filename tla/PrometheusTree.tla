--------------------------- MODULE PrometheusTree ---------------------------
(***************************************************************************)
(* The object tree of grannos/drivers/prometheus/driver.py.  A server has  *)
(*   series  : [metric, labels], labels a function on the label names      *)
(*   targets : the active ones, [job, instance, error], in any order       *)
(*   help    : the metrics that have metadata                              *)
(***************************************************************************)
EXTENDS Relational

CONSTANT NameOrder  \* every name, in the order they sort

FindPaths ==
  [metric |-> <<<<"metrics", "*">>>>,
   label  |-> <<<<"metrics", "*", "*">>>>,
   job    |-> <<<<"jobs", "*">>>>]

Sorted(names) == InOrder(names, NameOrder)

Jobs(server) == {t.job : t \in server.targets}
\* /api/v1/label/__name__/values, of every series or of a job's.
MetricNames(server) == {s.metric : s \in server.series}
JobMetricNames(server, job) ==
  {s.metric : s \in {x \in server.series :
                       "job" \in DOMAIN x.labels /\ x.labels["job"] = job}}
\* /api/v1/labels and /api/v1/label/<label>/values, matched by a metric.
LabelNames(server, metric) ==
  Sorted(UNION {DOMAIN s.labels : s \in {x \in server.series : x.metric = metric}})
LabelValues(server, metric, label) ==
  Sorted({s.labels[label] :
            s \in {x \in server.series : x.metric = metric /\ label \in DOMAIN x.labels}})

DescribeLabel(server, metric, label) ==
  [kind |-> "field", name |-> label, sample |-> LabelValues(server, metric, label)]

DescribeMetric(server, metric) ==
  LET labels == LabelNames(server, metric)
  IN  [kind |-> "entity", name |-> metric, comment |-> metric \in server.help,
       properties |-> [i \in DOMAIN labels |-> DescribeLabel(server, metric, labels[i])]]

\* _job_scrape_stats: the metrics and the series of each instance.
SeriesOf(server, job, instance) ==
  {s \in server.series : /\ {"job", "instance"} \subseteq DOMAIN s.labels
                         /\ s.labels["job"] = job /\ s.labels["instance"] = instance}

\* The records of a job's targets; the column of the last errors is left out
\* of all of them when none has one.
DescribeJob(server, job) ==
  LET targets   == {t \in server.targets : t.job = job}
      instances == Sorted({t.instance : t \in targets})
      Of(i)     == CHOOSE t \in targets : t.instance = instances[i]
      errors    == {t.error : t \in targets} # {""}
      Record(i) ==
        [kind |-> "record", name |-> instances[i],
         metrics |-> Cardinality({s.metric : s \in SeriesOf(server, job, instances[i])}),
         series  |-> Cardinality(SeriesOf(server, job, instances[i])),
         fields  |-> {"Status"} \cup (IF errors THEN {"Last Error"} ELSE {})]
  IN  IF targets = {} THEN None
      ELSE GroupDescription("records", [i \in DOMAIN instances |-> Record(i)])

\* A metric is reached from the list of metrics, or from its job: ["metrics",
\* metric, ...rest] or ["jobs", job, metric, ...rest].
AtMetric(path, rest) ==
  \/ path # <<>> /\ path[1] = "metrics" /\ Len(path) = 2 + rest
  \/ path # <<>> /\ path[1] = "jobs" /\ Len(path) = 3 + rest
MetricAt(path) == IF path[1] = "metrics" THEN path[2] ELSE path[3]

List(server, path) ==
  CASE path = <<>> ->
         Items(<<"metrics", "jobs">>, "group", TRUE)
         \o <<Item("configuration", "configuration", FALSE),
              Item("runtime", "settings", FALSE)>>
    [] Is(path, <<"metrics">>) -> Items(Sorted(MetricNames(server)), "metric", TRUE)
    [] AtMetric(path, 0) -> Items(LabelNames(server, MetricAt(path)), "label", TRUE)
    [] AtMetric(path, 1) ->
         Items(LabelValues(server, MetricAt(path), path[Len(path)]), "label_value", FALSE)
    [] Is(path, <<"jobs">>) -> Items(Sorted(Jobs(server)), "job", TRUE)
    [] Is(path, <<"jobs", "*">>) ->
         Items(Sorted(JobMetricNames(server, path[2])), "metric", TRUE)
    [] OTHER -> <<>>

Describe(server, path) ==
  CASE AtMetric(path, 0) -> DescribeMetric(server, MetricAt(path))
    [] AtMetric(path, 1) -> DescribeLabel(server, MetricAt(path), path[Len(path)])
    [] path \in {<<"configuration">>, <<"runtime">>} -> [kind |-> "document"]
    [] Is(path, <<"jobs", "*">>) -> DescribeJob(server, path[2])
    [] OTHER -> None
=============================================================================
