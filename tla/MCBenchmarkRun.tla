--------------------------- MODULE MCBenchmarkRun ---------------------------
(***************************************************************************)
(* Option sets and data files for BenchmarkRun.                            *)
(***************************************************************************)
EXTENDS BenchmarkRun

Config(program, engine, mode, reuse, n, kgt, probe) ==
  [program |-> program, engine |-> engine, mode |-> mode, reuse_index |-> reuse,
   n_base |-> n, k_in_gt |-> kgt, n_pages_to_probe |-> probe]

\* Five rows, one more than any valid run uses; the two nearest are rows 1 and 2.
FiveRows == <<1, 2, 3, 0, 4>>

SpheresConfigs ==
  {Config("benchmark", "spheres", "exact", r, n, 3, 0) : r \in BOOLEAN, n \in {3, 4}}
  \cup {Config("benchmark", "spheres", "ann", TRUE, 3, 3, 1),
        Config("benchmark", "spheres", "legacy_prune", FALSE, 3, 3, 0)}
ExampleConfigs ==
  {Config("example", "spheres", "exact", r, n, 3, 0) : r \in BOOLEAN, n \in {2, 3}}
  \cup {Config("example", "faiss", "aggressive", TRUE, 3, 3, 0)}
FaissConfigs ==
  {Config("benchmark", "faiss", "flat", r, 3, 3, 0) : r \in BOOLEAN}
  \cup {Config("benchmark", "faiss", m, FALSE, 3, 3, 0) : m \in {"hnsw", "ivf"}}
  \cup {Config("benchmark", "faiss", "hnsw", TRUE, 3, 3, 0),
        Config("benchmark", "faiss", "flat", TRUE, 4, 3, 0)}
\* Options that are refused, by parse_argv, by the dispatch, or on the way.
WrongConfigs ==
  {Config("benchmark", "spheres", "flat", FALSE, 3, 3, 0),
   Config("benchmark", "spheres", "exact", FALSE, 6, 3, 0),
   Config("benchmark", "spheres", "exact", FALSE, 3, 4, 0),
   Config("benchmark", "spheres", "exact", FALSE, 2, 3, 0),
   Config("benchmark", "faiss", "lsh", FALSE, 3, 3, 0),
   Config("benchmark", "faiss", "flat", FALSE, 6, 3, 0),
   Config("benchmark", "pgvector", "flat", FALSE, 3, 3, 0),
   Config("example", "spheres", "exact", FALSE, 1, 3, 0)}
AllConfigs == SpheresConfigs \cup ExampleConfigs \cup FaissConfigs \cup WrongConfigs
=============================================================================
