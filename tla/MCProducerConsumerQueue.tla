---- MODULE MCProducerConsumerQueue ----
EXTENDS ProducerConsumerQueue, TLC

\* Producers are interchangeable, and so are consumers; no liveness is checked.
Symmetry == Permutations(Producers) \cup Permutations(Consumers)
====
