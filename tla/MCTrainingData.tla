--------------------------- MODULE MCTrainingData ---------------------------
EXTENDS TrainingData

\* Four sentences, one of them in two spellings, and one without words.
Texts == {<<0>>, <<1>>, <<-1, 0>>, <<2>>, <<2, -1>>, <<3, 3, 1>>}

\* Four rows: any sentences with any labels, and one of another domain.
Row == [text : Texts, label : {0, 1}, domain : {"imdb"}]
         \cup {[text |-> <<1>>, label |-> 0, domain |-> "yelp"]}

Corpora == [1..4 -> Row]
=============================================================================
