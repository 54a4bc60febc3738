--------------------------- MODULE DictionaryFile ---------------------------
(***************************************************************************)
(* The file of a dictionary: what the tool buildDictionary reads and packs *)
(* (src/tools/buildDictionary), and what the library unpacks when it is    *)
(* asked of a word (src/src/inflection/dictionary and its metadata).       *)
(*                                                                         *)
(* A word of memory is the set of its bits that are on, so that "or" is a  *)
(* union.  The ids of a trie are external: any order of its keys.          *)
(***************************************************************************)
EXTENDS Integers, Sequences, FiniteSets, SequencesExt

CONSTANTS
    Order,         \* all strings, in the order of their code units
    LowerCase,     \* a function from phrases to them in lower case
    InflectionKey, \* the property whose values are the names of patterns
    WordBits,      \* the bits of a uint64_t
    IntBits,       \* the bits of an int32_t
    MaxBits,       \* INT32_MAX: the bits of an array are counted by an int32_t
    MaxValues,     \* UINT8_MAX
    MaxSingletons, \* INT16_MAX
    GrammarTypes,  \* the values that imply their category in the language, in their order
    WideMask,      \* what shifting by all the bits of a word makes: undefined
    NoText,        \* what is not there
    Thrown         \* what is left when an exception leaves

ASSUME DictionaryFileAssumption ==
    /\ WordBits \in Nat /\ IntBits \in 2..WordBits
    /\ MaxBits \in Nat /\ MaxValues \in Nat /\ MaxSingletons \in Nat
    /\ Range(GrammarTypes) \subseteq Range(Order)
    /\ WideMask \subseteq 0..(WordBits - 1)
    /\ "" \in Range(Order) /\ InflectionKey \in Range(Order)

VARIABLES
    source,      \* the lines of the source: [phrase, types, properties]
    table,       \* the patterns of the inflection table, or NoText
    dictionary,  \* the Dictionary the tool has made of the lines it has read
    file         \* NoText, Thrown, or the sections that were written, in their order

dictionaryVars == <<source, table, dictionary, file>>

----------------------------------------------------------------------------
(* Words of memory *)

BitsOf(n) == {b \in 0..(WordBits - 1) : (n \div 2^b) % 2 = 1}
ValueOf(bits) == MapThenSumSet(LAMBDA b : 2^b, bits)

\* To the left, or with a negative distance to the right.
Shifted(bits, n) == {b + n : b \in bits} \cap 0..(WordBits - 1)
Mask(len) == IF len < WordBits THEN 0..(len - 1) ELSE WideMask

\* An int32_t that becomes a uint64_t takes its sign along.
AsInt(bits) ==
    LET int == bits \cap 0..(IntBits - 1)
    IN  IF IntBits - 1 \in int THEN int \cup IntBits..(WordBits - 1) ELSE int

CalculateBitWidth(allUsedBits) == IF allUsedBits = {} THEN 1 ELSE Max(allUsedBits) + 1
GetNumBitsFromValues(values) == CalculateBitWidth(IF values = {} THEN {} ELSE BitsOf(Max(values)))

WriteBits(start, len, value) ==
    IF start + len >= WordBits THEN Thrown
    ELSE Shifted(BitsOf(value) \cap Mask(len), start)

ExtractValue(bits, start, len) ==
    IF start + len > WordBits THEN Thrown ELSE Shifted(bits, -start) \cap Mask(len)

----------------------------------------------------------------------------
(* CompressedArray: values of one width side by side, across words *)

Place(width, index) ==
    [first |-> (index * width) \div WordBits,
     last  |-> (index * width + width - 1) \div WordBits,
     shift |-> (index * width) % WordBits]

\* Mutant of PartIn: the rest of a value that does not fit its word is lost.
PartIn_OneWord(width, index, value, k) ==
    LET place == Place(width, index)
    IN  IF k = place.first THEN Shifted(value, place.shift) ELSE {}

\* What writing a value at an index turns on in word k.
PartIn(width, index, value, k) ==
    LET place == Place(width, index)
    IN  CASE k = place.first -> Shifted(value, place.shift)
          [] k = place.last /\ k # place.first -> Shifted(value, place.shift - WordBits)
          [] OTHER -> {}

CompressedArray(values) ==
    LET width == CalculateBitWidth(UNION Range(values))
        length == (Len(values) * width + WordBits - 1) \div WordBits
    IN  [width |-> width, length |-> length,
         words |-> [k \in 0..(length - 1) |->
                      UNION {PartIn(width, i - 1, values[i], k) : i \in DOMAIN values}]]

\* The bits of these values are more than an int32_t counts: it becomes a size
\* below zero, and no array has that.
TooLong(values) == Cardinality(DOMAIN values) * CalculateBitWidth(UNION Range(values)) + WordBits > MaxBits

\* The bound of the code admits the word after the last.
ReadArray(array, index) ==
    LET place == Place(array.width, index)
        select == Mask(array.width)
    IN  IF index < 0 \/ place.last > array.length THEN Thrown
        ELSE (select \cap Shifted(array.words[place.first], -place.shift))
               \cup (IF place.last = place.first THEN {}
                     ELSE select \cap Shifted(array.words[place.last], WordBits - place.shift))

----------------------------------------------------------------------------
(* Containers of strings *)

Rank(s) == CHOOSE i \in DOMAIN Order : Order[i] = s
Sorted(S) == SelectSeq(Order, LAMBDA s : s \in S)
IndexIn(seq, x) == IF x \in Range(seq) THEN (CHOOSE i \in DOMAIN seq : seq[i] = x) - 1 ELSE -1

\* Assumed of the strings of an array: they are in the order of their code
\* units, and each is there once.
InRankOrder(strings) == \A i, j \in 1..Len(strings) : i < j => Rank(strings[i]) < Rank(strings[j])

\* StringArrayContainer: the strings in order, and a binary search in them.
GetIdentifierIfAvailable(strings, s) ==
    LET last == Len(strings) - 1
        search[bounds \in (0..(last + 1)) \X (-1..last)] ==
          LET start == bounds[1]
              limit == bounds[2]
              mid == (start + limit) \div 2
          IN  IF start > limit THEN -1
              ELSE IF Rank(s) < Rank(strings[mid + 1]) THEN search[<<start, mid - 1>>]
              ELSE IF Rank(s) > Rank(strings[mid + 1]) THEN search[<<mid + 1, limit>>]
              ELSE mid
    IN  search[<<0, last>>]

\* StringContainer and MarisaTrie: the keys in the order of their ids.
TrieKeys(S, ascending) == IF ascending THEN Sorted(S) ELSE Reverse(Sorted(S))

\* Assumed of the ids: each key has one, whatever their order.
NumbersKeys(keys, S) == keys \in Seq(S) /\ Range(keys) = S

MarisaTrie(map, ascending) ==
    LET keys == TrieKeys(DOMAIN map, ascending)
    IN  [keys |-> keys, data |-> CompressedArray([i \in DOMAIN keys |-> map[keys[i]]])]

Find(trie, key) ==
    LET id == IndexIn(trie.keys, key) IN IF id < 0 THEN NoText ELSE ReadArray(trie.data, id)

\* The distinct members of a sequence, in the order they come.
Singletons(seq) ==
    FoldLeft(LAMBDA found, x : IF x \in Range(found) THEN found ELSE Append(found, x), <<>>, seq)

----------------------------------------------------------------------------
(* Dictionary: reading the lines *)

Nothing == [types |-> <<>>, wordsToTypes |-> <<>>, wordToPropertyValue |-> <<>>,
            stringPool |-> {}]

\* The value of the type after the last is a bit more to the left; that of
\* the sign is negative.
CreateGrammemeTypeIfNonExistant(types, type) ==
    CASE types = Thrown \/ type \in Range(types) -> types
      [] types # Thrown /\ type \notin Range(types) ->
            IF Len(types) >= WordBits - 1 THEN Thrown ELSE Append(types, type)

PropertyValues(line) ==
    [name \in {p[1] : p \in Range(line.properties)} |->
       LET own == SelectSeq(line.properties, LAMBDA p : p[1] = name)
       IN  [i \in DOMAIN own |-> own[i][2]]]

\* Mutant of With: what a name says replaces what its lower case said.
With_Override(map, phrase, value) == (phrase :> value) @@ (LowerCase[phrase] :> value) @@ map

\* What a phrase says replaces what was there; what it says of its lower case
\* does not.
With(map, phrase, value) == (phrase :> value) @@ map @@ (LowerCase[phrase] :> value)

Extracted(d, line) ==
    LET types == FoldLeft(CreateGrammemeTypeIfNonExistant, d.types, line.types)
        bits == {IndexIn(types, t) : t \in Range(line.types)}
        values == PropertyValues(line)
    IN  IF types = Thrown \/ \E name \in DOMAIN values : Len(values[name]) > MaxValues THEN Thrown
        ELSE [types |-> types,
              wordsToTypes |-> With(d.wordsToTypes, line.phrase, bits),
              wordToPropertyValue |-> IF values = <<>> THEN d.wordToPropertyValue
                                      ELSE With(d.wordToPropertyValue, line.phrase, values),
              stringPool |-> d.stringPool \cup {line.phrase, LowerCase[line.phrase]} \cup Range(types)
                               \cup DOMAIN values \cup UNION {Range(values[n]) : n \in DOMAIN values}]

\* Lines without a phrase are skipped.
ReadLine ==
    /\ file = NoText /\ source.unread # <<>>
    /\ LET line == Head(source.unread)
           extracted == IF line.phrase = "" THEN dictionary ELSE Extracted(dictionary, line)
       IN  IF extracted = Thrown THEN file' = Thrown /\ UNCHANGED dictionary
           ELSE dictionary' = extracted /\ UNCHANGED file
    /\ source' = [source EXCEPT !.unread = Tail(@)]
    /\ UNCHANGED table

----------------------------------------------------------------------------
(* InflectionDictionary: packing the patterns *)

GrammemesOf(types, names) == {IndexIn(types, n) : n \in names}

\* The singletons of grammemes: those of the patterns, in their order, and
\* then those of the inflections.
GrammemePatterns(types, patterns) ==
    Singletons([i \in DOMAIN patterns |-> GrammemesOf(types, patterns[i].partsOfSpeech)]
                 \o FlattenSeq([i \in DOMAIN patterns |->
                      [j \in DOMAIN patterns[i].inflections |->
                         GrammemesOf(types, patterns[i].inflections[j].grammemes)]]))

SuffixesOf(patterns) ==
    UNION {Range(p.lemmaSuffixes) \cup {i.suffix : i \in Range(p.inflections)} : p \in Range(patterns)}

\* Why parsing or packing a table throws.
BadTable(types, patterns, stringPool) ==
    \/ \E p \in Range(patterns) :
          \/ p.name \notin stringPool
          \/ ~(p.partsOfSpeech \subseteq Range(types))
          \/ \E i \in Range(p.inflections) : ~(i.grammemes \subseteq Range(types))
    \/ \E i, j \in DOMAIN patterns : i < j /\ patterns[i].name = patterns[j].name

\* The widths of the fields of a pattern's first value and of an inflection.
FieldsOf(types, patterns) ==
    LET parts == {GrammemesOf(types, p.partsOfSpeech) : p \in Range(patterns)}
        bits(sizes) == CalculateBitWidth(UNION {BitsOf(n) : n \in sizes})
    IN  [frequency |-> bits({Cardinality({p.words : p \in Range(patterns)})}),
         partsOfSpeech |-> bits({Cardinality(parts)}),
         lemmaSuffixes |-> bits({Len(p.lemmaSuffixes) : p \in Range(patterns)}),
         inflections |-> bits({Len(p.inflections) : p \in Range(patterns)}),
         grammemes |-> GetNumBitsFromValues(0..(Len(GrammemePatterns(types, patterns)) - 1)),
         suffix |-> bits({Cardinality(SuffixesOf(patterns))})]

\* A pattern in the array of inflections: what it is and how long, then the
\* suffixes of its lemma, then its inflections.
PackedPattern(types, patterns, frequencies, suffixes, p) ==
    LET fields == FieldsOf(types, patterns)
        grammemes == GrammemePatterns(types, patterns)
        atLemma == fields.inflections
        atPartsOfSpeech == atLemma + fields.lemmaSuffixes
        atFrequency == atPartsOfSpeech + fields.partsOfSpeech
    IN  << BitsOf(Len(p.inflections))
             \cup Shifted(BitsOf(Len(p.lemmaSuffixes)), atLemma)
             \cup Shifted(BitsOf(IndexIn(grammemes, GrammemesOf(types, p.partsOfSpeech))), atPartsOfSpeech)
             \cup Shifted(BitsOf(IndexIn(frequencies, p.words)), atFrequency) >>
        \o [i \in DOMAIN p.lemmaSuffixes |-> BitsOf(IndexIn(suffixes, p.lemmaSuffixes[i]))]
        \o [i \in DOMAIN p.inflections |->
              AsInt(Shifted(BitsOf(IndexIn(suffixes, p.inflections[i].suffix)), fields.grammemes))
                \cup BitsOf(IndexIn(grammemes, GrammemesOf(types, p.inflections[i].grammemes)))]

\* Where each pattern begins in the array.
Offsets(packed, start) ==
    [i \in DOMAIN packed |-> start + FoldLeft(LAMBDA sum, j : sum + Len(packed[j]), 0, [j \in 1..(i - 1) |-> j])]

InflectionTable(types, patterns, ascending) ==
    LET frequencies == SetToSortSeq({p.words : p \in Range(patterns)}, <)
        suffixes == TrieKeys(SuffixesOf(patterns), ascending)
        packed == [i \in DOMAIN patterns |-> PackedPattern(types, patterns, frequencies, suffixes, patterns[i])]
        names == {p.name : p \in Range(patterns)}
        IndexOf(name) == CHOOSE i \in DOMAIN patterns : patterns[i].name = name
        fields == FieldsOf(types, patterns)
        inflections == FlattenSeq(packed)
        offsets == [name \in names |-> BitsOf(Offsets(packed, 0)[IndexOf(name)])]
    IN  IF \/ fields.grammemes + fields.suffix > WordBits
           \/ TooLong(inflections) \/ TooLong(offsets)
        THEN Thrown
        ELSE [grammemePatterns |-> GrammemePatterns(types, patterns),
              suffixes |-> suffixes,
              inflections |-> CompressedArray(inflections),
              fields |-> fields,
              frequencies |-> frequencies,
              patterns |-> MarisaTrie(offsets, ascending)]

----------------------------------------------------------------------------
(* LexicalDictionaryBuilder: packing the words *)

\* The bits of types are numbered as they were read; in the file they are
\* numbered in the order of the names.
MapValueToContainerBits(readTypes, types, bits) == {IndexIn(types, readTypes[b + 1]) : b \in bits}

\* The sets of types the words have, after an empty one that none has.
CompressTypeSingletons(d) ==
    LET words == Sorted(DOMAIN d.wordsToTypes)
        sets == Singletons([i \in DOMAIN words |-> d.wordsToTypes[words[i]]])
    IN  [wordsToTypesSingletons |-> [w \in DOMAIN d.wordsToTypes |-> IndexIn(sets, d.wordsToTypes[w]) + 1],
         typeSingletons |-> << {} >>
            \o [i \in DOMAIN sets |-> MapValueToContainerBits(d.types, Sorted(Range(d.types)), sets[i])]]

\* The heads of a word's properties, each a key and the number of its values,
\* the first with the number of keys as well; then all the values.
PackedProperties(keys, idsOf, keyBits, sizeBits, own) ==
    LET names == Sorted(DOMAIN own)
        Head_(i) == BitsOf(IndexIn(keys, names[i])) \cup Shifted(BitsOf(Len(own[names[i]])), keyBits)
                      \cup (IF i = 1 THEN Shifted(BitsOf(Len(names)), keyBits + sizeBits) ELSE {})
    IN  [i \in DOMAIN names |-> AsInt(Head_(i))]
        \o FlattenSeq([i \in DOMAIN names |->
              [j \in DOMAIN own[names[i]] |-> BitsOf(IndexIn(idsOf[names[i]], own[names[i]][j]))]])

\* inflectionTable is what was packed of the patterns, or NoText.
CreatePropertyValueMap(d, inflectionTable, ascending) ==
    LET data == d.wordToPropertyValue
        keys == Sorted(UNION {DOMAIN data[w] : w \in DOMAIN data})
        ValuesOf(k) == UNION {Range(data[w][k]) : w \in {v \in DOMAIN data : k \in DOMAIN data[v]}}
        isPattern(k) == k = InflectionKey /\ inflectionTable # NoText
        values == TrieKeys(UNION {ValuesOf(k) : k \in {l \in Range(keys) : ~isPattern(l)}}, ascending)
        idsOf == [k \in Range(keys) |-> IF isPattern(k) THEN inflectionTable.patterns.keys ELSE values]
        bits(n) == CalculateBitWidth(BitsOf(n))
        sizes == UNION {{Len(data[w][k]) : k \in DOMAIN data[w]} : w \in DOMAIN data}
        keyBits == IF keys = <<>> THEN 0 ELSE bits(Len(keys) - 1)
        sizeBits == IF keys = <<>> THEN 0 ELSE CalculateBitWidth(UNION {BitsOf(n) : n \in sizes})
        words == Sorted(DOMAIN data)
        packed == [w \in DOMAIN data |-> PackedProperties(keys, idsOf, keyBits, sizeBits, data[w])]
        maps == Singletons([i \in DOMAIN words |-> packed[words[i]]])
    IN  IF \/ \E k \in Range(keys) : isPattern(k) /\ ~(ValuesOf(k) \subseteq Range(idsOf[k]))
           \/ keys # <<>> /\ bits(Len(keys)) + sizeBits + keyBits > IntBits
        THEN Thrown
        ELSE [keys |-> keys, values |-> values, keyBits |-> keyBits, sizeBits |-> sizeBits,
              wordToPropertyMapId |-> [w \in DOMAIN data |-> Offsets(maps, 1)[IndexIn(maps, packed[w]) + 1]],
              maps |-> << {} >> \o FlattenSeq(maps)]

\* The data of the words, each in its place or each once with an index, by
\* what is estimated to be the smaller.
CompressDataSingletons(wordsToData) ==
    LET words == Sorted(DOMAIN wordsToData)
        data == Singletons([i \in DOMAIN words |-> wordsToData[words[i]]])
        dataBits == CalculateBitWidth(UNION Range(wordsToData))
        oneStage == Len(words) * dataBits
        twoStage == Len(data) * dataBits + Len(words) * CalculateBitWidth(BitsOf(Len(data)))
    IN  IF oneStage > twoStage
        THEN [trie |-> [w \in DOMAIN wordsToData |-> BitsOf(IndexIn(data, wordsToData[w]))],
              dataSingletons |-> data]
        ELSE [trie |-> wordsToData, dataSingletons |-> <<>>]

\* Mutant of TableSections: the widths are written in the order they were computed.
TableSections_Order(t) ==
    << t.grammemePatterns, t.suffixes, t.inflections,
       t.fields.inflections, t.fields.lemmaSuffixes, t.fields.frequency, t.fields.partsOfSpeech,
       t.fields.grammemes, t.fields.suffix,
       IF Len(t.frequencies) % 2 = 0 THEN Append(t.frequencies, 0) ELSE t.frequencies,
       t.patterns >>

\* The frequencies are padded to an odd number of them.
TableSections(t) ==
    << t.grammemePatterns, t.suffixes, t.inflections,
       t.fields.inflections, t.fields.lemmaSuffixes, t.fields.partsOfSpeech, t.fields.frequency,
       t.fields.grammemes, t.fields.suffix,
       IF Len(t.frequencies) % 2 = 0 THEN Append(t.frequencies, 0) ELSE t.frequencies,
       t.patterns >>

\* The first section says whether there is a table, at the end.
Sections(types, typeBits, mapBits, properties, trie, typeSingletons, dataSingletons, inflectionTable) ==
    << inflectionTable # NoText, types, typeBits, mapBits, properties.keyBits, properties.sizeBits,
       trie, typeSingletons, dataSingletons, properties.keys, properties.values,
       CompressedArray(properties.maps) >>
      \o (IF inflectionTable = NoText THEN <<>> ELSE TableSections(inflectionTable))

WriteWords(d, inflectionTable, compressed, properties, ascending) ==
    LET numBits(map) == GetNumBitsFromValues(Range(map))
        typeBits == numBits(compressed.wordsToTypesSingletons)
        mapBits == numBits(properties.wordToPropertyMapId)
        wordsToData ==
            [w \in DOMAIN d.wordsToTypes |->
               WriteBits(0, typeBits, compressed.wordsToTypesSingletons[w])
                 \cup (IF w \notin DOMAIN d.wordToPropertyValue THEN {}
                       ELSE WriteBits(typeBits, mapBits, properties.wordToPropertyMapId[w]))]
        data == CompressDataSingletons(wordsToData)
    IN  IF properties = Thrown \/ Len(compressed.typeSingletons) >= MaxSingletons \/ TooLong(properties.maps)
        THEN Thrown
        ELSE IF \/ d.wordsToTypes # <<>> /\ WriteBits(0, typeBits, 0) = Thrown
                \/ d.wordToPropertyValue # <<>> /\ WriteBits(typeBits, mapBits, 0) = Thrown
        THEN Thrown
        ELSE IF TooLong(data.dataSingletons) \/ TooLong(data.trie) THEN Thrown
        ELSE Sections(Sorted(Range(d.types)), typeBits, mapBits, properties, MarisaTrie(data.trie, ascending),
                      compressed.typeSingletons, CompressedArray(data.dataSingletons), inflectionTable)

WriteWithTable(d, inflectionTable, ascending) ==
    IF inflectionTable = Thrown THEN Thrown
    ELSE WriteWords(d, inflectionTable, CompressTypeSingletons(d),
                    CreatePropertyValueMap(d, inflectionTable, ascending), ascending)

WriteDictionary(d, patterns, ascending) ==
    LET types == Sorted(Range(d.types))
    IN  IF patterns = NoText THEN WriteWithTable(d, NoText, ascending)
        ELSE IF BadTable(types, patterns, d.stringPool) THEN Thrown
        ELSE WriteWithTable(d, InflectionTable(types, patterns, ascending), ascending)

\* The tool's main adds what the grammar of the language may ask for.
Prepared(d) ==
    LET types == FoldLeft(CreateGrammemeTypeIfNonExistant, d.types, GrammarTypes)
    IN  IF types = Thrown THEN Thrown
        ELSE [d EXCEPT !.types = types, !.stringPool = @ \cup Range(types)]

Write ==
    /\ file = NoText /\ source.unread = <<>>
    /\ LET prepared == Prepared(dictionary)
       IN  IF prepared = Thrown THEN file' = Thrown /\ UNCHANGED dictionary
           ELSE /\ dictionary' = prepared
                /\ \E ascending \in BOOLEAN : file' = WriteDictionary(prepared, table, ascending)
    /\ UNCHANGED <<source, table>>

ReadOrWrite == ReadLine \/ Write

----------------------------------------------------------------------------
(* DictionaryMetaData_MMappedDictionary: asking the file *)

\* Inflector_MMappedDictionary: the sections of a table.
OpenedTable(t) ==
    [grammemePatterns |-> t[1], suffixes |-> t[2], inflections |-> t[3],
     fields |-> [inflections |-> t[4], lemmaSuffixes |-> t[5], partsOfSpeech |-> t[6],
                 frequency |-> t[7], grammemes |-> t[8], suffix |-> t[9]],
     frequencies |-> t[10], patterns |-> t[11]]

Opened ==
    [types |-> file[2],
     bitsTypesSingletons |-> file[3],
     bitsPropertyMapId |-> file[4],
     bitsPropertyValueMapKey |-> file[5],
     bitsPropertyValueMapValuesSize |-> file[6],
     wordsToDataTrie |-> file[7],
     wordsToTypesSingletons |-> file[8],
     wordsToDataSingletons |-> file[9],
     propertyNameToKeyId |-> file[10],
     propertyValues |-> file[11],
     propertyValueMaps |-> file[12],
     inflector |-> IF file[1] THEN OpenedTable(SubSeq(file, 13, Len(file))) ELSE NoText]

\* A table with more than one suffix of a lemma is not opened.
IsOpened == Opened.inflector # NoText => Opened.inflector.fields.lemmaSuffixes <= 1

DataOf(word) ==
    LET found == Find(Opened.wordsToDataTrie, word)
    IN  IF found = NoText \/ Opened.wordsToDataSingletons.length = 0 THEN found
        ELSE ReadArray(Opened.wordsToDataSingletons, ValueOf(found))

GetWordType(word) ==
    LET data == DataOf(word)
        index == ValueOf(ExtractValue(data, 0, Opened.bitsTypesSingletons))
    IN  IF data = NoText THEN NoText
        ELSE IF index = 0 THEN NoText ELSE Opened.wordsToTypesSingletons[index + 1]

GetTypesOfValues(bits) == {Opened.types[b + 1] : b \in bits \cap 0..(Len(Opened.types) - 1)}

\* The head of a word's property, without the number of keys of the first.
KeyEntry(offset, i) ==
    ExtractValue(ReadArray(Opened.propertyValueMaps, offset + i), 0,
                 Opened.bitsPropertyValueMapKey + Opened.bitsPropertyValueMapValuesSize)

\* The ids of a word's values, or NoText if it has none of the property.
GetWordPropertyInternalIdentifiers(word, property) ==
    LET data == DataOf(word)
        offset == ValueOf(ExtractValue(data, Opened.bitsTypesSingletons, Opened.bitsPropertyMapId))
        keysSize == CalculateBitWidth(BitsOf(Len(Opened.propertyNameToKeyId)))
        size == ValueOf(ExtractValue(ReadArray(Opened.propertyValueMaps, offset),
                                     Opened.bitsPropertyValueMapKey + Opened.bitsPropertyValueMapValuesSize, keysSize))
        key(i) == ValueOf(KeyEntry(offset, i) \cap Mask(Opened.bitsPropertyValueMapKey))
        segment(i) == ValueOf(Shifted(KeyEntry(offset, i), -Opened.bitsPropertyValueMapKey))
        at == {i \in 0..(size - 1) : key(i) = property /\ \A j \in 0..(i - 1) : key(j) < property}
        Before(i) == FoldLeft(LAMBDA sum, j : sum + segment(j - 1), 0, [j \in 1..i |-> j])
    IN  IF data = NoText THEN NoText
        ELSE IF offset = 0 THEN NoText
        ELSE IF at = {} THEN NoText
        ELSE LET i == CHOOSE i \in at : TRUE
             IN  [k \in 1..segment(i) |->
                    ValueOf(ReadArray(Opened.propertyValueMaps, offset + size + Before(i) + k - 1))]

GetWordPropertyValues(word, property) ==
    LET key == GetIdentifierIfAvailable(Opened.propertyNameToKeyId, property)
        ids == GetWordPropertyInternalIdentifiers(word, key)
        names == IF Opened.inflector # NoText /\ property = InflectionKey
                 THEN Opened.inflector.patterns.keys ELSE Opened.propertyValues
    IN  IF key < 0 THEN Thrown
        ELSE IF ids = NoText THEN <<>> ELSE [i \in DOMAIN ids |-> names[ids[i] + 1]]

GetInflectionAtPosition(t, value) ==
    LET suffix == ExtractValue(Shifted(value, -t.fields.grammemes), 0, t.fields.suffix)
        grammemes == ExtractValue(value, 0, t.fields.grammemes)
    IN  [suffix |-> t.suffixes[ValueOf(suffix) + 1],
         grammemes |-> GetTypesOfValues(t.grammemePatterns[ValueOf(grammemes) + 1])]

GetInflectionPattern(name) ==
    LET t == Opened.inflector
        index == ValueOf(Find(t.patterns, name))
        prefix == ReadArray(t.inflections, index)
        field(start, len) == ValueOf(ExtractValue(Shifted(prefix, -start), 0, len))
        atLemma == t.fields.inflections
        atPartsOfSpeech == atLemma + t.fields.lemmaSuffixes
        atFrequency == atPartsOfSpeech + t.fields.partsOfSpeech
        lemmaSuffixesLen == field(atLemma, t.fields.lemmaSuffixes)
    IN  [name |-> name,
         words |-> t.frequencies[field(atFrequency, t.fields.frequency) + 1],
         partsOfSpeech |-> GetTypesOfValues(t.grammemePatterns[field(atPartsOfSpeech, t.fields.partsOfSpeech) + 1]),
         lemmaSuffixes |-> [i \in 1..lemmaSuffixesLen |->
                              t.suffixes[ValueOf(ReadArray(t.inflections, index + i)) + 1]],
         inflections |-> [i \in 1..field(0, t.fields.inflections) |->
            GetInflectionAtPosition(t, ReadArray(t.inflections, index + lemmaSuffixesLen + i))]]
============================================================================
